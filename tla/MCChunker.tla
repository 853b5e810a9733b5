------------------------------ MODULE MCChunker ------------------------------
(***************************************************************************)
(* Every text of up to MaxLength characters, cut with every setting around *)
(* the legal ones.                                                         *)
(***************************************************************************)
EXTENDS Chunker

CONSTANT MaxLength

SomeLengths  == 0..MaxLength
SomeSizes    == -1..(MaxLength + 1)
SomeOverlaps == -1..MaxLength
=============================================================================
