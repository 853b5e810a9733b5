------------------------------- MODULE Chunker -------------------------------
(***************************************************************************)
(* chunk_text (src/app/ingestion/chunker.py): the loop that cuts the text  *)
(* of a document into overlapping chunks.  A text is the length it has     *)
(* once its white space is normalised, 0 for a blank one; a chunk is the   *)
(* slice normalized[from:to].                                              *)
(***************************************************************************)
EXTENDS Integers, Sequences

CONSTANTS Lengths,     \* lengths of a normalised text
          Sizes,       \* values of the setting chunk_size
          Overlaps     \* values of the setting chunk_overlap

ASSUME ChunkerAssumption == /\ Lengths \subseteq Nat
                            /\ Sizes \subseteq Int
                            /\ Overlaps \subseteq Int

VARIABLES length, size, overlap,   \* the arguments
          start, chunks,           \* the local variables of the loop
          pc

args == <<length, size, overlap>>
vars == <<args, start, chunks, pc>>

Chunk == [from : Nat, to : Nat]

Init == /\ length \in Lengths /\ size \in Sizes /\ overlap \in Overlaps
        /\ start = 0 /\ chunks = <<>> /\ pc = "check"

(***************************************************************************)
(* The tests before the loop.  A blank text is answered with no chunk,     *)
(* whatever the settings are.                                              *)
(***************************************************************************)
MutantLegal == size > 0 /\ overlap >= 0              \* forgets overlap < size

Legal == size > 0 /\ overlap >= 0 /\ overlap < size

Check == /\ pc = "check"
         /\ pc' = IF length = 0 THEN "done" ELSE IF Legal THEN "loop" ELSE "raised"
         /\ UNCHANGED <<args, start, chunks>>

(***************************************************************************)
(* An iteration of the loop.                                               *)
(***************************************************************************)
End == IF start + size < length THEN start + size ELSE length

Cuts == chunks' = Append(chunks, [from |-> start, to |-> End])

MutantCutDropsTail ==                 \* while start + chunk_size <= len(text)
  /\ pc = "loop" /\ start < length
  /\ IF start + size <= length THEN Cuts ELSE UNCHANGED chunks
  /\ IF End = length THEN pc' = "done" /\ UNCHANGED start
                     ELSE start' = End - overlap /\ UNCHANGED pc
  /\ UNCHANGED args

MutantCutAbuts ==                     \* start = end
  /\ pc = "loop" /\ start < length
  /\ Cuts
  /\ IF End = length THEN pc' = "done" /\ UNCHANGED start
                     ELSE start' = End /\ UNCHANGED pc
  /\ UNCHANGED args

Cut == /\ pc = "loop" /\ start < length
       /\ Cuts
       /\ IF End = length THEN pc' = "done" /\ UNCHANGED start
                          ELSE start' = End - overlap /\ UNCHANGED pc
       /\ UNCHANGED args

Next == Check \/ Cut

Spec == Init /\ [][Next]_vars

-----------------------------------------------------------------------------
(***************************************************************************)
(* Every variable has its type.                                            *)
(***************************************************************************)
TypeOK == /\ length \in Nat /\ size \in Int /\ overlap \in Int
          /\ start \in Nat
          /\ chunks \in Seq(Chunk)
          /\ pc \in {"check", "loop", "done", "raised"}

(***************************************************************************)
(* No chunk is empty or longer than chunk_size, only the last is shorter,  *)
(* and each ends later than the one before: none repeats what others hold, *)
(* and a text of n characters is cut after at most n iterations, the last  *)
(* of which ends at n.  The loop never tests start < len(text) in vain.    *)
(***************************************************************************)
ChunksAdvance ==
  /\ \A n \in DOMAIN chunks : LET c == chunks[n] IN
       c.from < c.to /\ c.to <= c.from + size /\ c.to <= length
  /\ \A n \in DOMAIN chunks : n # Len(chunks) =>
       /\ chunks[n].to = chunks[n].from + size
       /\ chunks[n].to < chunks[n + 1].to
  /\ pc = "loop" => start < length

(***************************************************************************)
(* A chunk starts with exactly the last chunk_overlap characters of the    *)
(* one before.                                                             *)
(***************************************************************************)
OverlapExact ==
  \A n \in DOMAIN chunks : n # Len(chunks) =>
    chunks[n + 1].from = chunks[n].to - overlap

(***************************************************************************)
(* The loop computes a function of its arguments: the windows of           *)
(* chunk_size characters that start every chunk_size - chunk_overlap       *)
(* characters, up to the first that reaches the end of the text, which is  *)
(* cut there.  No offset drifts, however long the text is.                 *)
(***************************************************************************)
Stride == size - overlap

Window(n) == LET from == (n - 1) * Stride IN
  [from |-> from, to |-> IF from + size < length THEN from + size ELSE length]

ChunksAreWindows ==
  /\ \A n \in DOMAIN chunks : chunks[n] = Window(n)
  /\ pc = "done" => \A n \in DOMAIN chunks : Window(n).to = length <=> n = Len(chunks)

(***************************************************************************)
(* Once the text is cut, every character of it is in a chunk.              *)
(***************************************************************************)
NothingLost ==
  pc = "done" => \A p \in 0..(length - 1) :
    \E n \in DOMAIN chunks : chunks[n].from <= p /\ p < chunks[n].to

(***************************************************************************)
(* What holds at the head of the loop: the strengthening under which the   *)
(* properties above are inductive.                                         *)
(***************************************************************************)
Reached == IF chunks = <<>> THEN 0 ELSE chunks[Len(chunks)].to

LoopHolds ==
  /\ pc \in {"check", "raised"} => chunks = <<>>
  /\ pc = "check" => start = 0
  /\ pc = "loop" => /\ Legal
                    /\ IF chunks = <<>> THEN start = 0
                       ELSE /\ start = Reached - overlap
                            /\ Reached = chunks[Len(chunks)].from + size
                            /\ Reached < length
  /\ pc = "done" => Reached = length
  /\ \A p \in 0..(Reached - 1) :
       \E n \in DOMAIN chunks : chunks[n].from <= p /\ p < chunks[n].to

IInv == TypeOK /\ ChunksAdvance /\ OverlapExact /\ LoopHolds
=============================================================================
