---------------------------- MODULE ChunkerProofs ----------------------------
(***************************************************************************)
(* chunk_text is correct for every text and every setting.                 *)
(***************************************************************************)
EXTENDS Chunker, TLAPS

(***************************************************************************)
(* What it means to append a chunk.                                        *)
(***************************************************************************)
LEMMA AppendChunk ==
  ASSUME NEW s \in Seq(Chunk), NEW c \in Chunk
  PROVE  /\ Append(s, c) \in Seq(Chunk)
         /\ Len(s) \in Nat
         /\ Len(Append(s, c)) = Len(s) + 1
         /\ DOMAIN s = 1..Len(s)
         /\ DOMAIN Append(s, c) = 1..(Len(s) + 1)
         /\ \A n \in 1..Len(s) : Append(s, c)[n] = s[n] /\ s[n] \in Chunk
         /\ Append(s, c)[Len(s) + 1] = c
         /\ Append(s, c) # <<>>
         /\ s = <<>> <=> Len(s) = 0
  OBVIOUS

LEMMA InitIInv == Init => IInv
<1> SUFFICES ASSUME Init PROVE IInv
  OBVIOUS
<1> USE ChunkerAssumption DEF Init
<1>1. TypeOK
  BY DEF TypeOK
<1>2. DOMAIN chunks = {} /\ Reached = 0
  BY DEF Reached
<1>3. ChunksAdvance
  BY <1>2 DEF ChunksAdvance
<1>4. OverlapExact
  BY <1>2 DEF OverlapExact
<1>5. LoopHolds
  BY <1>1, <1>2 DEF LoopHolds, TypeOK
<1> QED  BY <1>1, <1>3, <1>4, <1>5 DEF IInv

(***************************************************************************)
(* The tests before the loop keep the invariant.                           *)
(***************************************************************************)
LEMMA CheckIInv == IInv /\ Check => IInv'
<1> SUFFICES ASSUME IInv, Check PROVE IInv'
  OBVIOUS
<1>1. /\ length' = length /\ size' = size /\ overlap' = overlap
      /\ start' = start /\ chunks' = chunks /\ start = 0 /\ chunks = <<>>
  BY DEF IInv, LoopHolds, Check, args
<1>2. DOMAIN chunks = {} /\ Reached = 0 /\ Reached' = 0
  BY <1>1 DEF Reached
<1>3. TypeOK'
  BY <1>1 DEF IInv, TypeOK, Check
<1>4. ChunksAdvance'
  BY <1>1, <1>2 DEF ChunksAdvance, Check, IInv, TypeOK
<1>5. OverlapExact'
  BY <1>1, <1>2 DEF OverlapExact
<1>6. LoopHolds'
  BY <1>1, <1>2 DEF LoopHolds, Check, IInv, TypeOK, Legal
<1> QED  BY <1>3, <1>4, <1>5, <1>6 DEF IInv

(***************************************************************************)
(* An iteration keeps the invariant: the chunk it cuts starts where the    *)
(* overlap with the last one begins and ends later.                        *)
(***************************************************************************)
LEMMA CutIInv == IInv /\ Cut => IInv'
<1> SUFFICES ASSUME IInv, Cut PROVE IInv'
  OBVIOUS
<1> DEFINE c == [from |-> start, to |-> End]
           L == Len(chunks)
<1>1. /\ length \in Nat /\ size \in Nat /\ overlap \in Nat /\ start \in Nat
      /\ 0 < size /\ overlap < size /\ start < length /\ pc = "loop"
  BY DEF IInv, TypeOK, LoopHolds, Legal, Cut
<1>2. /\ length' = length /\ size' = size /\ overlap' = overlap
      /\ chunks' = Append(chunks, c)
      /\ IF End = length THEN pc' = "done" /\ start' = start
                         ELSE start' = End - overlap /\ pc' = "loop"
  BY DEF Cut, Cuts, args
<1>3. /\ End \in Nat /\ start < End /\ End <= start + size /\ End <= length
      /\ End < length => End = start + size
  BY <1>1 DEF End
<1>4. c \in Chunk /\ c.from = start /\ c.to = End
  BY <1>1, <1>3 DEF Chunk
<1>5. /\ chunks' \in Seq(Chunk) /\ chunks' # <<>>
      /\ L \in Nat /\ Len(chunks') = L + 1
      /\ DOMAIN chunks = 1..L /\ DOMAIN chunks' = 1..(L + 1)
      /\ \A n \in 1..L : chunks'[n] = chunks[n] /\ chunks[n] \in Chunk
      /\ chunks'[L + 1] = c
      /\ chunks = <<>> <=> L = 0
  <2>1. chunks \in Seq(Chunk)
    BY DEF IInv, TypeOK
  <2> HIDE DEF c
  <2> QED  BY <1>2, <1>4, <2>1, AppendChunk
<1>6. Reached' = End
  BY <1>4, <1>5 DEF Reached
<1>7. /\ L = 0 => start = 0 /\ Reached = 0
      /\ L # 0 => /\ Reached = chunks[L].to /\ start = Reached - overlap
                  /\ Reached = chunks[L].from + size /\ Reached < length
                  /\ Reached \in Nat
  BY <1>1, <1>5 DEF IInv, LoopHolds, Reached, Chunk
<1>8. Reached \in Nat /\ start <= Reached /\ Reached < End
  BY <1>1, <1>3, <1>7
<1> HIDE DEF c, L
<1>9. TypeOK'
  BY <1>1, <1>2, <1>3, <1>5 DEF TypeOK
<1>10. ChunksAdvance'
  <2>1. ASSUME NEW n \in 1..(L + 1)
        PROVE  /\ chunks'[n].from < chunks'[n].to
               /\ chunks'[n].to <= chunks'[n].from + size /\ chunks'[n].to <= length
    <3>1. CASE n = L + 1
      BY <1>3, <1>4, <1>5, <3>1
    <3>2. CASE n \in 1..L
      BY <1>5, <3>2 DEF IInv, ChunksAdvance
    <3> QED  BY <1>5, <3>1, <3>2
  <2>2. ASSUME NEW n \in 1..(L + 1), n # L + 1
        PROVE  /\ chunks'[n].to = chunks'[n].from + size
               /\ chunks'[n].to < chunks'[n + 1].to
    <3>1. n \in 1..L /\ chunks'[n] = chunks[n]
      BY <1>5, <2>2
    <3>2. CASE n = L
      BY <1>4, <1>5, <1>7, <1>8, <3>1, <3>2
    <3>3. CASE n # L
      <4>1. n + 1 \in 1..L /\ chunks'[n + 1] = chunks[n + 1]
        BY <1>5, <3>1, <3>3
      <4> QED  BY <1>5, <3>1, <3>3, <4>1 DEF IInv, ChunksAdvance, L
    <3> QED  BY <3>2, <3>3
  <2>3. pc' = "loop" => start' < length'
    BY <1>1, <1>2, <1>3
  <2> QED  BY <1>2, <1>5, <2>1, <2>2, <2>3 DEF ChunksAdvance
<1>11. OverlapExact'
  <2>1. ASSUME NEW n \in 1..(L + 1), n # L + 1
        PROVE  chunks'[n + 1].from = chunks'[n].to - overlap
    <3>1. n \in 1..L /\ chunks'[n] = chunks[n]
      BY <1>5, <2>1
    <3>2. CASE n = L
      BY <1>4, <1>5, <1>7, <3>1, <3>2
    <3>3. CASE n # L
      <4>1. n + 1 \in 1..L /\ chunks'[n + 1] = chunks[n + 1]
        BY <1>5, <3>1, <3>3
      <4> QED  BY <1>5, <3>1, <3>3, <4>1 DEF IInv, OverlapExact, L
    <3> QED  BY <3>2, <3>3
  <2> QED  BY <1>2, <1>5, <2>1 DEF OverlapExact
<1>12. LoopHolds'
  <2>1. ASSUME NEW p \in 0..(End - 1)
        PROVE  \E n \in 1..(L + 1) : chunks'[n].from <= p /\ p < chunks'[n].to
    <3>1. CASE p < Reached
      <4>1. p \in 0..(Reached - 1)
        BY <1>3, <1>8, <3>1
      <4>2. \A q \in 0..(Reached - 1) : \E n \in DOMAIN chunks :
              chunks[n].from <= q /\ q < chunks[n].to
        BY Zenon DEF IInv, LoopHolds
      <4>3. PICK n \in DOMAIN chunks : chunks[n].from <= p /\ p < chunks[n].to
        BY <4>1, <4>2
      <4> QED  BY <1>5, <4>3
    <3>2. CASE Reached <= p
      BY <1>1, <1>3, <1>4, <1>5, <1>8, <3>2
    <3> QED  BY <1>3, <1>8, <3>1, <3>2
  <2>2. pc' = "loop" => /\ Legal'
                        /\ start' = Reached' - overlap'
                        /\ Reached' = chunks'[Len(chunks')].from + size'
                        /\ Reached' < length'
    BY <1>1, <1>2, <1>3, <1>4, <1>5, <1>6 DEF Legal
  <2>3. pc' \in {"loop", "done"} /\ (pc' = "done" => Reached' = length')
    BY <1>2, <1>6
  <2> QED  BY <1>5, <1>6, <2>1, <2>2, <2>3 DEF LoopHolds
<1> QED  BY <1>9, <1>10, <1>11, <1>12 DEF IInv

(***************************************************************************)
(* The inductive invariant holds in every reachable state: in every text   *)
(* chunks advance and overlap by exactly chunk_overlap characters.         *)
(***************************************************************************)
THEOREM Chunked == Spec => []IInv
<1>1. IInv /\ [Next]_vars => IInv'
  <2> SUFFICES ASSUME IInv, [Next]_vars PROVE IInv'
    OBVIOUS
  <2>1. CASE Check
    BY <2>1, CheckIInv
  <2>2. CASE Cut
    BY <2>2, CutIInv
  <2>3. CASE UNCHANGED vars
    BY <2>3 DEF vars, args, IInv, TypeOK, ChunksAdvance, OverlapExact, LoopHolds,
                Legal, Reached
  <2> QED  BY <2>1, <2>2, <2>3 DEF Next
<1> QED  BY InitIInv, <1>1, PTL DEF Spec

(***************************************************************************)
(* A text that has been cut is all there.                                  *)
(***************************************************************************)
THEOREM Covered == Spec => []NothingLost
<1>1. IInv => NothingLost
  BY DEF IInv, TypeOK, LoopHolds, NothingLost
<1> QED  BY Chunked, <1>1, PTL

(***************************************************************************)
(* Every chunk fits and ends later than the one before: the loop ends.     *)
(***************************************************************************)
THEOREM Advancing == Spec => []ChunksAdvance
<1>1. IInv => ChunksAdvance
  BY DEF IInv
<1> QED  BY Chunked, <1>1, PTL

(***************************************************************************)
(* Neighbouring chunks share exactly chunk_overlap characters.             *)
(***************************************************************************)
THEOREM Overlapping == Spec => []OverlapExact
<1>1. IInv => OverlapExact
  BY DEF IInv
<1> QED  BY Chunked, <1>1, PTL
-----------------------------------------------------------------------------
(***************************************************************************)
(* The chunks so far are the first windows, and the next one starts where  *)
(* the loop stands.                                                        *)
(***************************************************************************)
WindowInv ==
  /\ \A n \in DOMAIN chunks : chunks[n] = Window(n)
  /\ pc = "loop" => start = Len(chunks) * Stride

(***************************************************************************)
(* An iteration cuts the next window and goes on by one stride.            *)
(***************************************************************************)
LEMMA CutWindow == IInv /\ WindowInv /\ Cut => WindowInv'
<1> SUFFICES ASSUME IInv, WindowInv, Cut PROVE WindowInv'
  OBVIOUS
<1> DEFINE c == [from |-> start, to |-> End]
           L == Len(chunks)
<1>1. /\ length \in Nat /\ size \in Int /\ overlap \in Int /\ start \in Nat
      /\ chunks \in Seq(Chunk) /\ 0 < size /\ start < length
      /\ start = L * Stride /\ Stride \in Int
  BY DEF IInv, TypeOK, LoopHolds, Legal, Cut, WindowInv, Stride
<1>2. /\ length' = length /\ size' = size /\ overlap' = overlap
      /\ chunks' = Append(chunks, c)
      /\ IF End = length THEN pc' = "done" /\ start' = start
                         ELSE start' = End - overlap /\ pc' = "loop"
  BY DEF Cut, Cuts, args, IInv, LoopHolds
<1>3. /\ End \in Nat
      /\ End # length => End - overlap = start + Stride
  BY <1>1 DEF End, Stride
<1>4. c \in Chunk
  BY <1>1, <1>3 DEF Chunk
<1>5. /\ L \in Nat /\ Len(chunks') = L + 1
      /\ DOMAIN chunks = 1..L /\ DOMAIN chunks' = 1..(L + 1)
      /\ \A n \in 1..L : chunks'[n] = chunks[n]
      /\ chunks'[L + 1] = c
  <2> HIDE DEF c
  <2> QED  BY <1>1, <1>2, <1>4, AppendChunk
<1>6. Stride' = Stride /\ \A n : Window(n)' = Window(n)
  BY <1>2 DEF Stride, Window
<1>7. Window(L + 1) = c
  <2>1. ((L + 1) - 1) * Stride = start
    BY <1>1, <1>5
  <2> QED  BY <2>1 DEF Window, End
<1>8. \A n \in 1..(L + 1) : chunks'[n] = Window(n)'
  <2> SUFFICES ASSUME NEW n \in 1..(L + 1) PROVE chunks'[n] = Window(n)
    BY <1>6
  <2>1. CASE n = L + 1
    BY <1>5, <1>7, <2>1
  <2>2. CASE n \in 1..L
    BY <1>5, <2>2 DEF WindowInv
  <2> QED  BY <1>5, <2>1, <2>2
<1>9. pc' = "loop" => start' = Len(chunks') * Stride'
  <2> HIDE DEF L
  <2>1. (L + 1) * Stride = L * Stride + Stride
    BY <1>1, <1>5
  <2> QED  BY <1>1, <1>2, <1>3, <1>5, <1>6, <2>1
<1> QED  BY <1>5, <1>8, <1>9 DEF WindowInv

(***************************************************************************)
(* The last window, and no other, reaches the end of the text.             *)
(***************************************************************************)
LEMMA LastWindow == IInv /\ WindowInv => ChunksAreWindows
<1> SUFFICES ASSUME IInv, WindowInv, pc = "done", NEW n \in DOMAIN chunks
             PROVE  chunks[n].to = length <=> n = Len(chunks)
  BY DEF ChunksAreWindows, WindowInv
<1>1. /\ chunks \in Seq(Chunk) /\ DOMAIN chunks = 1..Len(chunks) /\ Len(chunks) \in Nat
      /\ \A m \in DOMAIN chunks : chunks[m] \in Chunk
      /\ length \in Nat
  BY DEF IInv, TypeOK
<1>2. chunks[Len(chunks)].to = length
  BY <1>1 DEF IInv, LoopHolds, Reached
<1>3. CASE n # Len(chunks)
  <2>1. n + 1 \in DOMAIN chunks
    BY <1>1, <1>3
  <2>2. chunks[n].to < chunks[n + 1].to /\ chunks[n + 1].to <= length
    BY <1>3, <2>1 DEF IInv, ChunksAdvance
  <2> QED  BY <1>1, <1>3, <2>1, <2>2 DEF Chunk
<1> QED  BY <1>2, <1>3

(***************************************************************************)
(* For every text and every setting chunk_text returns the windows of the  *)
(* text, and so a function of its arguments.                               *)
(***************************************************************************)
THEOREM Windowed == Spec => []ChunksAreWindows
<1>1. Init => WindowInv
  <2>1. Init => DOMAIN chunks = {} /\ pc = "check"
    BY DEF Init
  <2> QED  BY <2>1 DEF WindowInv
<1>2. IInv /\ WindowInv /\ [Next]_vars => WindowInv'
  <2> SUFFICES ASSUME IInv, WindowInv, [Next]_vars PROVE WindowInv'
    OBVIOUS
  <2>1. CASE Check
    <3>1. /\ size' = size /\ overlap' = overlap /\ length' = length
          /\ start' = start /\ chunks' = chunks /\ start = 0 /\ chunks = <<>>
      BY <2>1 DEF Check, args, IInv, LoopHolds
    <3>2. DOMAIN chunks' = {} /\ Len(chunks') = 0 /\ Stride' \in Int
      BY <3>1 DEF Stride, IInv, TypeOK
    <3>3. Len(chunks') * Stride' = 0
      <4>1. \A k \in Int : 0 * k = 0
        OBVIOUS
      <4> QED  BY <3>2, <4>1
    <3> QED  BY <3>1, <3>2, <3>3 DEF WindowInv
  <2>2. CASE Cut
    BY <2>2, CutWindow
  <2>3. CASE UNCHANGED vars
    BY <2>3 DEF vars, args, WindowInv, Window, Stride
  <2> QED  BY <2>1, <2>2, <2>3 DEF Next
<1> QED  BY Chunked, <1>1, <1>2, LastWindow, PTL DEF Spec

=============================================================================
