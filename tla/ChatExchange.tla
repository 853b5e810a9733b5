---------------------------- MODULE ChatExchange ----------------------------
(***************************************************************************)
(* What POST /chat promises of a conversation, whatever threads, chains of *)
(* fallbacks and transactions are involved: a request puts its question in *)
(* a session, then its answer in the same session, and only then is the    *)
(* exchange confirmed to the client.  It may be over before that, with     *)
(* what it has written in place.  ApiService implements it.                *)
(***************************************************************************)
EXTENDS Sequences

CONSTANTS Asker,        \* the requests
          Sessions,     \* session ids
          Nowhere       \* the session of a request that has written nothing

VARIABLES transcript,   \* per session: who said something, and as what
          exchange      \* per request: how far it is, and in which session

Line(role, r) == [role |-> role, of |-> r]

Exchange(stage, s) == [stage |-> stage, session |-> s]

Moves(r, stage, s) == exchange' = [exchange EXCEPT ![r] = Exchange(stage, s)]

ChatInit == /\ transcript = [s \in Sessions |-> <<>>]
            /\ exchange = [r \in Asker |-> Exchange("none", Nowhere)]

Question(r) ==
  /\ exchange[r].stage = "none"
  /\ \E s \in Sessions :
       /\ transcript' = [transcript EXCEPT ![s] = Append(@, Line("user", r))]
       /\ Moves(r, "asked", s)

Reply(r) ==
  LET s == exchange[r].session IN
  /\ exchange[r].stage = "asked"
  /\ transcript' = [transcript EXCEPT ![s] = Append(@, Line("assistant", r))]
  /\ Moves(r, "replied", s)

Confirm(r) ==
  /\ exchange[r].stage = "replied"
  /\ Moves(r, "confirmed", exchange[r].session)
  /\ UNCHANGED transcript

(***************************************************************************)
(* Exchanges end unconfirmed: one with an error, or all that are under way *)
(* with their process.                                                     *)
(***************************************************************************)
Abandon ==
  /\ \E over \in SUBSET {r \in Asker : exchange[r].stage # "confirmed"} :
       exchange' = [r \in Asker |-> IF r \in over THEN Exchange("over", exchange[r].session)
                                    ELSE exchange[r]]
  /\ UNCHANGED transcript

ChatNext == Abandon \/ \E r \in Asker : Question(r) \/ Reply(r) \/ Confirm(r)

ChatSpec == ChatInit /\ [][ChatNext]_<<transcript, exchange>>
=============================================================================
