---------------------------- MODULE MCRateLimiter ----------------------------
(***************************************************************************)
(* A small instance of the rate limiter for TLC: two requests are served   *)
(* by one process, the third by another.                                   *)
(***************************************************************************)
EXTENDS RateLimiter, TLC

CONSTANTS r1, r2, r3, p1, p2

TwoProcesses == [r \in Requests |-> IF r \in {r1, r2} THEN p1 ELSE p2]

(***************************************************************************)
(* Requests of one process are interchangeable.                            *)
(***************************************************************************)
Symmetry == Permutations({r1, r2})
=============================================================================
