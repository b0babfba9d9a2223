----------------------------- MODULE Ownership ------------------------------
(***************************************************************************)
(* What the coordinator fleet promises about a worker (ADR 0084): it works *)
(* for at most one coordinator at a time and never passes from one to      *)
(* another directly; it has to be let go first.                            *)
(***************************************************************************)
CONSTANTS Coordinators, Workers, Nobody

VARIABLE owner  \* per worker: its coordinator, or Nobody

Init == owner = [w \in Workers |-> Nobody]

\* A worker that is free, or a whole fleet after a restart.
Take(c, S) ==
  /\ \A w \in S : owner[w] = Nobody
  /\ owner' = [w \in Workers |-> IF w \in S THEN c ELSE owner[w]]

LetGo(S) == owner' = [w \in Workers |-> IF w \in S THEN Nobody ELSE owner[w]]

Next == \E S \in SUBSET Workers : LetGo(S) \/ \E c \in Coordinators : Take(c, S)

Spec == Init /\ [][Next]_owner
=============================================================================
