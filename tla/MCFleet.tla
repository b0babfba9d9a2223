------------------------------ MODULE MCFleet -------------------------------
(* Small instances of Fleet for TLC.                                       *)
EXTENDS Fleet, TLC

\* Coordinators and workers are interchangeable in the runs for safety.
Symmetry == Permutations(Coordinators) \cup Permutations(Existing)
              \cup Permutations(Workers \ Existing)

\* The IDE runs and coordinators compete for the workers that they have made.
Contest ==
  /\ restarts = 0
  /\ \A o \in calls : o.w \notin Existing
  /\ \A w \in Existing : turn[w] = "idle" /\ Owners(w) = {}

\* The fleet of one coordinator grows by all that registers a worker: a spawn, an
\* attach, and the rebuild after a restart.  Its workers rest: their turns and events
\* register nobody.
Growth ==
  /\ cut = NoFleet /\ owed = {}
  /\ \A w \in Workers : turn[w] \notin {"turn", "ask"}
  /\ \E c \in Coordinators :
       /\ \A o \in calls : o.c = c /\ (o \in Attaching \/ o.at \in {"s_feed", "s_record", "seed"})
       /\ \A d \in Coordinators \ {c} : workers[d] = {} /\ listed[d] = {}

\* Bound: operations that overlap meet in one of two small worlds.
ContestOrGrowth == Contest \/ Growth
=============================================================================
