---------------------------- MODULE MCTurnLoop -----------------------------
(* Small instances of TurnLoop for TLC.                                    *)
EXTENDS TurnLoop, TLC

\* Messages are interchangeable in the runs that check safety only.
Symmetry == Permutations(Users)
=============================================================================
