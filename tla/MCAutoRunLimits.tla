--------------------------- MODULE MCAutoRunLimits ---------------------------
(***************************************************************************)
(* Instance of AutoRunLimits for TLC: two hosts that may be learned and    *)
(* one verb, so that the hourly limit is shared by two actions.            *)
(***************************************************************************)
EXTENDS AutoRunLimits, TLC

CONSTANTS h1, h2

Named == [h \in Host |-> h]
Alerting == [p \in Problem |-> h1]
AllVerbs == [h \in Host |-> Verb]

Symmetry == Permutations(Job)
==============================================================================
