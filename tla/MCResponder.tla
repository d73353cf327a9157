------------------------------ MODULE MCResponder ------------------------------
(***************************************************************************)
(* Instances of Responder for TLC: host h1 may be learned, h2 is protected *)
(* by its name alone; problems p1 and p3 are on h1, p2 on h2.              *)
(***************************************************************************)
EXTENDS Responder, TLC

CONSTANTS h1, h2, p2, restart, reload

Named == [h \in Host |-> h]
Alerting == [p \in Problem |-> IF p = p2 THEN h2 ELSE h1]
VerbsOf == [h \in Host |-> IF h = h2 THEN {reload} ELSE {restart}]

Symmetry == Permutations(Job) \union Permutations(Tap)
==============================================================================
