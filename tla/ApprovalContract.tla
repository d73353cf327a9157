--------------------------- MODULE ApprovalContract ---------------------------
(***************************************************************************)
(* What the responder promises about every job, without its database,      *)
(* threads or clock: an action runs at most once, only after somebody      *)
(* authorised it, never after it was refused, and an authorisation may     *)
(* still be withdrawn until the moment the action starts.                  *)
(***************************************************************************)
EXTENDS Naturals

CONSTANT Job

VARIABLES
  verdict,  \* verdict[j]: "none" yet, "yes" (authorised) or "no" (refused for good)
  runs      \* runs[j]: how often the action of job j was started

contractVars == <<verdict, runs>>

Init ==
  /\ verdict = [j \in Job |-> "none"]
  /\ runs = [j \in Job |-> 0]

Authorise(j) ==
  /\ verdict[j] = "none"
  /\ verdict' = [verdict EXCEPT ![j] = "yes"]
  /\ UNCHANGED runs

Refuse(j) ==
  /\ verdict[j] # "no"
  /\ runs[j] = 0
  /\ verdict' = [verdict EXCEPT ![j] = "no"]
  /\ UNCHANGED runs

Run(j) ==
  /\ verdict[j] = "yes"
  /\ runs[j] = 0
  /\ runs' = [runs EXCEPT ![j] = 1]
  /\ UNCHANGED verdict

Next == \E j \in Job : Authorise(j) \/ Refuse(j) \/ Run(j)

Spec == Init /\ [][Next]_contractVars
==============================================================================
