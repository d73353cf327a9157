---------------------------- MODULE AutoRunLimits ----------------------------
(***************************************************************************)
(* The auto-run budget of grants.py under concurrent job handlers.  A      *)
(* handler asks check_auto(), approves the job with a second statement and *)
(* only then counts the run with start_auto_run(): in between, other       *)
(* handlers may be let through.  Concurrent bounds how many handlers are   *)
(* in that gap at once.  The code sets no such bound (the diagnosis        *)
(* semaphore is released before the gap, and the three statements share no *)
(* transaction), so it is a parameter, and the runs show what the limits   *)
(* are worth for each value.                                               *)
(***************************************************************************)
EXTENDS Grants

CONSTANT Concurrent

ASSUME ConcurrentAssumption == Concurrent \in Nat \ {0}

VARIABLE
  handler    \* handler[j]: where the handler of job j is, and the tuple it acts on

limitVars == <<now, grants, autoRuns, links, handler>>

Idle == [at |-> "idle", tuple |-> <<>>]
HandlerState == [at : {"admitted", "running", "ended"}, tuple : Tuple] \union {Idle}

LimitsInit ==
  /\ now = 0
  /\ GrantsInit
  /\ handler = [j \in Job |-> Idle]

(* A person approved job j for tuple t and the action verified: app.handle_approved. *)
RememberApproval(j, t) ==
  /\ handler[j] = Idle
  /\ ~IsProtected(t[1])
  /\ Remember(j, t) \/ InsertGrant(j, t)
  /\ handler' = [handler EXCEPT ![j] = [at |-> "ended", tuple |-> t]]
  /\ UNCHANGED now

Admit(j, t) ==
  /\ handler[j] = Idle
  /\ Cardinality({k \in Job : handler[k].at = "admitted"}) < Concurrent
  /\ CheckAuto(t)
  /\ handler' = [handler EXCEPT ![j] = [at |-> "admitted", tuple |-> t]]
  /\ UNCHANGED <<now, grants, autoRuns, links>>

Count(j) ==
  /\ handler[j].at = "admitted"
  /\ StartAutoRun(j, handler[j].tuple)
  /\ handler' = [handler EXCEPT ![j].at = "running"]
  /\ UNCHANGED now

Finish(j, ok, delivered) ==
  /\ handler[j].at = "running"
  /\ FinishAutoRun(handler[j].tuple, ok, delivered)
  /\ handler' = [handler EXCEPT ![j].at = "ended"]
  /\ UNCHANGED now

RevokeTap(t) == Revoke(t) /\ UNCHANGED <<now, handler>>

TimePasses ==
  /\ now < MaxTime
  /\ now' = now + 1
  /\ UNCHANGED <<grants, autoRuns, links, handler>>

LimitsNext ==
  \/ \E j \in Job, t \in Tuple : RememberApproval(j, t) \/ Admit(j, t)
  \/ \E j \in Job : Count(j) \/ \E ok, delivered \in BOOLEAN : Finish(j, ok, delivered)
  \/ \E t \in Tuple : RevokeTap(t)
  \/ TimePasses

LimitsSpec == LimitsInit /\ [][LimitsNext]_limitVars

------------------------------------------------------------------------------
(* Properties *)

(* Grants, counted runs and handlers have the shape of their tables, and a *)
(* run is counted at a time the clock has shown.                           *)
LimitsTypeOK ==
  /\ now \in Nat
  /\ grants \in [Tuple -> Grant]
  /\ autoRuns \subseteq [job : Job, tuple : Tuple, at : 0..now]
  /\ links \subseteq Tuple
  /\ handler \in [Job -> HandlerState]

(* "a third auto-run inside 24 h falls back to a manual approval"          *)
(* (grants.PER_TUPLE_24H), as far as check-then-count keeps it: in no day  *)
(* do more runs exceed the limit than handlers were already let through    *)
(* when the budget ran out.                                                *)
TupleOvershoot ==
  \A t \in Tuple, x \in 0..now :
    Cardinality(RunsWithin(RunsOf(t), Day, x)) <= PerTuple + Concurrent - 1

(* The same for GLOBAL_PER_HOUR, over the runs of all actions.             *)
HourOvershoot ==
  \A x \in 0..now :
    Cardinality(RunsWithin(autoRuns, Hour, x)) <= GlobalPerHour + Concurrent - 1

(* A Revoke tap or a failed verification stops the action until a person   *)
(* approves it again: after the end only handlers that had passed          *)
(* check_auto() by then are still counted, however long they take.         *)
EndedStopsRuns ==
  \A t \in Tuple : grants[t].status = "ended" =>
    Cardinality({r \in RunsOf(t) : r.at > grants[t].endedAt}) <= Concurrent
==============================================================================
