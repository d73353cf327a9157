------------------------------- MODULE Responder -------------------------------
(***************************************************************************)
(* The responder service (app.py): HTTP threads for alerts, recoveries,    *)
(* taps and revocations, one handler thread per job, the sweeper and       *)
(* main(), all sharing the SQLite tables of JobStore and Grants and        *)
(* nothing else but the diagnosis semaphore.  One action per database      *)
(* statement: between two statements of a thread any other may run.        *)
(*                                                                         *)
(* A job is worked on by at most one handler at a time: the thread of      *)
(* handle_new_job ends before its buttons can be tapped, and the thread of *)
(* handle_approved is spawned by the tap that won.                         *)
(***************************************************************************)
EXTENDS JobStore, Grants

CONSTANTS
  Tap,          \* HTTP threads that can serve a tap at once
  JobsPerHour,  \* JOBS_PER_HOUR
  MaxCrashes,   \* bound: how often the host or the service goes down
  MaxFaults     \* bound: how many threads die of an exception

ASSUME ResponderAssumption ==
  JobsPerHour \in Nat /\ MaxCrashes \in Nat /\ MaxFaults \in Nat

VARIABLES
  handler,  \* handler[j]: the thread working on job j, and the verb it would run
  buttons,  \* jobs whose Approve and Deny buttons reached the phone
  taps,     \* taps[t]: the claim() HTTP thread t is in the middle of
  recov,    \* recov[p]: what the SELECT of a running recover() found and has yet to close
  sweep,    \* what expire_due() found (due), and what it marked and the sweeper must close
  up,       \* whether the service runs
  crashes, faults

threadVars == <<handler, buttons, taps, recov, sweep>>
lifeVars == <<up, crashes, faults>>
vars == <<storeVars, grantVars, threadVars, lifeVars>>

Asking == {"spawned", "queued", "diagnosing", "diagnosed", "granted", "asking"}
AutoRunning == {"counting", "autoStarting", "autoRunning", "autoOk", "autoBad"}
ManualRunning == {"starting", "running", "recording", "inserting"}

NoThread == [at |-> "none", verb |-> NoVerb]
Thread == [at : Asking \union AutoRunning \union ManualRunning, verb : VerbOrNone]
            \union {NoThread}
NoTap == [at |-> "idle", job |-> NoJob, decision |-> "none"]
TapThread == [at : {"writing", "late", "denying"}, job : Job, decision : Decision]
               \union {NoTap}
NoSweep == [due |-> {}, marked |-> {}]

HostOf(j) == ByCheckmkName(AlertingName[jobs[j].problem])
Goes(j, place) == handler' = [handler EXCEPT ![j].at = place]
Ends(j) == handler' = [handler EXCEPT ![j] = NoThread]

Init ==
  /\ StoreInit
  /\ GrantsInit
  /\ handler = [j \in Job |-> NoThread]
  /\ buttons = {}
  /\ taps = [t \in Tap |-> NoTap]
  /\ recov = [p \in Problem |-> {}]
  /\ sweep = NoSweep
  /\ up = TRUE /\ crashes = 0 /\ faults = 0

------------------------------------------------------------------------------
(* POST /alert with a problem: a new job gets a handler, an attached alert *)
(* only a row of the alerts table.                                         *)
Alert(p, j) ==
  /\ OpenJob(p, j)
  /\ Goes(j, "spawned")
  /\ UNCHANGED <<grantVars, buttons, taps, recov, sweep>>

(* handle_new_job *)

RateLimited ==
  Cardinality({j \in Job : jobs[j].state # "absent" /\ jobs[j].created + Hour > now})
    > JobsPerHour

RateCheck(j) ==
  /\ handler[j].at = "spawned"
  /\ IF RateLimited THEN Ends(j) ELSE Goes(j, "queued")
  /\ UNCHANGED <<storeVars, grantVars, buttons, taps, recov, sweep>>

(* A slot read off the jobs table: another open job counts as in diagnosis. *)
BeginDiagnosis_ByState(j) ==
  /\ handler[j].at = "queued"
  /\ \A k \in Job \ {j} : jobs[k].state # "open"
  /\ Goes(j, "diagnosing")
  /\ UNCHANGED <<storeVars, grantVars, buttons, taps, recov, sweep>>

(* DIAGNOSIS_SLOT: one Claude session at a time *)
BeginDiagnosis(j) ==
  /\ handler[j].at = "queued"
  /\ \A k \in Job : handler[k].at # "diagnosing"
  /\ Goes(j, "diagnosing")
  /\ UNCHANGED <<storeVars, grantVars, buttons, taps, recov, sweep>>

(* A failed diagnosis (d["ok"] false) ends like one without a proposal. *)
EndDiagnosis(j) ==
  /\ handler[j].at = "diagnosing"
  /\ \E raw \in RawProposal :
       handler' = [handler EXCEPT ![j] =
         [at |-> "diagnosed", verb |-> Accepted(jobs[j].problem, raw)]]
  /\ UNCHANGED <<storeVars, grantVars, buttons, taps, recov, sweep>>

Consider(j) ==
  /\ handler[j].at = "diagnosed"
  /\ \/ /\ jobs[j].state # "open" \/ handler[j].verb = NoVerb
        /\ Ends(j)
     \/ /\ jobs[j].state = "open" /\ handler[j].verb # NoVerb
        /\ Goes(j, IF CheckAuto(<<HostOf(j), handler[j].verb>>) THEN "granted" ELSE "asking")
  /\ UNCHANGED <<storeVars, grantVars, buttons, taps, recov, sweep>>

(* A grant that lost the race with a recovery falls through to propose(). *)
ApproveByGrant(j) ==
  /\ handler[j].at = "granted"
  /\ \/ AutoApprove(j, handler[j].verb) /\ Goes(j, "counting")
     \/ jobs[j].state # "open" /\ UNCHANGED storeVars /\ Goes(j, "asking")
  /\ UNCHANGED <<grantVars, buttons, taps, recov, sweep>>

(* A handler that counts the run after it happened. *)
CountAutoRun_Later(j) ==
  /\ handler[j].at = "counting"
  /\ Goes(j, "autoStarting")
  /\ UNCHANGED <<storeVars, grantVars, buttons, taps, recov, sweep>>

CountAutoRun(j) ==
  /\ handler[j].at = "counting"
  /\ StartAutoRun(j, <<HostOf(j), handler[j].verb>>)
  /\ Goes(j, "autoStarting")
  /\ UNCHANGED <<storeVars, buttons, taps, recov, sweep>>

(* propose(), then the push whose delivery nothing confirms. *)
AskPhone(j) ==
  /\ handler[j].at = "asking"
  /\ \/ /\ Propose(j, handler[j].verb)
        /\ buttons' \in {buttons, buttons \union {j}}
     \/ jobs[j].state # "open" /\ UNCHANGED <<storeVars, buttons>>
  /\ Ends(j)
  /\ UNCHANGED <<grantVars, taps, recov, sweep>>

(* run_execution, for both kinds of approval *)

StartRun(j) ==
  /\ handler[j].at \in {"starting", "autoStarting"}
  /\ \/ /\ StartExecution(j)
        /\ Goes(j, IF handler[j].at = "starting" THEN "running" ELSE "autoRunning")
     \/ /\ jobs[j].state # "approved"
        /\ UNCHANGED storeVars
        /\ IF handler[j].at = "starting" THEN Ends(j) ELSE Goes(j, "autoBad")
  /\ UNCHANGED <<grantVars, buttons, taps, recov, sweep>>

(* A caller that closes a job whatever happened to it before. *)
CloseUnlessClosed_Force(j, reason) ==
  /\ jobs' = [jobs EXCEPT ![j] = Ended(@, reason)]
  /\ UNCHANGED <<now, authority, runs>>

(* A caller's close(), which does nothing to a job somebody closed before. *)
CloseUnlessClosed(j, reason) ==
  \/ Close(j, reason)
  \/ jobs[j].state = "closed" /\ UNCHANGED storeVars

(* An executor that reports success only: a failed run stays 'executing'. *)
FinishRun_OnlySuccess(j, ok) ==
  /\ handler[j].at \in {"running", "autoRunning"}
  /\ IF ok THEN CloseUnlessClosed(j, "done") ELSE UNCHANGED storeVars
  /\ IF handler[j].at = "autoRunning"
       THEN Goes(j, IF ok THEN "autoOk" ELSE "autoBad")
       ELSE IF ok THEN Goes(j, "recording") ELSE Ends(j)
  /\ UNCHANGED <<grantVars, buttons, taps, recov, sweep>>

(* An approval remembered without asking whether the run verified. *)
FinishRun_RecordAny(j, ok) ==
  /\ handler[j].at \in {"running", "autoRunning"}
  /\ CloseUnlessClosed(j, IF ok THEN "done" ELSE "failed")
  /\ IF handler[j].at = "autoRunning"
       THEN Goes(j, IF ok THEN "autoOk" ELSE "autoBad")
       ELSE Goes(j, "recording")
  /\ UNCHANGED <<grantVars, buttons, taps, recov, sweep>>

(* executor.execute() answered: the verb ran and verified (ok), or not. *)
FinishRun(j, ok) ==
  /\ handler[j].at \in {"running", "autoRunning"}
  /\ CloseUnlessClosed(j, IF ok THEN "done" ELSE "failed")
  /\ IF handler[j].at = "autoRunning"
       THEN Goes(j, IF ok THEN "autoOk" ELSE "autoBad")
       ELSE IF ok THEN Goes(j, "recording") ELSE Ends(j)
  /\ UNCHANGED <<grantVars, buttons, taps, recov, sweep>>

SettleAutoRun(j) ==
  /\ handler[j].at \in {"autoOk", "autoBad"}
  /\ \E delivered \in BOOLEAN :
       FinishAutoRun(<<HostOf(j), handler[j].verb>>, handler[j].at = "autoOk", delivered)
  /\ Ends(j)
  /\ UNCHANGED <<storeVars, buttons, taps, recov, sweep>>

(* handle_approved, after a run that verified: grants.record() *)

ApprovedTuple(j) == <<HostOf(j), jobs[j].verb>>

RecordApproval(j) ==
  /\ handler[j].at = "recording"
  /\ \/ IsProtected(HostOf(j)) /\ Ends(j) /\ UNCHANGED grantVars
     \/ Remember(j, ApprovedTuple(j)) /\ Ends(j)
     \/ /\ ~IsProtected(HostOf(j))
        /\ grants[ApprovedTuple(j)].status = "none"
        /\ Goes(j, "inserting")
        /\ UNCHANGED grantVars
  /\ UNCHANGED <<storeVars, buttons, taps, recov, sweep>>

(* The loser of two first approvals gets an IntegrityError and reports nothing. *)
InsertApproval(j) ==
  /\ handler[j].at = "inserting"
  /\ \/ InsertGrant(j, ApprovedTuple(j))
     \/ grants[ApprovedTuple(j)].status # "none" /\ UNCHANGED grantVars
  /\ Ends(j)
  /\ UNCHANGED <<storeVars, buttons, taps, recov, sweep>>

------------------------------------------------------------------------------
(* POST /approve and /deny: claim() reads the row, then writes it.  A tap  *)
(* on a job that is no longer pending changes nothing ("already handled"). *)

TapRead(t, j, decision) ==
  /\ taps[t] = NoTap
  /\ j \in buttons
  /\ jobs[j].state = "pending"
  /\ taps' = [taps EXCEPT ![t] =
       [at |-> IF Due(jobs[j], now) THEN "late" ELSE "writing",
        job |-> j, decision |-> decision]]
  /\ UNCHANGED <<storeVars, grantVars, handler, buttons, recov, sweep>>

(* The time claim() compares is the one its SELECT was checked with, so    *)
(* only the state can have changed since.                                  *)
TapDecide(t) ==
  LET j == taps[t].job
      decision == taps[t].decision
  IN /\ taps[t].at = "writing"
     /\ \/ /\ \E at \in 0..now : Claim(j, decision, at)
           /\ IF decision = "approved"
                THEN /\ Goes(j, "starting")
                     /\ taps' = [taps EXCEPT ![t] = NoTap]
                ELSE /\ taps' = [taps EXCEPT ![t].at = "denying"]
                     /\ UNCHANGED handler
        \/ /\ jobs[j].state # "pending"
           /\ taps' = [taps EXCEPT ![t] = NoTap]
           /\ UNCHANGED <<storeVars, handler>>
     /\ UNCHANGED <<grantVars, buttons, recov, sweep>>

(* A tap past the deadline marks the job and answers "already handled". *)
TapLate(t) ==
  /\ taps[t].at = "late"
  /\ \/ Expire(taps[t].job)
     \/ jobs[taps[t].job].state # "pending" /\ UNCHANGED storeVars
  /\ taps' = [taps EXCEPT ![t] = NoTap]
  /\ UNCHANGED <<grantVars, handler, buttons, recov, sweep>>

TapDenied(t) ==
  /\ taps[t].at = "denying"
  /\ CloseUnlessClosed(taps[t].job, "denied")
  /\ taps' = [taps EXCEPT ![t] = NoTap]
  /\ UNCHANGED <<grantVars, handler, buttons, recov, sweep>>

RevokeTap(g) ==
  /\ Revoke(g)
  /\ UNCHANGED <<storeVars, threadVars>>

(* POST /alert with a RECOVERY: recover() selects, then closes one by one. *)

RecoverSelect(p) ==
  /\ recov[p] = {}
  /\ recov' = [recov EXCEPT ![p] =
       {j \in Job : jobs[j].problem = p /\ jobs[j].state \notin {"closed", "executing"}}]
  /\ UNCHANGED <<storeVars, grantVars, handler, buttons, taps, sweep>>

RecoverClose(p, j) ==
  /\ j \in recov[p]
  /\ CloseUnlessClosed(j, "recovered")
  /\ recov' = [recov EXCEPT ![p] = @ \ {j}]
  /\ UNCHANGED <<grantVars, handler, buttons, taps, sweep>>

(* sweeper: expire_due() marks every due job, then each is closed *)

(* A sweeper that follows up only the proposals whose push went through. *)
SweepSelect_Delivered ==
  /\ sweep = NoSweep
  /\ sweep' = [sweep EXCEPT !.due = {j \in buttons : Due(jobs[j], now)}]
  /\ UNCHANGED <<storeVars, grantVars, handler, buttons, taps, recov>>

SweepSelect ==
  /\ sweep = NoSweep
  /\ sweep' = [sweep EXCEPT !.due = {j \in Job : Due(jobs[j], now)}]
  /\ UNCHANGED <<storeVars, grantVars, handler, buttons, taps, recov>>

SweepMark(j) ==
  /\ j \in sweep.due
  /\ \/ /\ Expire(j)
        /\ sweep' = [due |-> sweep.due \ {j}, marked |-> sweep.marked \union {j}]
     \/ /\ jobs[j].state # "pending"
        /\ UNCHANGED storeVars
        /\ sweep' = [sweep EXCEPT !.due = @ \ {j}]
  /\ UNCHANGED <<grantVars, handler, buttons, taps, recov>>

SweepClose(j) ==
  /\ sweep.due = {}
  /\ j \in sweep.marked
  /\ CloseUnlessClosed(j, "expired")
  /\ sweep' = [sweep EXCEPT !.marked = @ \ {j}]
  /\ UNCHANGED <<grantVars, handler, buttons, taps, recov>>

------------------------------------------------------------------------------
(* What can go wrong, and the passing of time *)

(* A statement that raises (a locked database, a reply http.client cannot  *)
(* parse): the thread logs it and is gone, its rows stay as they are.      *)
ThreadDies ==
  /\ faults < MaxFaults
  /\ faults' = faults + 1
  /\ \/ \E j \in Job : /\ handler[j] # NoThread /\ Ends(j)
                       /\ UNCHANGED <<taps, recov, sweep>>
     \/ \E t \in Tap : /\ taps[t] # NoTap /\ taps' = [taps EXCEPT ![t] = NoTap]
                       /\ UNCHANGED <<handler, recov, sweep>>
     \/ \E p \in Problem : /\ recov[p] # {} /\ recov' = [recov EXCEPT ![p] = {}]
                           /\ UNCHANGED <<handler, taps, sweep>>
     \/ sweep # NoSweep /\ sweep' = NoSweep /\ UNCHANGED <<handler, taps, recov>>
  /\ UNCHANGED <<storeVars, grantVars, buttons, up, crashes>>

(* The nightly power-off, a service stop or a power cut: threads are lost, *)
(* committed rows and the buttons on the phone are not.                    *)
Crash ==
  /\ up
  /\ crashes < MaxCrashes
  /\ crashes' = crashes + 1
  /\ up' = FALSE
  /\ handler' = [j \in Job |-> NoThread]
  /\ taps' = [t \in Tap |-> NoTap]
  /\ recov' = [p \in Problem |-> {}]
  /\ sweep' = NoSweep
  /\ UNCHANGED <<storeVars, grantVars, buttons, faults>>

(* A main() that starts serving without store.interrupted(). *)
Restart_Bare ==
  /\ ~up
  /\ up' = TRUE
  /\ UNCHANGED <<storeVars, grantVars, threadVars, crashes, faults>>

(* main(): interrupted jobs are closed before the first request is served. *)
Restart ==
  /\ ~up
  /\ CloseInterrupted
  /\ up' = TRUE
  /\ UNCHANGED <<grantVars, threadVars, crashes, faults>>

TimePasses == Tick /\ UNCHANGED <<grantVars, threadVars, lifeVars>>

------------------------------------------------------------------------------
(* The specification *)

NewJobStep(j) ==
  RateCheck(j) \/ BeginDiagnosis(j) \/ EndDiagnosis(j) \/ Consider(j)
    \/ ApproveByGrant(j) \/ CountAutoRun(j) \/ AskPhone(j) \/ SettleAutoRun(j)

RunStep(j) == StartRun(j) \/ \E ok \in BOOLEAN : FinishRun(j, ok)

ApprovedStep(j) == RecordApproval(j) \/ InsertApproval(j)

HandlerStep(j) == NewJobStep(j) \/ RunStep(j) \/ ApprovedStep(j)

TapStep(t) == TapDecide(t) \/ TapLate(t) \/ TapDenied(t)

SweeperStep == SweepSelect \/ \E j \in Job : SweepMark(j) \/ SweepClose(j)

Serving ==
  \/ \E p \in Problem : RecoverSelect(p) \/ \E j \in Job : Alert(p, j) \/ RecoverClose(p, j)
  \/ \E j \in Job : HandlerStep(j)
  \/ \E t \in Tap : TapStep(t) \/ \E j \in Job, d \in Decision : TapRead(t, j, d)
  \/ \E g \in Tuple : RevokeTap(g)
  \/ SweeperStep

Next ==
  \/ up /\ Serving /\ UNCHANGED lifeVars
  \/ up /\ ThreadDies
  \/ Crash
  \/ Restart
  \/ TimePasses

Spec == Init /\ [][Next]_vars

(* Every call a thread makes returns (subprocess, ssh, HTTP and SQLite      *)
(* calls all carry a timeout), the sweeper loops for ever, and the service *)
(* is started again after it went down.  Nobody need ever tap or revoke.   *)
Runs(A) == up /\ A /\ UNCHANGED lifeVars

Fairness ==
  /\ WF_vars(Restart)
  /\ WF_vars(TimePasses)
  /\ WF_vars(Runs(SweeperStep))
  /\ \A j \in Job : WF_vars(Runs(HandlerStep(j)))
  /\ \A t \in Tap : WF_vars(Runs(TapStep(t)))
  /\ \A p \in Problem : WF_vars(Runs(\E j \in Job : RecoverClose(p, j)))

FairSpec == Spec /\ Fairness

------------------------------------------------------------------------------
(* Safety *)

(* Tables and threads have the shape the code gives them.                  *)
TypeOK ==
  /\ StoreTypeOK
  /\ grants \in [Tuple -> Grant]
  /\ autoRuns \subseteq AutoRun
  /\ links \subseteq Tuple
  /\ handler \in [Job -> Thread]
  /\ buttons \subseteq Job
  /\ taps \in [Tap -> TapThread]
  /\ recov \in [Problem -> SUBSET Job]
  /\ sweep \in [due : SUBSET Job, marked : SUBSET Job]
  /\ up \in BOOLEAN /\ crashes \in 0..MaxCrashes /\ faults \in 0..MaxFaults

Executing == {j \in Job : handler[j].at \in {"running", "autoRunning"}}

(* Two actions never run against one problem at once (store.py: one        *)
(* problem, one session), except after a recovery was reported while the   *)
(* first of them was already running.                                      *)
OneRunPerProblem ==
  \A j, k \in Executing :
    j # k /\ jobs[j].problem = jobs[k].problem
      => "recovered" \in {jobs[j].reason, jobs[k].reason}

(* While no thread has died, a row that waits for a thread has one: an     *)
(* executing job has its executor even across restarts (interrupted()),    *)
(* and until the first restart a job that was approved or denied has the   *)
(* thread that will start or close it.                                     *)
EveryRowHasItsThread ==
  faults = 0 /\ up =>
    \A j \in Job :
      /\ jobs[j].state = "executing" => j \in Executing
      /\ jobs[j].state = "approved" /\ crashes = 0
           => handler[j].at \in {"starting", "counting", "autoStarting"}
      /\ jobs[j].state = "denied" /\ crashes = 0
           => \E t \in Tap : taps[t].at = "denying" /\ taps[t].job = j

(* A grant auto-runs only what a person approved and the executor saw      *)
(* succeed, on the host that person approved it for, and never a protected *)
(* target (grants.record: "manually approved, successfully verified").     *)
GrantsAreEarned ==
  \A g \in Tuple : grants[g].status = "active" =>
    LET j == grants[g].job
    IN /\ authority[j] = "phone" /\ runs[j] = 1
       /\ jobs[j].state = "closed" /\ jobs[j].reason \in {"done", "recovered"}
       /\ g = ApprovedTuple(j)
       /\ ~IsProtected(HostOf(j))

(* A run without a tap used up budget before it started                    *)
(* (start_auto_run: "so a crash mid-run still uses up the budget") and was *)
(* of a target that is not protected.                                      *)
AutoRunsAreCounted ==
  \A j \in Job : authority[j] = "grant" /\ runs[j] = 1 =>
    /\ \E r \in autoRuns : r.job = j /\ r.tuple = ApprovedTuple(j)
    /\ ~IsProtected(HostOf(j))

(* Whatever the model proposed, the action a job can be approved for is a  *)
(* registered write verb of the very host that raised the alert            *)
(* (diagnose.run drops out-of-registry and cross-host proposals).          *)
ActionsStayOnTheirHost ==
  \A j \in Job : jobs[j].verb # NoVerb =>
    \E h \in Host : NameOf[h] = AlertingName[jobs[j].problem] /\ IsWrite(h, jobs[j].verb)

(* The service writes the jobs table only through the statements of        *)
(* JobStore, so what is proved of them holds of the service.               *)
ImplementsStore == StoreSpec

(* Liveness *)

(* An unanswered proposal does not stay open: the sweeper expires it even  *)
(* after crashes and threads that died.                                    *)
ProposalsResolve ==
  \A j \in Job : (jobs[j].state = "pending") ~> (jobs[j].state # "pending")

(* Without a crash or a dead thread, a decision is carried through: a job  *)
(* that was approved, denied or started is eventually closed.              *)
DecisionsClose ==
  \A j \in Job :
    (jobs[j].state \in {"approved", "denied", "executing"}) ~>
      (jobs[j].state = "closed" \/ crashes > 0 \/ faults > 0)

(* The one diagnosis slot is passed on, also by a handler that died in it: *)
(* nobody waits for it for ever.                                           *)
SlotIsPassedOn ==
  \A j \in Job : (handler[j].at = "queued") ~> (handler[j].at # "queued")

------------------------------------------------------------------------------
(* What the comments of the code say and its interleavings do not keep *)

(* A denied or expired problem stays silent for a window and may then      *)
(* start a fresh session (store.py:105-107, test_store.py:65-66), so an    *)
(* expired job is closed.                                                  *)
ExpiredIsClosed ==
  \A j \in Job : (jobs[j].state = "expired") ~> (jobs[j].state = "closed")
==============================================================================
