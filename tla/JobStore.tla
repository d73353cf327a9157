------------------------------- MODULE JobStore -------------------------------
(***************************************************************************)
(* The jobs table of the responder (store.py): one action per committed    *)
(* SQL statement that writes it, in any order and from any caller.  What   *)
(* holds here holds whatever the HTTP threads, the sweeper and a crash do, *)
(* because every one of them reaches the table through these statements.  *)
(*                                                                         *)
(* A statement that a caller prepared with an earlier SELECT or clock      *)
(* reading takes what it read as a parameter (at); the reading itself      *)
(* belongs to the threads of module Responder.  The alerts table, tokens   *)
(* and their hashes are left out: a pending row is one whose token exists, *)
(* and who holds it is the buttons variable of module Responder.           *)
(***************************************************************************)
EXTENDS ResponderBase

CONSTANTS
  Ttl,     \* APPROVAL_TTL: how long a proposal may be answered
  Window   \* DEDUPE_WINDOW: how long a closed problem keeps its session

ASSUME StoreAssumption == Ttl \in Nat \ {0} /\ Window \in Nat

VARIABLES
  jobs,      \* jobs[j]: the row of id j; state "absent" when there is none
  authority, \* authority[j]: who moved the row to 'approved' (the log line of the tap or grant)
  runs       \* runs[j]: how often start_execution() let the action of j run

storeVars == <<now, jobs, authority, runs>>

(* Rows *)

State == {"absent", "open", "pending", "approved", "denied", "expired",
          "executing", "closed"}
Decision == {"approved", "denied"}
Reason == {"none", "done", "failed", "denied", "expired", "recovered", "interrupted"}

Row == [state : State, problem : Problem \union {NoProblem}, created : Nat,
        closedAt : Nat, reason : Reason, verb : VerbOrNone, expires : Nat]

NoRow == [state |-> "absent", problem |-> NoProblem, created |-> 0,
          closedAt |-> 0, reason |-> "none", verb |-> NoVerb, expires |-> 0]

Ended(row, reason) ==
  [row EXCEPT !.state = "closed", !.reason = reason, !.closedAt = now]

(* Past its approval window, as claim() and expire_due() both test it. *)
Due(row, at) == row.state = "pending" /\ row.expires <= at

(* A lookup that looks at open sessions only and forgets the window. *)
Live_NoWindow(row, p) ==
  /\ row.problem = p
  /\ row.state \notin {"absent", "closed"}

(* A lookup that takes a running action for a finished problem. *)
Live_NotExecuting(row, p) ==
  /\ row.problem = p
  /\ \/ row.state \notin {"absent", "closed", "executing"}
     \/ row.state = "closed" /\ row.reason # "recovered" /\ row.closedAt + Window > now

(* The row an alert for problem p attaches to instead of opening a session. *)
Live(row, p) ==
  /\ row.problem = p
  /\ \/ row.state \notin {"absent", "closed"}
     \/ /\ row.state = "closed"
        /\ row.reason # "recovered"
        /\ row.closedAt + Window > now

(* Statements *)

OpenJob(p, j) ==
  /\ jobs[j].state = "absent"
  /\ \A k \in Job : ~Live(jobs[k], p)
  /\ jobs' = [jobs EXCEPT ![j] = [NoRow EXCEPT !.state = "open",
                                               !.problem = p,
                                               !.created = now]]
  /\ UNCHANGED <<now, authority, runs>>

Propose(j, v) ==
  /\ jobs[j].state = "open"
  /\ jobs' = [jobs EXCEPT ![j] = [@ EXCEPT !.state = "pending",
                                           !.verb = v,
                                           !.expires = now + Ttl]]
  /\ UNCHANGED <<now, authority, runs>>

(* A tap that trusts the state its own SELECT saw. *)
Claim_Unguarded(j, decision, at) ==
  /\ jobs[j].state # "absent"
  /\ at < jobs[j].expires
  /\ jobs' = [jobs EXCEPT ![j].state = decision]
  /\ authority' = [authority EXCEPT ![j] = IF decision = "approved" THEN "phone" ELSE @]
  /\ UNCHANGED <<now, runs>>

(* A tap that writes the word of its URL instead of the decision. *)
Claim_RawAction(j, decision, at) ==
  /\ jobs[j].state = "pending"
  /\ at < jobs[j].expires
  /\ jobs' = [jobs EXCEPT ![j].state = IF decision = "approved" THEN "approve" ELSE "deny"]
  /\ UNCHANGED <<now, authority, runs>>

Claim(j, decision, at) ==
  /\ jobs[j].state = "pending"
  /\ at < jobs[j].expires
  /\ jobs' = [jobs EXCEPT ![j].state = decision]
  /\ authority' = [authority EXCEPT ![j] = IF decision = "approved" THEN "phone" ELSE @]
  /\ UNCHANGED <<now, runs>>

(* The write of the late tap and of the sweeper, which found j due at time at. *)
Expire(j) ==
  /\ jobs[j].state = "pending"
  /\ jobs' = [jobs EXCEPT ![j].state = "expired"]
  /\ UNCHANGED <<now, authority, runs>>

AutoApprove(j, v) ==
  /\ jobs[j].state = "open"
  /\ jobs' = [jobs EXCEPT ![j] = [@ EXCEPT !.state = "approved", !.verb = v]]
  /\ authority' = [authority EXCEPT ![j] = "grant"]
  /\ UNCHANGED <<now, runs>>

(* A worker that starts whatever it was handed: no second guard. *)
StartExecution_Unguarded(j) ==
  /\ jobs[j].state \in {"approved", "executing"}
  /\ jobs' = [jobs EXCEPT ![j].state = "executing"]
  /\ runs' = [runs EXCEPT ![j] = @ + 1]
  /\ UNCHANGED <<now, authority>>

StartExecution(j) ==
  /\ jobs[j].state = "approved"
  /\ jobs' = [jobs EXCEPT ![j].state = "executing"]
  /\ runs' = [runs EXCEPT ![j] = @ + 1]
  /\ UNCHANGED <<now, authority>>

(* A close() without AND state != 'closed': the last caller's reason wins. *)
Close_Again(j, reason) ==
  /\ jobs[j].state # "absent"
  /\ jobs' = [jobs EXCEPT ![j] = Ended(@, reason)]
  /\ UNCHANGED <<now, authority, runs>>

Close(j, reason) ==
  /\ jobs[j].state \notin {"absent", "closed"}
  /\ jobs' = [jobs EXCEPT ![j] = Ended(@, reason)]
  /\ UNCHANGED <<now, authority, runs>>

(* interrupted(): main() runs it before any thread exists, so it is one step. *)
CloseInterrupted ==
  /\ jobs' = [j \in Job |-> IF jobs[j].state = "executing"
                            THEN Ended(jobs[j], "interrupted")
                            ELSE jobs[j]]
  /\ UNCHANGED <<now, authority, runs>>

(* Time passes up to the bound, and past it while a proposal can still be answered. *)
Tick ==
  /\ \/ now < MaxTime
     \/ \E j \in Job : jobs[j].state = "pending" /\ now < jobs[j].expires
  /\ now' = now + 1
  /\ UNCHANGED <<jobs, authority, runs>>

StoreInit ==
  /\ now = 0
  /\ jobs = [j \in Job |-> NoRow]
  /\ authority = [j \in Job |-> "nobody"]
  /\ runs = [j \in Job |-> 0]

StoreNext ==
  \/ \E p \in Problem, j \in Job : OpenJob(p, j)
  \/ \E j \in Job, v \in Verb : Propose(j, v) \/ AutoApprove(j, v)
  \/ \E j \in Job, d \in Decision : \E at \in 0..now : Claim(j, d, at)
  \/ \E j \in Job : Expire(j) \/ StartExecution(j)
  \/ \E j \in Job, reason \in Reason \ {"none"} : Close(j, reason)
  \/ CloseInterrupted
  \/ Tick

StoreSpec == StoreInit /\ [][StoreNext]_storeVars

------------------------------------------------------------------------------
(* Properties *)

(* Every row has one of the states and reasons of the schema of store.py,  *)
(* every time stamp is one the clock has shown, and counters are counters. *)
StoreTypeOK ==
  /\ now \in Nat
  /\ jobs \in [Job -> Row]
  /\ authority \in [Job -> {"nobody", "phone", "grant"}]
  /\ runs \in [Job -> Nat]

(* start_execution() is the second guard against double execution: however *)
(* taps, grants, recoveries and restarts interleave, the action of a job   *)
(* is started at most once, and only if a tap or a grant approved it.      *)
RunsAuthorised ==
  \A j \in Job : runs[j] = 0 \/ (runs[j] = 1 /\ authority[j] # "nobody")

(* The inductive form of RunsAuthorised: the state column alone tells      *)
(* whether the action was started, except in a closed row.                 *)
RunsFollowState ==
  \A j \in Job :
    /\ runs[j] \in {0, 1}
    /\ jobs[j].state \in State \ {"executing", "closed"} => runs[j] = 0
    /\ jobs[j].state = "executing" => runs[j] = 1
    /\ jobs[j].state = "approved" \/ runs[j] = 1 => authority[j] # "nobody"

(* Two sessions of one problem never overlap: the earlier one was closed,  *)
(* and closed by a recovery or a whole DEDUPE_WINDOW before the later one  *)
(* was opened (intake_alert: only a new session may start a diagnosis).    *)
Precedes(a, b) ==
  /\ a.state = "closed"
  /\ a.created <= b.created
  /\ a.reason = "recovered" \/ a.closedAt + Window <= b.created

SessionsSpaced ==
  \A j, k \in Job :
    j # k /\ jobs[j].state # "absent" /\ jobs[k].problem = jobs[j].problem
      => Precedes(jobs[j], jobs[k]) \/ Precedes(jobs[k], jobs[j])

(* The inductive form of SessionsSpaced: a row belongs to a problem from   *)
(* its INSERT on, and was stamped by a clock that never runs back.         *)
SessionsStamped ==
  /\ SessionsSpaced
  /\ \A j \in Job :
       /\ jobs[j].created <= now
       /\ jobs[j].problem = NoProblem <=> jobs[j].state = "absent"

(* The outcome a job was closed with is final: no later tap, sweep,        *)
(* recovery, executor result or restart reopens it or rewrites its reason, *)
(* although each of them writes the row without having read it last.       *)
ClosedIsFinal ==
  [][\A j \in Job : jobs[j].state = "closed" => jobs'[j] = jobs[j]]_storeVars

(* The contract this table implements. *)
VerdictOf(j) ==
  CASE jobs[j].state \in {"absent", "open", "pending"} -> "none"
    [] jobs[j].state \in {"approved", "executing"} -> "yes"
    [] jobs[j].state \in {"denied", "expired"} -> "no"
    [] jobs[j].state = "closed" -> IF runs[j] = 0 THEN "no" ELSE "yes"

Contract == INSTANCE ApprovalContract WITH
  verdict <- [j \in Job |-> VerdictOf(j)],
  runs <- runs

(* Every history of the table is one of ApprovalContract: nothing runs     *)
(* after a denial, an expiry or a recovery that came before the start.     *)
ImplementsContract == Contract!Spec
==============================================================================
