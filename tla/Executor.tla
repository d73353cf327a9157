------------------------------- MODULE Executor -------------------------------
(***************************************************************************)
(* One approved restart on its target (executor.py): the ssh call to rgate,*)
(* then the polls that verify it.  The unit goes its own way meanwhile, and*)
(* a call that is given up on leaves its restart running on the target.    *)
(*                                                                         *)
(* Time is only what verify() asks of it: whether the deadline has passed  *)
(* (late) at the top of its loop.  Every call has a timeout of its own, so *)
(* the deadline may pass in any place of the loop.                         *)
(***************************************************************************)
EXTENDS Naturals

VARIABLES
  hasUrl,   \* whether the registry gives the host a verify_url
  unit,     \* "active": says systemd; "answering": the URL does, as expected; "serving":
            \* both; "down": neither
  restart,  \* this execution's restart on the target: "none", "running", "ok" or "failed"
  stray,    \* whether a restart still runs there whose call is over
  exec,     \* where execute() is, whether it is late, and what it returned
  seen,     \* history, after this restart ended well and since the last poll began: "nothing",
            \* the unit was "active" at some moment, or "verified": it answered then or later
  steady    \* history: it is healthy since the last poll began, and no call of it failed

hostVars == <<hasUrl, unit, restart, stray>>
executorVars == <<hostVars, exec, seen, steady>>

Place == {"idle", "calling", "status", "http", "pausing"}
Verdict == {"none", "ok", "refused", "overdue", "raised"}
Unit == {"down", "active", "answering", "serving"}

Active(u) == u \in {"active", "serving"}
Answers(u) == ~hasUrl \/ u \in {"answering", "serving"}
Healthy(u) == Active(u) /\ Answers(u)

(* What has been seen once the unit is u. *)
Seen(s, u) ==
  IF (Active(u) \/ s = "active") /\ Answers(u) THEN "verified"
  ELSE IF Active(u) /\ s = "nothing" THEN "active"
  ELSE s

(* The unit is u and the restart stands at r from now on. *)
Host(u, r) ==
  /\ unit' = u /\ restart' = r
  /\ seen' = IF r = "ok" THEN Seen(seen, u) ELSE seen
  /\ steady' = (steady /\ Healthy(u))
  /\ UNCHANGED hasUrl

Goes(place) == exec' = [exec EXCEPT !.at = place]
Returns(verdict) == exec' = [exec EXCEPT !.at = "idle", !.verdict = verdict]

ExecutorInit ==
  /\ hasUrl \in BOOLEAN
  /\ unit = "serving" /\ restart = "none" /\ stray = FALSE
  /\ exec = [at |-> "idle", late |-> FALSE, verdict |-> "none"]
  /\ seen = "nothing" /\ steady = FALSE

------------------------------------------------------------------------------
(* The target *)

(* rgate in full mode: sudo systemctl restart. *)
RestartBegins ==
  /\ exec.at = "calling" /\ restart = "none"
  /\ \E u \in {"down", "answering"} : Host(u, "running")
  /\ UNCHANGED <<stray, exec>>

RestartEnds ==
  /\ restart = "running"
  /\ \/ \E u \in {"active", "serving"} : Host(u, "ok")
     \/ \E u \in {"down", "answering"} : Host(u, "failed")
  /\ UNCHANGED <<stray, exec>>

StrayRestartEnds ==
  /\ stray
  /\ stray' = FALSE
  /\ \E u \in Unit : Host(u, restart)
  /\ UNCHANGED exec

(* It fails, hangs, comes up by itself, or is cut by a stray restart. *)
UnitChanges ==
  /\ restart # "running"
  /\ \E u \in Unit \ {unit} : Host(u, restart)
  /\ UNCHANGED <<stray, exec>>

------------------------------------------------------------------------------
(* execute() and verify() *)

Execute ==
  /\ exec.at = "idle"
  /\ exec' = [at |-> "calling", late |-> FALSE, verdict |-> "none"]
  /\ restart' = "none" /\ seen' = "nothing" /\ steady' = FALSE
  /\ UNCHANGED <<hasUrl, unit, stray>>

BeginPoll ==
  /\ Goes("status")
  /\ seen' = IF restart = "ok" THEN Seen("nothing", unit) ELSE "nothing"
  /\ steady' = Healthy(unit)
  /\ UNCHANGED hostVars

(* An execute() that verifies whatever rgate answered. *)
GateAnswers_AnyCode ==
  /\ exec.at = "calling"
  /\ restart \in {"ok", "failed"}
  /\ BeginPoll

(* The first test of the deadline is made as it is set: a poll follows. *)
GateAnswers ==
  /\ exec.at = "calling"
  /\ \/ restart = "ok" /\ BeginPoll
     \/ restart = "failed" /\ Returns("refused") /\ UNCHANGED <<hostVars, seen, steady>>

(* No connection, or the call took more than its minute. *)
GateLost ==
  /\ exec.at = "calling"
  /\ Returns("refused")
  /\ stray' = (stray \/ restart = "running")
  /\ restart' = IF restart = "running" THEN "none" ELSE restart
  /\ UNCHANGED <<hasUrl, unit, seen, steady>>

DeadlinePasses ==
  /\ exec.at \in {"status", "http", "pausing"} /\ ~exec.late
  /\ exec' = [exec EXCEPT !.late = TRUE]
  /\ UNCHANGED <<hostVars, seen, steady>>

(* A verify() whose answer no longer counts once the deadline has passed. *)
StatusAnswers_InTime ==
  /\ exec.at = "status"
  /\ \/ exec.late /\ Returns("overdue")
     \/ ~exec.late /\ ~Active(unit) /\ Goes("pausing")
     \/ ~exec.late /\ Active(unit) /\ IF hasUrl THEN Goes("http") ELSE Returns("ok")
  /\ UNCHANGED <<hostVars, seen, steady>>

(* _active() *)
StatusAnswers ==
  /\ exec.at = "status"
  /\ \/ ~Active(unit) /\ Goes("pausing")
     \/ Active(unit) /\ IF hasUrl THEN Goes("http") ELSE Returns("ok")
  /\ UNCHANGED <<hostVars, seen, steady>>

(* _http_ok() *)
HttpAnswers ==
  /\ exec.at = "http"
  /\ IF Answers(unit) THEN Returns("ok") ELSE Goes("pausing")
  /\ UNCHANGED <<hostVars, seen, steady>>

(* A poll's ssh or HTTP call times out or finds no connection. *)
PollLost ==
  /\ exec.at \in {"status", "http"}
  /\ Goes("pausing")
  /\ steady' = FALSE
  /\ UNCHANGED <<hostVars, seen>>

(* A reply http.client cannot parse is neither URLError nor OSError. *)
HttpRaises ==
  /\ exec.at = "http"
  /\ Returns("raised")
  /\ UNCHANGED <<hostVars, seen, steady>>

Wakes ==
  /\ exec.at = "pausing"
  /\ \/ ~exec.late /\ BeginPoll
     \/ exec.late /\ Returns("overdue") /\ UNCHANGED <<hostVars, seen, steady>>

ExecutorSteps ==
  \/ GateAnswers \/ GateLost \/ DeadlinePasses \/ StatusAnswers \/ HttpAnswers
  \/ PollLost \/ HttpRaises \/ Wakes

HostSteps == RestartBegins \/ RestartEnds \/ StrayRestartEnds \/ UnitChanges

------------------------------------------------------------------------------
(* Properties *)

(* Types of the target and of the execution. *)
ExecutorTypeOK ==
  /\ hasUrl \in BOOLEAN /\ stray \in BOOLEAN /\ steady \in BOOLEAN
  /\ unit \in Unit /\ seen \in {"nothing", "active", "verified"}
  /\ restart \in {"none", "running", "ok", "failed"}
  /\ exec \in [at : Place, late : BOOLEAN, verdict : Verdict]

(* "ok means the verb ran AND verification passed" (execute): the restart  *)
(* of this very execution ended well on the target; after that, and within *)
(* one poll, systemd said active at some moment and the health URL         *)
(* answered then or later.  It need not have been both at one moment: they *)
(* are asked one after the other.                                          *)
VerdictIsEarned == exec.verdict = "ok" => seen = "verified"

(* "Poll until systemd is active AND the health URL answers as expected,   *)
(* or time runs out" (verify): it may give up on a unit that came up since *)
(* its last poll began, or whose polls were lost, but never on one that    *)
(* was healthy when that poll began and has stayed so.  A poll begun in    *)
(* time counts although its calls outlast the deadline.                    *)
OverdueIsUnhealthy == exec.verdict = "overdue" => ~steady
==============================================================================
