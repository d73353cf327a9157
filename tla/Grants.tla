-------------------------------- MODULE Grants --------------------------------
(***************************************************************************)
(* Remembered approvals (grants.py): the grants, auto_runs and             *)
(* revoke_links tables and the statements over them.  The unit of a host   *)
(* is fixed by the registry, so the key (host, verb, unit) of a grant is   *)
(* <<host, verb>>.  The ok column of auto_runs is written but never read   *)
(* by the program, and is left out; so are tokens and hashes: links holds  *)
(* the grants whose Revoke button reached the phone.                       *)
(***************************************************************************)
EXTENDS Registry

CONSTANTS
  NoJob,
  PerTuple,       \* PER_TUPLE_24H
  GlobalPerHour,  \* GLOBAL_PER_HOUR
  Day, Hour       \* 86400 and 3600 seconds, in model time units

ASSUME GrantsAssumption ==
  /\ NoJob \notin Job
  /\ PerTuple \in Nat /\ GlobalPerHour \in Nat
  /\ Day \in Nat \ {0} /\ Hour \in Nat \ {0}

VARIABLES
  grants,    \* grants[t]: the row of tuple t
  autoRuns,  \* rows of auto_runs
  links      \* tuples with a Revoke button on the phone

grantVars == <<grants, autoRuns, links>>

Tuple == Host \X Verb
AutoRun == [job : Job, tuple : Tuple, at : Nat]
Grant == [status : {"none", "active", "ended"},
          reason : {"none", "revoked", "verify-failed"},
          endedAt : Nat,
          job : Job \union {NoJob}]

NoGrant == [status |-> "none", reason |-> "none",
            endedAt |-> 0, job |-> NoJob]

GrantsInit ==
  /\ grants = [t \in Tuple |-> NoGrant]
  /\ autoRuns = {}
  /\ links = {}

RunsWithin(runsOf, span, at) == {r \in runsOf : r.at <= at /\ r.at + span > at}
RunsOf(t) == {r \in autoRuns : r.tuple = t}

(* Off by one: the limit itself still passes. *)
CheckAuto_OneMore(t) ==
  /\ ~IsProtected(t[1])
  /\ grants[t].status = "active"
  /\ Cardinality(RunsWithin(RunsOf(t), Day, now)) <= PerTuple
  /\ Cardinality(RunsWithin(autoRuns, Hour, now)) < GlobalPerHour

(* The limits per action only: nothing bounds the hour over all of them. *)
CheckAuto_NoHour(t) ==
  /\ ~IsProtected(t[1])
  /\ grants[t].status = "active"
  /\ Cardinality(RunsWithin(RunsOf(t), Day, now)) < PerTuple

(* A check that does not ask whether the grant was ended. *)
CheckAuto_AnyGrant(t) ==
  /\ ~IsProtected(t[1])
  /\ Cardinality(RunsWithin(RunsOf(t), Day, now)) < PerTuple
  /\ Cardinality(RunsWithin(autoRuns, Hour, now)) < GlobalPerHour

CheckAuto(t) ==
  /\ ~IsProtected(t[1])
  /\ grants[t].status = "active"
  /\ Cardinality(RunsWithin(RunsOf(t), Day, now)) < PerTuple
  /\ Cardinality(RunsWithin(autoRuns, Hour, now)) < GlobalPerHour

(* record(), up to and including the UPDATE of an existing row. *)
Remember(j, t) ==
  /\ ~IsProtected(t[1])
  /\ grants[t].status # "none"
  /\ grants' = [grants EXCEPT ![t] = [NoGrant EXCEPT !.status = "active", !.job = j]]
  /\ UNCHANGED <<autoRuns, links>>

(* record(), the INSERT after a SELECT that found no row: UNIQUE refuses a second one. *)
InsertGrant(j, t) ==
  /\ grants[t].status = "none"
  /\ grants' = [grants EXCEPT ![t] = [NoGrant EXCEPT !.status = "active", !.job = j]]
  /\ UNCHANGED <<autoRuns, links>>

(* A count kept per verb instead of per (host, verb, unit). *)
StartAutoRun_ByVerb(j, t) ==
  /\ autoRuns' = autoRuns \union {[job |-> j, tuple |-> t[2], at |-> now]}
  /\ UNCHANGED <<grants, links>>

StartAutoRun(j, t) ==
  /\ autoRuns' = autoRuns \union {[job |-> j, tuple |-> t, at |-> now]}
  /\ UNCHANGED <<grants, links>>

(* end() *)
EndGrant(row, reason) ==
  IF row.status = "active"
    THEN [row EXCEPT !.status = "ended", !.reason = reason, !.endedAt = now]
    ELSE row

(* finish_auto_run(), then revoke_link() and the push that carries its button. *)
FinishAutoRun(t, ok, delivered) ==
  /\ grants' = IF ok THEN grants
                     ELSE [grants EXCEPT ![t] = EndGrant(@, "verify-failed")]
  /\ links' = IF ok /\ delivered THEN links \union {t} ELSE links
  /\ UNCHANGED autoRuns

Revoke(t) ==
  /\ t \in links
  /\ grants' = [grants EXCEPT ![t] = EndGrant(@, "revoked")]
  /\ UNCHANGED <<autoRuns, links>>
==============================================================================
