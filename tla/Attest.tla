-------------------------------- MODULE Attest --------------------------------
(***************************************************************************)
(* Tamper attestation of the DNS filter (attest.py).  A run reads the live *)
(* configuration off Sentry, compares it with a baseline taken by the      *)
(* first run, pushes the alerts that are not standing, and then marks as   *)
(* standing exactly the alerts present.  A --quiet run only compares.      *)
(*                                                                         *)
(* The value of a list field is the set of its entries, that of any other  *)
(* field a set of one.  Notes and the attest_finding log, which the        *)
(* program never reads back, are left out; notify.send, which queues what  *)
(* it cannot send, is a push that arrives.                                 *)
(***************************************************************************)
EXTENDS Naturals, FiniteSets

CONSTANTS
  Field,
  Policy,     \* Policy[f]: policy_for(f), or "none" for an ungoverned field
  Values,     \* Values[f]: what the owner may set f to
  Exempt,     \* Exempt[f]: EXEMPT_REMOVALS for the field's last name
  Initial,    \* the configuration the first run finds
  Absent,     \* the value of a field that is not in the configuration
  Mode,       \* "loud" (with notify_fn) or "quiet" runs
  MaxFaults   \* bound: how many probes fail and how many runs are killed

ASSUME AttestAssumption ==
  /\ \A f \in Field : Policy[f] \in {"must_be_one", "must_not_change",
                                     "list_removal_bad", "list_addition_bad", "none"}
  /\ \A f \in Field : Initial[f] \in Values[f] \union {Absent}
  /\ Mode \subseteq {"loud", "quiet"}
  /\ MaxFaults \in Nat

VARIABLES
  live,      \* the configuration on Sentry
  captured,  \* whether attest_baseline has rows
  baseline,  \* attest_baseline
  standing,  \* keys of attest_standing
  run,       \* the run in progress: its place, mode, what it saw and will push
  told,      \* alerts pushed since a loud run last found them cleared
  repeated,  \* alerts pushed while told
  faults

attestVars == <<live, captured, baseline, standing, run, told, repeated, faults>>

ValueOrAbsent(f) == Values[f] \union {Absent}
IsConfig(c) == DOMAIN c = Field /\ \A f \in Field : c[f] \in ValueOrAbsent(f)

NoConfig == [f \in Field |-> Absent]
NoRun == [at |-> "none", mode |-> "none", saw |-> NoConfig, fresh |-> {}]

PerEntry(f, what, entries) == {<<f, what, {e}>> : e \in entries}

(* The part of compare() that alerts: a field that appears is a note. *)
FieldAlerts(f, old, new) ==
  CASE old = Absent -> {}
    [] old # Absent /\ new = Absent -> {<<f, "disappeared", {}>>}
    [] OTHER ->
         CASE Policy[f] = "list_removal_bad" ->
                PerEntry(f, "removed", (old \ new) \ Exempt[f])
           [] Policy[f] = "list_addition_bad" -> PerEntry(f, "added", new \ old)
           [] Policy[f] = "none" -> {}
           [] OTHER -> IF old = new THEN {} ELSE {<<f, "changed", new>>}

Alerts(base, seen) == UNION {FieldAlerts(f, base[f], seen[f]) : f \in Field}

(* The keys there can be: one per entry of a list, one per finding otherwise. *)
Key == UNION {UNION {FieldAlerts(f, old, new) : old, new \in ValueOrAbsent(f)}
                : f \in Field}

AttestInit ==
  /\ live = [f \in Field |-> Initial[f]]
  /\ captured = FALSE /\ baseline = NoConfig
  /\ standing = {}
  /\ run = NoRun
  /\ told = {} /\ repeated = {}
  /\ faults = 0

Change(f, v) ==
  /\ live[f] # v
  /\ live' = [live EXCEPT ![f] = v]
  /\ UNCHANGED <<captured, baseline, standing, run, told, repeated, faults>>

(* The probe comes first: everything later speaks of what it saw. *)
Probe(mode) ==
  /\ run = NoRun
  /\ run' = [NoRun EXCEPT !.at = "probed", !.mode = mode, !.saw = live]
  /\ UNCHANGED <<live, captured, baseline, standing, told, repeated, faults>>

(* A run that cannot reach Sentry records a gap and ends. *)
Unreachable ==
  /\ run = NoRun
  /\ faults < MaxFaults
  /\ faults' = faults + 1
  /\ UNCHANGED <<live, captured, baseline, standing, run, told, repeated>>

Capture ==
  /\ run.at = "probed"
  /\ ~captured
  /\ captured' = TRUE
  /\ baseline' = run.saw
  /\ run' = NoRun
  /\ UNCHANGED <<live, standing, told, repeated, faults>>

(* A run that compares nothing away: all alerts are pushed every time. *)
Compare_AllAlerts ==
  /\ run.at = "probed"
  /\ captured
  /\ LET alerts == Alerts(baseline, run.saw) IN
       IF run.mode = "loud"
         THEN run' = [run EXCEPT !.at = "compared", !.fresh = alerts]
         ELSE run' = NoRun
  /\ UNCHANGED <<live, captured, baseline, standing, told, repeated, faults>>

(* Marked before it is pushed. *)
Compare_MarkFirst ==
  /\ run.at = "probed"
  /\ captured
  /\ LET alerts == Alerts(baseline, run.saw) IN
       IF run.mode = "loud"
         THEN /\ run' = [run EXCEPT !.at = "compared", !.fresh = alerts \ standing]
              /\ standing' = alerts
         ELSE run' = NoRun /\ UNCHANGED standing
  /\ UNCHANGED <<live, captured, baseline, told, repeated, faults>>

(* A quiet run ends here. *)
Compare ==
  /\ run.at = "probed"
  /\ captured
  /\ LET alerts == Alerts(baseline, run.saw) IN
       IF run.mode = "loud"
         THEN run' = [run EXCEPT !.at = "compared", !.fresh = alerts \ standing]
         ELSE run' = NoRun
  /\ UNCHANGED <<live, captured, baseline, standing, told, repeated, faults>>

Push ==
  /\ run.at = "compared"
  /\ told' = told \union run.fresh
  /\ repeated' = repeated \union (told \intersect run.fresh)
  /\ run' = [run EXCEPT !.at = "pushed"]
  /\ UNCHANGED <<live, captured, baseline, standing, faults>>

(* mark_standing() that only adds: cleared alerts keep their key. *)
MarkStanding_KeepCleared ==
  /\ run.at = "pushed"
  /\ LET alerts == Alerts(baseline, run.saw) IN
       /\ standing' = standing \union alerts
       /\ told' = told \intersect alerts
  /\ run' = NoRun
  /\ UNCHANGED <<live, captured, baseline, repeated, faults>>

(* A run that leaves what it pushed behind. *)
MarkStanding_KeepFresh ==
  /\ run.at = "pushed"
  /\ LET alerts == Alerts(baseline, run.saw) IN
       /\ standing' = alerts
       /\ told' = told \intersect alerts
  /\ run' = [run EXCEPT !.at = "none"]
  /\ UNCHANGED <<live, captured, baseline, repeated, faults>>

MarkStanding ==
  /\ run.at = "pushed"
  /\ LET alerts == Alerts(baseline, run.saw) IN
       /\ standing' = alerts
       /\ told' = told \intersect alerts
  /\ run' = NoRun
  /\ UNCHANGED <<live, captured, baseline, repeated, faults>>

(* The host goes down, or the run raises: what it committed stays. *)
Killed ==
  /\ run # NoRun
  /\ faults < MaxFaults
  /\ faults' = faults + 1
  /\ run' = NoRun
  /\ UNCHANGED <<live, captured, baseline, standing, told, repeated>>

Step == Capture \/ Compare \/ Push \/ MarkStanding

AttestNext ==
  \/ \E f \in Field : \E v \in ValueOrAbsent(f) : Change(f, v)
  \/ \E mode \in Mode : Probe(mode)
  \/ Step
  \/ Unreachable \/ Killed

AttestSpec == AttestInit /\ [][AttestNext]_attestVars

(* The timer starts a loud run every day, whatever runs are started by     *)
(* hand, and ssh and ntfy have timeouts.                                   *)
AttestFair == AttestSpec /\ SF_attestVars(Probe("loud")) /\ WF_attestVars(Step)

------------------------------------------------------------------------------
(* Properties *)

(* Configurations give each field one of its values, alerts name fields    *)
(* and entries, and only the run after a comparison holds some to push.    *)
AttestTypeOK ==
  /\ \A c \in {live, baseline, run.saw} : IsConfig(c)
  /\ standing \subseteq Key /\ told \subseteq Key /\ repeated \subseteq Key
  /\ run.at \in {"none", "probed", "compared", "pushed"}
  /\ run.mode \in Mode \union {"none"}
  /\ run.fresh # {} => run.at \in {"compared", "pushed"}

(* "An alert is pushed once, the first run it appears; it stays silent     *)
(* while it persists" (SCHEMA): unless a run was killed between its push   *)
(* and its mark, no alert is pushed again before a loud run found it       *)
(* cleared, whatever quiet runs come between.                              *)
AnnouncedOnce == faults = 0 => repeated = {}

(* "a change that is undone and later redone is pushed again"              *)
(* (mark_standing): between runs, an alert that counts as announced was    *)
(* pushed since a loud run last found it cleared.                          *)
StandingWasAnnounced == run = NoRun => standing \subseteq told

(* A change that lasts is announced, across probes that fail and runs that *)
(* are killed between any two steps.                                       *)
LastingChangeIsAnnounced ==
  \A k \in Key :
    k \in Alerts(baseline, live) ~> k \in told \/ k \notin Alerts(baseline, live)
==============================================================================
