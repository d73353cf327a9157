----------------------------- MODULE AttestProofs -----------------------------
(***************************************************************************)
(* Proofs about Attest: what counts as announced was announced, and only   *)
(* once.  The invariant follows the alerts through a run: compare() trims  *)
(* them by the standing ones, the push tells the rest, and from then on    *)
(* all of them are told, so that they may be marked.                       *)
(***************************************************************************)
EXTENDS Attest, TLAPS

------------------------------------------------------------------------------
(* Types *)

LEMMA AlertsAreKeys ==
  ASSUME NEW base, NEW seen, IsConfig(base), IsConfig(seen)
  PROVE  Alerts(base, seen) \subseteq Key
BY DEF Alerts, Key, IsConfig

RunTyped ==
  /\ run = [at |-> run.at, mode |-> run.mode, saw |-> run.saw, fresh |-> run.fresh]
  /\ IsConfig(run.saw)
  /\ run.at \in {"none", "probed", "compared", "pushed"}
  /\ run.mode \in Mode \union {"none"}
  /\ run.fresh \subseteq Key
  /\ run.fresh # {} => run.at \in {"compared", "pushed"}

TypeInv ==
  /\ IsConfig(live) /\ IsConfig(baseline)
  /\ standing \subseteq Key /\ told \subseteq Key /\ repeated \subseteq Key
  /\ RunTyped

LEMMA IdleTyped ==
  ASSUME run' = NoRun
  PROVE  RunTyped'
<1>1. IsConfig(NoConfig)
  BY DEF IsConfig, NoConfig, ValueOrAbsent
<1> QED BY <1>1 DEF RunTyped, NoRun

LEMMA TypeKept ==
  ASSUME TypeInv, [AttestNext]_attestVars
  PROVE  TypeInv'
<1> USE DEF TypeInv
<1>1. ASSUME NEW f \in Field, NEW v \in ValueOrAbsent(f), Change(f, v)
      PROVE  TypeInv'
  <2>1. IsConfig(live')
    BY <1>1 DEF Change, IsConfig
  <2> QED BY <1>1, <2>1 DEF Change, RunTyped
<1>2. ASSUME NEW mode \in Mode, Probe(mode)
      PROVE  TypeInv'
  <2>1. run' = [at |-> "probed", mode |-> mode, saw |-> live, fresh |-> {}]
    BY <1>2 DEF Probe, NoRun
  <2>2. RunTyped'
    BY <2>1 DEF RunTyped
  <2> QED BY <1>2, <2>2 DEF Probe
<1>3. CASE Capture
  BY <1>3, IdleTyped DEF Capture, RunTyped
<1>4. CASE Compare
  <2>1. CASE run.mode = "loud"
    <3>1. run' = [at |-> "compared", mode |-> run.mode, saw |-> run.saw,
                  fresh |-> Alerts(baseline, run.saw) \ standing]
      BY <1>4, <2>1 DEF Compare, RunTyped
    <3>2. Alerts(baseline, run.saw) \subseteq Key
      BY AlertsAreKeys DEF RunTyped
    <3>3. RunTyped'
      BY <3>1, <3>2 DEF RunTyped
    <3> QED BY <1>4, <3>3 DEF Compare
  <2>2. CASE run.mode # "loud"
    BY <1>4, <2>2, IdleTyped DEF Compare
  <2> QED BY <2>1, <2>2
<1>5. CASE Push
  <2>1. run' = [at |-> "pushed", mode |-> run.mode, saw |-> run.saw, fresh |-> run.fresh]
    BY <1>5 DEF Push, RunTyped
  <2>2. RunTyped'
    BY <2>1 DEF RunTyped
  <2> QED BY <1>5, <2>2 DEF Push, RunTyped
<1>6. CASE MarkStanding
  <2>1. Alerts(baseline, run.saw) \subseteq Key
    BY AlertsAreKeys DEF RunTyped
  <2> QED BY <1>6, <2>1, IdleTyped DEF MarkStanding
<1>7. CASE Unreachable \/ UNCHANGED attestVars
  BY <1>7 DEF Unreachable, attestVars, RunTyped
<1>8. CASE Killed
  BY <1>8, IdleTyped DEF Killed
<1> QED BY <1>1, <1>2, <1>3, <1>4, <1>5, <1>6, <1>7, <1>8 DEF AttestNext, Step

(* The tables hold configurations and alerts of their fields, and a run    *)
(* has something to push only after it compared (AttestTypeOK).            *)
THEOREM AttestTyped == AttestSpec => []AttestTypeOK
<1>1. AttestInit => TypeInv
  <2>1. IsConfig(NoConfig) /\ IsConfig([f \in Field |-> Initial[f]])
    BY AttestAssumption DEF IsConfig, NoConfig, ValueOrAbsent
  <2>2. run = NoRun => RunTyped
    BY <2>1 DEF RunTyped, NoRun
  <2> QED BY <2>1, <2>2 DEF AttestInit, TypeInv
<1>2. TypeInv => AttestTypeOK
  BY DEF TypeInv, RunTyped, AttestTypeOK
<1> QED BY <1>1, <1>2, TypeKept, PTL DEF AttestSpec

------------------------------------------------------------------------------
(* Announcements *)

IsRun == run = [at |-> run.at, mode |-> run.mode, saw |-> run.saw, fresh |-> run.fresh]

Trimmed == run.at = "compared" => run.fresh = Alerts(baseline, run.saw) \ standing
Told == run.at = "pushed" => Alerts(baseline, run.saw) \subseteq told
Undisturbed == faults = 0 => repeated = {} /\ (run.at # "pushed" => told \subseteq standing)

AnnouncedInv ==
  /\ IsRun
  /\ faults \in Nat
  /\ standing \subseteq told
  /\ Trimmed
  /\ Told
  /\ Undisturbed

LEMMA NoRunFields ==
  NoRun = [at |-> NoRun.at, mode |-> NoRun.mode, saw |-> NoRun.saw, fresh |-> NoRun.fresh]
    /\ NoRun.at = "none"
BY DEF NoRun

LEMMA AnnouncedInit == AttestInit => AnnouncedInv
BY NoRunFields DEF AttestInit, AnnouncedInv, IsRun, Trimmed, Told, Undisturbed

(* Each step of a run keeps its alerts between "fresh", "told" and         *)
(* "standing"; the owner's edits touch none of them.                       *)
LEMMA AnnouncedNext == AnnouncedInv /\ [AttestNext]_attestVars => AnnouncedInv'
<1> USE DEF AnnouncedInv, IsRun, Trimmed, Told, Undisturbed
<1> SUFFICES ASSUME AnnouncedInv, [AttestNext]_attestVars PROVE AnnouncedInv'
  OBVIOUS
<1>1. ASSUME NEW f \in Field, NEW v \in ValueOrAbsent(f), Change(f, v) PROVE AnnouncedInv'
  BY <1>1 DEF Change
<1>2. ASSUME NEW mode \in Mode, Probe(mode) PROVE AnnouncedInv'
  <2>1. run' = [at |-> "probed", mode |-> mode, saw |-> live, fresh |-> {}]
    BY <1>2 DEF Probe, NoRun
  <2>2. run.at # "pushed"
    BY <1>2, NoRunFields DEF Probe
  <2> QED BY <1>2, <2>1, <2>2 DEF Probe
<1>3. CASE Capture
  <2>1. run'.at = "none" /\ run' = NoRun /\ run.at # "pushed"
    BY <1>3, NoRunFields DEF Capture
  <2> QED BY <1>3, <2>1, NoRunFields DEF Capture
<1>4. CASE Compare
  <2>1. CASE run.mode = "loud"
    <3>1. run' = [at |-> "compared", mode |-> run.mode, saw |-> run.saw,
                  fresh |-> Alerts(baseline, run.saw) \ standing]
      BY <1>4, <2>1 DEF Compare
    <3> QED BY <1>4, <3>1 DEF Compare
  <2>2. CASE run.mode # "loud"
    <3>1. run' = NoRun /\ run'.at = "none"
      BY <1>4, <2>2, NoRunFields DEF Compare
    <3> QED BY <1>4, <3>1, NoRunFields DEF Compare
  <2> QED BY <2>1, <2>2
<1>5. CASE Push
  <2>1. run' = [at |-> "pushed", mode |-> run.mode, saw |-> run.saw, fresh |-> run.fresh]
    BY <1>5 DEF Push
  <2>2. Alerts(baseline, run.saw) \subseteq told'
    BY <1>5 DEF Push
  <2>3. faults = 0 => told \intersect run.fresh = {}
    BY <1>5 DEF Push
  <2> QED BY <1>5, <2>1, <2>2, <2>3 DEF Push
<1>6. CASE MarkStanding
  <2>1. run' = NoRun /\ run'.at = "none"
    BY <1>6, NoRunFields DEF MarkStanding
  <2>2. standing' = Alerts(baseline, run.saw) /\ told' = told \intersect standing'
    BY <1>6 DEF MarkStanding
  <2> QED BY <1>6, <2>1, <2>2, NoRunFields DEF MarkStanding
<1>7. CASE Unreachable
  BY <1>7 DEF Unreachable
<1>8. CASE Killed
  <2>1. run' = NoRun /\ run'.at = "none" /\ faults' \in Nat \ {0}
    BY <1>8, NoRunFields DEF Killed
  <2> QED BY <1>8, <2>1, NoRunFields DEF Killed
<1>9. CASE UNCHANGED attestVars
  BY <1>9 DEF attestVars
<1> QED BY <1>1, <1>2, <1>3, <1>4, <1>5, <1>6, <1>7, <1>8, <1>9 DEF AttestNext, Step

LEMMA AttestAnnounced == AttestSpec => []AnnouncedInv
BY AnnouncedInit, AnnouncedNext, PTL DEF AttestSpec

(* Between runs, an alert that counts as announced (attest_standing) was   *)
(* pushed since a loud run last found it cleared.                          *)
THEOREM StandingAnnounced == AttestSpec => []StandingWasAnnounced
<1>1. AnnouncedInv => StandingWasAnnounced
  BY DEF AnnouncedInv, StandingWasAnnounced
<1> QED BY <1>1, AttestAnnounced, PTL

(* Without a killed run or a failed probe no alert is pushed twice while   *)
(* it persists (fresh_alerts and mark_standing).                           *)
THEOREM AlertsAnnouncedOnce == AttestSpec => []AnnouncedOnce
<1>1. AnnouncedInv => AnnouncedOnce
  BY DEF AnnouncedInv, Undisturbed, AnnouncedOnce
<1> QED BY <1>1, AttestAnnounced, PTL
==============================================================================
