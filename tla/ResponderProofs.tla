---------------------------- MODULE ResponderProofs ----------------------------
(***************************************************************************)
(* Proofs about the responder service, for any sets of jobs, problems,     *)
(* hosts, verbs and tap threads, any registry, limits and times, and any   *)
(* number of crashes and dying threads.                                    *)
(***************************************************************************)
EXTENDS Responder, JobStoreProofs

------------------------------------------------------------------------------
(* The invariant: where the thread of a job stands tells what its row and  *)
(* the tables of grants.py hold, whatever the other threads do meanwhile.  *)

(* v is a registered write verb of the host that problem p is on. *)
OnHost(p, v) == \E h \in Host : NameOf[h] = AlertingName[p] /\ IsWrite(h, v)
Learnable(p) == ~IsProtected(ByCheckmkName(AlertingName[p]))

Counted(j) == \E r \in autoRuns : r.job = j /\ r.tuple = ApprovedTuple(j)

Earned(j) ==
  /\ authority[j] = "phone" /\ runs[j] = 1
  /\ jobs[j].state = "closed" /\ jobs[j].reason \in {"done", "recovered"}

RowFits(j) ==
  /\ jobs[j].verb # NoVerb => jobs[j].state # "absent" /\ OnHost(jobs[j].problem, jobs[j].verb)
  /\ jobs[j].state \in {"pending", "approved", "executing"} => jobs[j].verb # NoVerb
  /\ jobs[j].state \in {"absent", "open", "pending"} => authority[j] = "nobody"
  /\ authority[j] = "grant" => Learnable(jobs[j].problem)
  /\ authority[j] = "grant" /\ runs[j] = 1 => Counted(j)

HandlerFits(j) ==
  LET at == handler[j].at
      verb == handler[j].verb
  IN
  /\ at \in Asking => jobs[j].state \in {"open", "closed"}
  /\ at \in {"counting", "autoStarting", "starting"} => jobs[j].state \in {"approved", "closed"}
  /\ at \in {"running", "autoRunning"} =>
       /\ runs[j] = 1
       /\ \/ jobs[j].state = "executing"
          \/ jobs[j].state = "closed" /\ jobs[j].reason = "recovered"
  /\ at \in {"autoOk", "autoBad"} => jobs[j].state = "closed"
  /\ at \in {"recording", "inserting"} => Earned(j) /\ jobs[j].verb # NoVerb
  /\ at \in {"diagnosed", "granted", "asking"} /\ verb # NoVerb => OnHost(jobs[j].problem, verb)
  /\ at \in {"granted", "asking"} \union AutoRunning => verb # NoVerb
  /\ at \in {"granted", "inserting"} => Learnable(jobs[j].problem)
  /\ at \in AutoRunning => jobs[j].verb = verb /\ authority[j] = "grant"
  /\ at \in AutoRunning \ {"counting"} => Counted(j)
  /\ at \in {"starting", "running"} => authority[j] = "phone" /\ jobs[j].verb # NoVerb

OthersFit(j) ==
  /\ \A t \in Tap : taps[t].at = "denying" /\ taps[t].job = j => jobs[j].state \in {"denied", "closed"}
  /\ j \in sweep.marked => jobs[j].state \in {"expired", "closed"}
  /\ \A p \in Problem : j \in recov[p] => jobs[j].problem = p

JobInv == \A j \in Job : RowFits(j) /\ HandlerFits(j) /\ OthersFit(j)

DownInv ==
  ~up => /\ handler = [j \in Job |-> NoThread]
         /\ taps = [t \in Tap |-> NoTap]
         /\ recov = [p \in Problem |-> {}]
         /\ sweep = NoSweep
         /\ crashes > 0

ServiceInv ==
  /\ TypeOK /\ SessionsStamped /\ RunsFollowState
  /\ JobInv /\ DownInv

------------------------------------------------------------------------------
(* Every step of the service is a step of the jobs table or leaves it      *)
(* alone: an approval and a proposal carry a verb, because only a job that *)
(* has one gets that far.                                                  *)
LEMMA StepsStore ==
  ASSUME TypeOK, JobInv, [Next]_vars
  PROVE  [StoreNext]_storeVars
<1> USE DEF TypeOK
<1>1. ASSUME NEW p \in Problem, NEW j \in Job, Alert(p, j) \/ RecoverClose(p, j)
      PROVE  [StoreNext]_storeVars
  <2>1. "recovered" \in Reason \ {"none"}
    BY DEF Reason
  <2> QED BY <1>1, <2>1 DEF Alert, RecoverClose, CloseUnlessClosed, StoreNext
<1>2. ASSUME NEW p \in Problem, RecoverSelect(p)
      PROVE  [StoreNext]_storeVars
  BY <1>2 DEF RecoverSelect
<1>3. ASSUME NEW j \in Job, NewJobStep(j)
      PROVE  [StoreNext]_storeVars
  <2>1. handler[j].at \in {"granted", "asking"} => handler[j].verb \in Verb
    BY DEF JobInv, HandlerFits, Thread, NoThread, VerbOrNone, Asking, AutoRunning, ManualRunning
  <2>2. CASE ApproveByGrant(j)
    BY <2>1, <2>2 DEF ApproveByGrant, StoreNext
  <2>3. CASE AskPhone(j)
    BY <2>1, <2>3 DEF AskPhone, StoreNext
  <2>4. CASE RateCheck(j) \/ BeginDiagnosis(j) \/ EndDiagnosis(j) \/ Consider(j)
               \/ CountAutoRun(j) \/ SettleAutoRun(j)
    BY <2>4 DEF RateCheck, BeginDiagnosis, EndDiagnosis, Consider, CountAutoRun, SettleAutoRun
  <2> QED BY <1>3, <2>2, <2>3, <2>4 DEF NewJobStep
<1>4. ASSUME NEW j \in Job, RunStep(j) \/ ApprovedStep(j)
      PROVE  [StoreNext]_storeVars
  <2>1. {"done", "failed"} \subseteq Reason \ {"none"}
    BY DEF Reason
  <2>2. CASE StartRun(j)
    BY <2>2 DEF StartRun, StoreNext
  <2>3. ASSUME NEW ok \in BOOLEAN, FinishRun(j, ok)
        PROVE  [StoreNext]_storeVars
    BY <2>1, <2>3 DEF FinishRun, CloseUnlessClosed, StoreNext
  <2>4. CASE ApprovedStep(j)
    BY <2>4 DEF ApprovedStep, RecordApproval, InsertApproval
  <2> QED BY <1>4, <2>2, <2>3, <2>4 DEF RunStep
<1>5. ASSUME NEW t \in Tap, TapStep(t)
      PROVE  [StoreNext]_storeVars
  <2>1. taps[t].at # "idle" => taps[t].job \in Job /\ taps[t].decision \in Decision
    BY DEF TapThread, NoTap
  <2>2. "denied" \in Reason \ {"none"}
    BY DEF Reason
  <2>3. CASE TapDecide(t)
    BY <2>1, <2>3 DEF TapDecide, StoreNext
  <2>4. CASE TapLate(t)
    BY <2>1, <2>4 DEF TapLate, StoreNext
  <2>5. CASE TapDenied(t)
    BY <2>1, <2>2, <2>5 DEF TapDenied, CloseUnlessClosed, StoreNext
  <2> QED BY <1>5, <2>3, <2>4, <2>5 DEF TapStep
<1>6. ASSUME NEW t \in Tap, NEW j \in Job, NEW d \in Decision, TapRead(t, j, d)
      PROVE  [StoreNext]_storeVars
  BY <1>6 DEF TapRead
<1>7. ASSUME NEW g \in Tuple, RevokeTap(g)
      PROVE  [StoreNext]_storeVars
  BY <1>7 DEF RevokeTap
<1>8. CASE SweeperStep
  <2>1. "expired" \in Reason \ {"none"}
    BY DEF Reason
  <2>2. CASE SweepSelect
    BY <2>2 DEF SweepSelect
  <2>3. ASSUME NEW j \in Job, SweepMark(j) \/ SweepClose(j)
        PROVE  [StoreNext]_storeVars
    BY <2>1, <2>3 DEF SweepMark, SweepClose, CloseUnlessClosed, StoreNext
  <2> QED BY <1>8, <2>2, <2>3 DEF SweeperStep
<1>9. CASE ThreadDies \/ Crash
  BY <1>9 DEF ThreadDies, Crash
<1>10. CASE Restart \/ TimePasses
  BY <1>10 DEF Restart, TimePasses, StoreNext
<1>11. CASE UNCHANGED vars
  BY <1>11 DEF vars
<1> QED
  BY <1>1, <1>2, <1>3, <1>4, <1>5, <1>6, <1>7, <1>8, <1>9, <1>10, <1>11
     DEF Next, Serving, HandlerStep

------------------------------------------------------------------------------
(* Types *)

(* What the threads and the tables of grants.py may hold. *)
ThreadsTyped ==
  /\ handler \in [Job -> Thread]
  /\ buttons \subseteq Job
  /\ taps \in [Tap -> TapThread]
  /\ recov \in [Problem -> SUBSET Job]
  /\ sweep \in [due : SUBSET Job, marked : SUBSET Job]

GrantsTyped ==
  /\ grants \in [Tuple -> Grant]
  /\ autoRuns \subseteq AutoRun
  /\ links \subseteq Tuple

LifeTyped == up \in BOOLEAN /\ crashes \in 0..MaxCrashes /\ faults \in 0..MaxFaults

LEMMA TypeParts == TypeOK <=> StoreTypeOK /\ GrantsTyped /\ ThreadsTyped /\ LifeTyped
  BY DEF TypeOK, GrantsTyped, ThreadsTyped, LifeTyped

LEMMA ThreadMoves ==
  ASSUME NEW th \in Thread,
         NEW place \in Asking \union AutoRunning \union ManualRunning
  PROVE  [th EXCEPT !.at = place] \in Thread
  BY DEF Thread, NoThread, VerbOrNone

(* A host that is not protected is in the registry. *)
LEMMA UnprotectedRegistered ==
  ASSUME NEW h, ~IsProtected(h)
  PROVE  h \in Host
  BY DEF IsProtected

LEMMA GrantRows ==
  ASSUME StoreTypeOK
  PROVE  /\ NoGrant \in Grant
         /\ \A j \in Job : [NoGrant EXCEPT !.status = "active", !.job = j] \in Grant
         /\ \A row \in Grant : EndGrant(row, "revoked") \in Grant
         /\ \A row \in Grant : EndGrant(row, "verify-failed") \in Grant
  BY DEF NoGrant, Grant, EndGrant, StoreTypeOK

LEMMA GrantTypesKept ==
  ASSUME TypeOK, JobInv, [Next]_vars
  PROVE  GrantsTyped'
<1> USE DEF GrantsTyped
<1>0. GrantsTyped /\ StoreTypeOK
  BY TypeParts
<1>1. ASSUME UNCHANGED grantVars
      PROVE  GrantsTyped'
  BY <1>0, <1>1 DEF grantVars
<1>2. ASSUME NEW j \in Job, CountAutoRun(j)
      PROVE  GrantsTyped'
  <2>1. handler[j].verb \in Verb /\ handler[j].at = "counting"
    BY <1>2 DEF CountAutoRun, JobInv, HandlerFits, TypeOK, Thread, NoThread, VerbOrNone,
                AutoRunning
  <2>2. authority[j] = "grant" /\ HostOf(j) \in Host
    BY <2>1, UnprotectedRegistered
       DEF JobInv, HandlerFits, RowFits, Learnable, HostOf, AutoRunning
  <2>3. [job |-> j, tuple |-> <<HostOf(j), handler[j].verb>>, at |-> now] \in AutoRun
    BY <1>0, <2>1, <2>2 DEF AutoRun, Tuple, StoreTypeOK
  <2> QED BY <1>0, <1>2, <2>3 DEF CountAutoRun, StartAutoRun
<1>3. ASSUME NEW j \in Job, SettleAutoRun(j)
      PROVE  GrantsTyped'
  <2>1. handler[j].verb \in Verb /\ handler[j].at \in {"autoOk", "autoBad"}
    BY <1>3 DEF SettleAutoRun, JobInv, HandlerFits, TypeOK, Thread, NoThread, VerbOrNone,
                AutoRunning
  <2>2. authority[j] = "grant" /\ HostOf(j) \in Host
    BY <2>1, UnprotectedRegistered
       DEF JobInv, HandlerFits, RowFits, Learnable, HostOf, AutoRunning
  <2>3. <<HostOf(j), handler[j].verb>> \in Tuple
    BY <2>1, <2>2 DEF Tuple
  <2> QED BY <1>0, <1>3, <2>3, GrantRows DEF SettleAutoRun, FinishAutoRun
<1>4. ASSUME NEW j \in Job, ApprovedStep(j)
      PROVE  GrantsTyped'
  BY <1>0, <1>1, <1>4, GrantRows
     DEF ApprovedStep, RecordApproval, InsertApproval, Remember, InsertGrant
<1>5. ASSUME NEW g \in Tuple, RevokeTap(g)
      PROVE  GrantsTyped'
  BY <1>0, <1>5, GrantRows DEF RevokeTap, Revoke
<1>6. ASSUME NEW j \in Job, NewJobStep(j) \/ RunStep(j), ~CountAutoRun(j), ~SettleAutoRun(j)
      PROVE  GrantsTyped'
  <2>1. UNCHANGED grantVars
    BY <1>6 DEF NewJobStep, RateCheck, BeginDiagnosis, EndDiagnosis, Consider, ApproveByGrant,
                AskPhone, RunStep, StartRun, FinishRun
  <2> QED BY <2>1, <1>1
<1>7. ASSUME NEW p \in Problem, \/ RecoverSelect(p)
                                \/ \E j \in Job : Alert(p, j) \/ RecoverClose(p, j)
      PROVE  GrantsTyped'
  BY <1>1, <1>7 DEF RecoverSelect, Alert, RecoverClose
<1>8. ASSUME NEW t \in Tap, \/ TapStep(t)
                            \/ \E j \in Job, d \in Decision : TapRead(t, j, d)
      PROVE  GrantsTyped'
  BY <1>1, <1>8 DEF TapStep, TapDecide, TapLate, TapDenied, TapRead
<1>9. CASE SweeperStep \/ ThreadDies \/ Crash \/ Restart \/ TimePasses
  BY <1>1, <1>9 DEF SweeperStep, SweepSelect, SweepMark, SweepClose, ThreadDies, Crash,
                    Restart, TimePasses
<1>10. CASE UNCHANGED vars
  BY <1>1, <1>10 DEF vars
<1> QED
  BY <1>2, <1>3, <1>4, <1>5, <1>6, <1>7, <1>8, <1>9, <1>10 DEF Next, Serving, HandlerStep

LEMMA ThreadTypesKept ==
  ASSUME TypeOK, [Next]_vars
  PROVE  ThreadsTyped' /\ LifeTyped'
<1> USE DEF ThreadsTyped, LifeTyped
<1>0. ThreadsTyped /\ LifeTyped /\ StoreTypeOK
  BY TypeParts
<1>1. ASSUME NEW j \in Job, NEW place \in Asking \union AutoRunning \union ManualRunning
      PROVE  [handler EXCEPT ![j].at = place] \in [Job -> Thread]
  BY <1>0, ThreadMoves
<1>2. ASSUME NEW j \in Job
      PROVE  [handler EXCEPT ![j] = NoThread] \in [Job -> Thread]
  BY <1>0 DEF Thread
<1>3. ASSUME UNCHANGED <<buttons, taps, recov, sweep, up, crashes, faults>>,
             handler' \in [Job -> Thread]
      PROVE  ThreadsTyped' /\ LifeTyped'
  BY <1>0, <1>3
<1> USE DEF Goes, Ends
<1>4. ASSUME NEW j \in Job, NewJobStep(j), UNCHANGED lifeVars
      PROVE  ThreadsTyped' /\ LifeTyped'
  <2> USE DEF lifeVars
  <2>1. CASE EndDiagnosis(j)
    <3>1. PICK raw \in RawProposal :
            handler' = [handler EXCEPT ![j] = [at |-> "diagnosed",
                                               verb |-> Accepted(jobs[j].problem, raw)]]
      BY <2>1 DEF EndDiagnosis
    <3>2. Accepted(jobs[j].problem, raw) \in VerbOrNone
      BY DEF Accepted, RawProposal, VerbOrNone
    <3>3. handler' \in [Job -> Thread]
      BY <1>0, <3>1, <3>2 DEF Thread, Asking
    <3> QED BY <1>3, <1>4, <2>1, <3>3 DEF EndDiagnosis
  <2>2. CASE AskPhone(j)
    <3>1. handler' \in [Job -> Thread] /\ buttons' \subseteq Job
      BY <1>0, <1>2, <2>2 DEF AskPhone
    <3> QED BY <1>0, <1>4, <2>2, <3>1 DEF AskPhone
  <2>3. CASE RateCheck(j) \/ BeginDiagnosis(j) \/ Consider(j) \/ ApproveByGrant(j)
               \/ CountAutoRun(j) \/ SettleAutoRun(j)
    <3>1. {"queued", "diagnosing", "granted", "asking", "counting", "autoStarting"}
            \subseteq Asking \union AutoRunning \union ManualRunning
      BY DEF Asking, AutoRunning
    <3>2. handler' \in [Job -> Thread]
      BY <1>1, <1>2, <2>3, <3>1
         DEF RateCheck, BeginDiagnosis, Consider, ApproveByGrant, CountAutoRun, SettleAutoRun
    <3> QED BY <1>3, <1>4, <2>3, <3>2
            DEF RateCheck, BeginDiagnosis, Consider, ApproveByGrant, CountAutoRun, SettleAutoRun
  <2> QED BY <1>4, <2>1, <2>2, <2>3 DEF NewJobStep
<1>5. ASSUME NEW j \in Job, RunStep(j) \/ ApprovedStep(j), UNCHANGED lifeVars
      PROVE  ThreadsTyped' /\ LifeTyped'
  <2>1. {"running", "autoRunning", "autoOk", "autoBad", "recording", "inserting"}
            \subseteq Asking \union AutoRunning \union ManualRunning
    BY DEF AutoRunning, ManualRunning
  <2>2. handler' \in [Job -> Thread]
    BY <1>1, <1>2, <1>5, <2>1 DEF RunStep, StartRun, FinishRun, ApprovedStep, RecordApproval,
                                  InsertApproval
  <2> QED BY <1>3, <1>5, <2>2 DEF RunStep, StartRun, FinishRun, ApprovedStep, RecordApproval,
                                  InsertApproval, lifeVars
<1>6. ASSUME NEW p \in Problem, NEW j \in Job, Alert(p, j) \/ RecoverClose(p, j), UNCHANGED lifeVars
      PROVE  ThreadsTyped' /\ LifeTyped'
  BY <1>0, <1>1, <1>6 DEF Alert, RecoverClose, lifeVars, Asking
<1>7. ASSUME NEW p \in Problem, RecoverSelect(p), UNCHANGED lifeVars
      PROVE  ThreadsTyped' /\ LifeTyped'
  BY <1>0, <1>7 DEF RecoverSelect, lifeVars
<1>8. ASSUME NEW t \in Tap, TapStep(t), UNCHANGED lifeVars
      PROVE  ThreadsTyped' /\ LifeTyped'
  <2>1. "starting" \in Asking \union AutoRunning \union ManualRunning
    BY DEF ManualRunning
  <2>2. \/ handler' = handler
        \/ taps[t].at = "writing" /\ handler' = [handler EXCEPT ![taps[t].job].at = "starting"]
    BY <1>8 DEF TapStep, TapDecide, TapLate, TapDenied
  <2>3. taps[t].at = "writing" => taps[t].job \in Job
    BY <1>0 DEF TapThread, NoTap
  <2>4. handler' \in [Job -> Thread]
    BY <1>0, <1>1, <2>1, <2>2, <2>3
  <2>5. \/ taps' = [taps EXCEPT ![t] = NoTap]
        \/ taps[t].at = "writing" /\ taps' = [taps EXCEPT ![t].at = "denying"]
    BY <1>8 DEF TapStep, TapDecide, TapLate, TapDenied
  <2>6. taps' \in [Tap -> TapThread]
    BY <1>0, <2>5 DEF TapThread, NoTap
  <2> QED BY <1>0, <1>8, <2>4, <2>6 DEF TapStep, TapDecide, TapLate, TapDenied, lifeVars
<1>9. ASSUME NEW t \in Tap, NEW j \in Job, NEW d \in Decision, TapRead(t, j, d), UNCHANGED lifeVars
      PROVE  ThreadsTyped' /\ LifeTyped'
  BY <1>0, <1>9 DEF TapRead, TapThread, lifeVars
<1>10. ASSUME NEW g \in Tuple, RevokeTap(g), UNCHANGED lifeVars
       PROVE  ThreadsTyped' /\ LifeTyped'
  BY <1>0, <1>10 DEF RevokeTap, threadVars, lifeVars
<1>11. ASSUME SweeperStep, UNCHANGED lifeVars
       PROVE  ThreadsTyped' /\ LifeTyped'
  <2>1. sweep' \in [due : SUBSET Job, marked : SUBSET Job]
    BY <1>0, <1>11 DEF SweeperStep, SweepSelect, SweepMark, SweepClose
  <2> QED BY <1>0, <1>11, <2>1 DEF SweeperStep, SweepSelect, SweepMark, SweepClose, lifeVars
<1>12. CASE ThreadDies
  <2>1. /\ handler' \in [Job -> Thread] /\ taps' \in [Tap -> TapThread]
        /\ recov' \in [Problem -> SUBSET Job]
        /\ sweep' \in [due : SUBSET Job, marked : SUBSET Job]
    BY <1>0, <1>2, <1>12 DEF ThreadDies, TapThread, NoSweep
  <2>2. faults' \in 0..MaxFaults
    BY <1>0, <1>12, ResponderAssumption DEF ThreadDies
  <2> QED BY <1>0, <1>12, <2>1, <2>2 DEF ThreadDies
<1>13. CASE Crash
  <2>1. /\ handler' \in [Job -> Thread] /\ taps' \in [Tap -> TapThread]
        /\ recov' \in [Problem -> SUBSET Job]
        /\ sweep' \in [due : SUBSET Job, marked : SUBSET Job]
    BY <1>13 DEF Crash, TapThread, NoSweep, Thread
  <2>2. crashes' \in 0..MaxCrashes
    BY <1>0, <1>13, ResponderAssumption DEF Crash
  <2> QED BY <1>0, <1>13, <2>1, <2>2 DEF Crash
<1>14. CASE Restart \/ TimePasses
  BY <1>0, <1>14 DEF Restart, TimePasses, threadVars, lifeVars
<1>15. CASE UNCHANGED vars
  BY <1>0, <1>15 DEF vars, threadVars, lifeVars
<1> QED
  BY <1>4, <1>5, <1>6, <1>7, <1>8, <1>9, <1>10, <1>11, <1>12, <1>13, <1>14, <1>15
     DEF Next, Serving, HandlerStep

LEMMA TypesKept ==
  ASSUME TypeOK, JobInv, [Next]_vars
  PROVE  TypeOK'
<1>1. StoreTypeOK'
  BY StepsStore, TypeStep DEF TypeOK
<1>2. GrantsTyped' /\ ThreadsTyped' /\ LifeTyped'
  BY GrantTypesKept, ThreadTypesKept
<1> QED BY <1>1, <1>2 DEF TypeOK, GrantsTyped, ThreadsTyped, LifeTyped

------------------------------------------------------------------------------
(* Rows and threads *)

(* A job whose row, thread and history stay as they are stays in order:    *)
(* counted runs are never taken back.                                      *)
LEMMA JobUntouched ==
  ASSUME NEW k \in Job, RowFits(k), HandlerFits(k),
         jobs'[k] = jobs[k], handler'[k] = handler[k],
         authority'[k] = authority[k], runs'[k] = runs[k], autoRuns \subseteq autoRuns'
  PROVE  RowFits(k)' /\ HandlerFits(k)'
<1>1. Counted(k) => Counted(k)'
  BY DEF Counted, ApprovedTuple, HostOf
<1>2. Earned(k)' = Earned(k)
  BY DEF Earned
<1>3. RowFits(k)'
  BY <1>1 DEF RowFits
<1>4. HandlerFits(k)'
  BY <1>1, <1>2 DEF HandlerFits
<1> QED BY <1>3, <1>4

(* A recovery may close the row of a job under its thread; anybody else    *)
(* closes only the row of a job that no thread works on.                   *)
LEMMA RowCloses ==
  ASSUME StoreTypeOK, NEW k \in Job, RowFits(k), HandlerFits(k),
         NEW reason \in Reason, jobs[k].state \notin {"absent", "closed"},
         jobs'[k] = Ended(jobs[k], reason), handler'[k] = handler[k],
         authority'[k] = authority[k], runs'[k] = runs[k], autoRuns \subseteq autoRuns',
         reason = "recovered" \/ handler[k].at = "none"
  PROVE  RowFits(k)' /\ HandlerFits(k)'
<1>1. /\ jobs'[k].state = "closed" /\ jobs'[k].reason = reason
      /\ jobs'[k].problem = jobs[k].problem /\ jobs'[k].verb = jobs[k].verb
  BY DEF StoreTypeOK, Row, Ended
<1>2. Counted(k) => Counted(k)'
  BY <1>1 DEF Counted, ApprovedTuple, HostOf
<1>3. RowFits(k)'
  BY <1>1, <1>2 DEF RowFits
<1>4. HandlerFits(k)'
  BY <1>1, <1>2 DEF HandlerFits, Earned, Asking, AutoRunning
<1> QED BY <1>3, <1>4

Fits(k) == RowFits(k) /\ HandlerFits(k)

LEMMA ThreadGoes ==
  ASSUME handler \in [Job -> Thread], NEW j \in Job, NEW place, Goes(j, place)
  PROVE  /\ handler'[j].at = place /\ handler'[j].verb = handler[j].verb
         /\ \A k \in Job \ {j} : handler'[k] = handler[k]
  BY DEF Goes, Thread, NoThread

LEMMA ThreadEnds ==
  ASSUME handler \in [Job -> Thread], NEW j \in Job, Ends(j)
  PROVE  /\ handler'[j] = NoThread
         /\ \A k \in Job \ {j} : handler'[k] = handler[k]
  BY DEF Ends

LEMMA NoThreadFits ==
  ASSUME NEW j \in Job, handler'[j] = NoThread
  PROVE  HandlerFits(j)'
  BY DEF HandlerFits, NoThread, Asking, AutoRunning

(* A proposal that filter_proposal() let through is a write verb of the    *)
(* host that raised the alert.                                             *)
LEMMA AcceptedOnHost ==
  ASSUME NEW p, NEW raw
  PROVE  Accepted(p, raw) # NoVerb => OnHost(p, Accepted(p, raw))
  BY RegistryAssumption DEF Accepted, OnHost, IsWrite, ByCheckmkName

(* The steps of handle_new_job that touch no table but auto_runs. *)
LEMMA DiagnosisFits ==
  ASSUME TypeOK, NEW j \in Job, Fits(j),
         \/ RateCheck(j) \/ BeginDiagnosis(j) \/ EndDiagnosis(j) \/ Consider(j)
         \/ CountAutoRun(j) \/ SettleAutoRun(j)
  PROVE  Fits(j)'
<1>0. UNCHANGED storeVars /\ autoRuns \subseteq autoRuns'
  BY DEF RateCheck, BeginDiagnosis, EndDiagnosis, Consider, CountAutoRun, SettleAutoRun,
         StartAutoRun, FinishAutoRun, grantVars
<1>1. handler \in [Job -> Thread] /\ jobs' = jobs /\ authority' = authority /\ runs' = runs
  BY <1>0 DEF TypeOK, storeVars
<1>2. RowFits(j) /\ HandlerFits(j)
  BY DEF Fits
<1>3. RowFits(j)'
  BY <1>0, <1>1, <1>2 DEF RowFits, Counted, ApprovedTuple, HostOf
<1>4. ASSUME Ends(j)
      PROVE  HandlerFits(j)'
  BY <1>1, <1>4, ThreadEnds, NoThreadFits
<1>5. ASSUME RateCheck(j) \/ BeginDiagnosis(j)
      PROVE  HandlerFits(j)'
  <2>1. jobs[j].state \in {"open", "closed"}
    BY <1>2, <1>5 DEF RateCheck, BeginDiagnosis, HandlerFits, Asking
  <2>2. ASSUME NEW place \in {"queued", "diagnosing"}, Goes(j, place)
        PROVE  HandlerFits(j)'
    <3>1. handler'[j].at = place
      BY <1>1, <2>2, ThreadGoes
    <3> QED BY <1>1, <2>1, <3>1 DEF HandlerFits, Asking, AutoRunning
  <2>3. Ends(j) \/ Goes(j, "queued") \/ Goes(j, "diagnosing")
    BY <1>5 DEF RateCheck, BeginDiagnosis
  <2> QED BY <1>4, <2>2, <2>3
<1>6. ASSUME EndDiagnosis(j)
      PROVE  HandlerFits(j)'
  <2>1. PICK raw \in RawProposal :
          handler' = [handler EXCEPT ![j] = [at |-> "diagnosed",
                                             verb |-> Accepted(jobs[j].problem, raw)]]
    BY <1>6 DEF EndDiagnosis
  <2>2. /\ handler'[j].at = "diagnosed"
        /\ handler'[j].verb = Accepted(jobs[j].problem, raw)
    BY <1>1, <2>1
  <2>3. jobs[j].state \in {"open", "closed"}
    BY <1>2, <1>6 DEF EndDiagnosis, HandlerFits, Asking
  <2> QED BY <1>1, <2>2, <2>3, AcceptedOnHost DEF HandlerFits, Asking, AutoRunning
<1>7. ASSUME Consider(j)
      PROVE  HandlerFits(j)'
  <2>1. /\ jobs[j].state \in {"open", "closed"}
        /\ handler[j].verb # NoVerb => OnHost(jobs[j].problem, handler[j].verb)
    BY <1>2, <1>7 DEF Consider, HandlerFits, Asking
  <2>2. ASSUME handler[j].verb # NoVerb, Goes(j, "asking")
        PROVE  HandlerFits(j)'
    <3>1. handler'[j].at = "asking" /\ handler'[j].verb = handler[j].verb
      BY <1>1, <2>2, ThreadGoes
    <3> QED BY <1>1, <2>1, <2>2, <3>1 DEF HandlerFits, Asking, AutoRunning
  <2>3. ASSUME handler[j].verb # NoVerb, Goes(j, "granted"),
               CheckAuto(<<HostOf(j), handler[j].verb>>)
        PROVE  HandlerFits(j)'
    <3>1. handler'[j].at = "granted" /\ handler'[j].verb = handler[j].verb
      BY <1>1, <2>3, ThreadGoes
    <3>2. Learnable(jobs[j].problem)
      BY <2>3 DEF CheckAuto, Learnable, HostOf
    <3> QED BY <1>1, <2>1, <2>3, <3>1, <3>2 DEF HandlerFits, Asking, AutoRunning
  <2>4. CASE CheckAuto(<<HostOf(j), handler[j].verb>>)
    BY <1>4, <1>7, <2>3, <2>4 DEF Consider
  <2>5. CASE ~CheckAuto(<<HostOf(j), handler[j].verb>>)
    BY <1>4, <1>7, <2>2, <2>5 DEF Consider
  <2> QED BY <2>4, <2>5
<1>8. ASSUME CountAutoRun(j)
      PROVE  HandlerFits(j)'
  <2>1. /\ handler[j].at = "counting" /\ handler'[j].at = "autoStarting"
        /\ handler'[j].verb = handler[j].verb
    BY <1>1, <1>8, ThreadGoes DEF CountAutoRun
  <2>2. jobs[j].verb = handler[j].verb
    BY <1>2, <2>1 DEF HandlerFits, AutoRunning
  <2>3. [job |-> j, tuple |-> ApprovedTuple(j), at |-> now] \in autoRuns'
    BY <1>8, <2>2 DEF CountAutoRun, StartAutoRun, ApprovedTuple
  <2>4. Counted(j)'
    BY <1>1, <2>3 DEF Counted, ApprovedTuple, HostOf
  <2> QED BY <1>1, <1>2, <2>1, <2>4 DEF HandlerFits, Asking, AutoRunning
<1>9. ASSUME SettleAutoRun(j)
      PROVE  HandlerFits(j)'
  BY <1>4, <1>9 DEF SettleAutoRun
<1> QED BY <1>3, <1>5, <1>6, <1>7, <1>8, <1>9 DEF Fits

(* auto_approve() and propose(): the verb of the thread becomes the row's. *)
LEMMA ProposalFits ==
  ASSUME TypeOK, RunsFollowState, NEW j \in Job, Fits(j), ApproveByGrant(j) \/ AskPhone(j)
  PROVE  Fits(j)'
<1>1. /\ handler \in [Job -> Thread] /\ jobs[j] \in Row /\ jobs \in [Job -> Row]
      /\ authority \in [Job -> {"nobody", "phone", "grant"}]
  BY DEF TypeOK, StoreTypeOK
<1>2. RowFits(j) /\ HandlerFits(j)
  BY DEF Fits
<1>3. /\ autoRuns' = autoRuns /\ runs' = runs
      /\ jobs[j].state = "open" => runs[j] = 0 /\ authority[j] = "nobody"
  BY <1>2 DEF ApproveByGrant, AskPhone, AutoApprove, Propose, storeVars, grantVars,
              RunsFollowState, State, RowFits
<1>4. ASSUME UNCHANGED storeVars
      PROVE  RowFits(j)'
  BY <1>2, <1>3, <1>4 DEF storeVars, RowFits, Counted, ApprovedTuple, HostOf
<1>5. ASSUME ApproveByGrant(j)
      PROVE  Fits(j)'
  <2>1. /\ handler[j].at = "granted" /\ handler[j].verb # NoVerb
        /\ jobs[j].state \in {"open", "closed"}
        /\ OnHost(jobs[j].problem, handler[j].verb) /\ Learnable(jobs[j].problem)
    BY <1>2, <1>5 DEF ApproveByGrant, HandlerFits, Asking
  <2>2. ASSUME AutoApprove(j, handler[j].verb), Goes(j, "counting")
        PROVE  Fits(j)'
    <3>1. handler'[j].at = "counting" /\ handler'[j].verb = handler[j].verb
      BY <1>1, <2>2, ThreadGoes
    <3>2. /\ jobs'[j].state = "approved" /\ jobs'[j].verb = handler[j].verb
          /\ jobs'[j].problem = jobs[j].problem /\ authority'[j] = "grant" /\ runs'[j] = 0
      BY <1>1, <1>3, <2>2 DEF AutoApprove, Row
    <3>3. RowFits(j)'
      BY <2>1, <3>2 DEF RowFits
    <3>4. HandlerFits(j)'
      BY <2>1, <3>1, <3>2 DEF HandlerFits, Asking, AutoRunning
    <3> QED BY <3>3, <3>4 DEF Fits
  <2>3. ASSUME UNCHANGED storeVars, Goes(j, "asking")
        PROVE  Fits(j)'
    <3>1. handler'[j].at = "asking" /\ handler'[j].verb = handler[j].verb
      BY <1>1, <2>3, ThreadGoes
    <3>2. HandlerFits(j)'
      BY <2>1, <2>3, <3>1 DEF storeVars, HandlerFits, Asking, AutoRunning
    <3> QED BY <1>4, <2>3, <3>2 DEF Fits
  <2> QED BY <1>5, <2>2, <2>3 DEF ApproveByGrant
<1>6. ASSUME AskPhone(j)
      PROVE  Fits(j)'
  <2>1. handler[j].verb # NoVerb /\ OnHost(jobs[j].problem, handler[j].verb)
    BY <1>2, <1>6 DEF AskPhone, HandlerFits
  <2>2. ASSUME Propose(j, handler[j].verb)
        PROVE  RowFits(j)'
    <3>1. /\ jobs'[j].state = "pending" /\ jobs'[j].verb = handler[j].verb
          /\ jobs'[j].problem = jobs[j].problem /\ authority'[j] = "nobody"
      BY <1>1, <1>3, <2>2 DEF Propose, Row
    <3> QED BY <2>1, <3>1 DEF RowFits
  <2>3. RowFits(j)'
    BY <1>4, <1>6, <2>2 DEF AskPhone, storeVars
  <2>4. HandlerFits(j)'
    BY <1>1, <1>6, ThreadEnds, NoThreadFits DEF AskPhone
  <2> QED BY <2>3, <2>4 DEF Fits
<1> QED BY <1>5, <1>6

(* run_execution: the row is started once, by the thread that holds it,    *)
(* and may be closed by a recovery under it.                               *)
LEMMA StartRunFits ==
  ASSUME TypeOK, RunsFollowState, NEW j \in Job, Fits(j), StartRun(j)
  PROVE  Fits(j)'
<1>1. /\ handler \in [Job -> Thread] /\ jobs[j] \in Row /\ jobs \in [Job -> Row]
      /\ runs \in [Job -> Nat]
  BY DEF TypeOK, StoreTypeOK
<1>2. RowFits(j) /\ HandlerFits(j)
  BY DEF Fits
<1>3. /\ autoRuns' = autoRuns /\ authority' = authority
      /\ handler[j].at \in {"starting", "autoStarting"}
      /\ jobs[j].state \in {"approved", "closed"}
  BY <1>2 DEF StartRun, StartExecution, storeVars, grantVars, HandlerFits
<1>4. ASSUME StartExecution(j)
      PROVE  Fits(j)'
  <2>1. /\ jobs[j].state = "approved" /\ runs[j] = 0 /\ jobs[j].verb # NoVerb
    BY <1>2, <1>4 DEF StartExecution, RunsFollowState, State, RowFits
  <2>2. /\ jobs'[j].state = "executing" /\ jobs'[j].verb = jobs[j].verb
        /\ jobs'[j].problem = jobs[j].problem /\ runs'[j] = 1
    BY <1>1, <1>4, <2>1 DEF StartExecution, Row
  <2>3. Counted(j)' = Counted(j)
    BY <1>3, <2>2 DEF Counted, ApprovedTuple, HostOf
  <2>4. CASE handler[j].at = "starting"
    <3>1. authority[j] = "phone"
      BY <1>2, <2>4 DEF HandlerFits
    <3>2. Goes(j, "running")
      BY <2>1, <2>4 DEF StartRun
    <3>3. handler'[j].at = "running" /\ handler'[j].verb = handler[j].verb
      BY <1>1, <3>2, ThreadGoes
    <3>4. RowFits(j)'
      BY <1>2, <1>3, <2>1, <2>2, <3>1 DEF RowFits
    <3>5. HandlerFits(j)'
      BY <1>3, <2>1, <2>2, <3>1, <3>3 DEF HandlerFits, Asking, AutoRunning
    <3> QED BY <3>4, <3>5 DEF Fits
  <2>5. CASE handler[j].at = "autoStarting"
    <3>1. /\ authority[j] = "grant" /\ Counted(j)
          /\ jobs[j].verb = handler[j].verb /\ handler[j].verb # NoVerb
      BY <1>2, <2>5 DEF HandlerFits, AutoRunning
    <3>2. Goes(j, "autoRunning")
      BY <2>1, <2>5 DEF StartRun
    <3>3. handler'[j].at = "autoRunning" /\ handler'[j].verb = handler[j].verb
      BY <1>1, <3>2, ThreadGoes
    <3>4. RowFits(j)'
      BY <1>2, <1>3, <2>1, <2>2, <2>3, <3>1 DEF RowFits
    <3>5. HandlerFits(j)'
      BY <1>3, <2>1, <2>2, <2>3, <3>1, <3>3 DEF HandlerFits, Asking, AutoRunning
    <3> QED BY <3>4, <3>5 DEF Fits
  <2> QED BY <1>3, <2>4, <2>5
<1>5. ASSUME jobs[j].state # "approved", UNCHANGED storeVars
      PROVE  Fits(j)'
  <2>1. RowFits(j)' /\ jobs[j].state = "closed"
    BY <1>2, <1>3, <1>5 DEF storeVars, RowFits, Counted, ApprovedTuple, HostOf
  <2>2. CASE handler[j].at = "starting"
    <3>1. Ends(j)
      BY <1>5, <2>2 DEF StartRun, StartExecution
    <3> QED BY <1>1, <2>1, <3>1, ThreadEnds, NoThreadFits DEF Fits
  <2>3. CASE handler[j].at = "autoStarting"
    <3>1. Goes(j, "autoBad")
      BY <1>5, <2>3 DEF StartRun, StartExecution
    <3>2. handler'[j].at = "autoBad" /\ handler'[j].verb = handler[j].verb
      BY <1>1, <3>1, ThreadGoes
    <3>3. Counted(j)' = Counted(j)
      BY <1>3, <1>5 DEF storeVars, Counted, ApprovedTuple, HostOf
    <3>4. HandlerFits(j)'
      BY <1>2, <1>3, <1>5, <2>1, <2>3, <3>2, <3>3 DEF storeVars, HandlerFits, Asking, AutoRunning
    <3> QED BY <2>1, <3>4 DEF Fits
  <2> QED BY <1>3, <2>2, <2>3
<1> QED BY <1>4, <1>5 DEF StartRun

LEMMA FinishRunFits ==
  ASSUME TypeOK, NEW j \in Job, Fits(j), NEW ok \in BOOLEAN, FinishRun(j, ok)
  PROVE  Fits(j)'
<1> DEFINE reason == IF ok THEN "done" ELSE "failed"
<1>1. handler \in [Job -> Thread] /\ jobs[j] \in Row /\ jobs \in [Job -> Row]
  BY DEF TypeOK, StoreTypeOK
<1>2. RowFits(j) /\ HandlerFits(j)
  BY DEF Fits
<1>3. /\ autoRuns' = autoRuns /\ authority' = authority /\ runs' = runs
      /\ handler[j].at \in {"running", "autoRunning"}
  BY DEF FinishRun, CloseUnlessClosed, Close, storeVars, grantVars
<1>4. /\ runs[j] = 1
      /\ \/ jobs[j].state = "executing"
         \/ jobs[j].state = "closed" /\ jobs[j].reason = "recovered"
  BY <1>2, <1>3 DEF HandlerFits
<1>5. CloseUnlessClosed(j, reason)
  BY DEF FinishRun
<1>6. /\ jobs'[j].state = "closed" /\ jobs'[j].reason \in {reason, "recovered"}
      /\ jobs'[j].problem = jobs[j].problem /\ jobs'[j].verb = jobs[j].verb
  <2>1. CASE Close(j, reason)
    BY <1>1, <2>1 DEF Close, Ended, Row
  <2>2. CASE jobs[j].state = "closed" /\ jobs' = jobs
    BY <1>4, <2>2
  <2> QED BY <1>5, <2>1, <2>2 DEF CloseUnlessClosed, storeVars
<1> HIDE DEF reason
<1>7. Counted(j)' = Counted(j)
  BY <1>3, <1>6 DEF Counted, ApprovedTuple, HostOf
<1>8. RowFits(j)'
  BY <1>2, <1>3, <1>4, <1>6, <1>7 DEF RowFits
<1>9. CASE handler[j].at = "autoRunning"
  <2>1. /\ authority[j] = "grant" /\ Counted(j)
        /\ jobs[j].verb = handler[j].verb /\ handler[j].verb # NoVerb
    BY <1>2, <1>9 DEF HandlerFits, AutoRunning
  <2>2. ASSUME NEW place \in {"autoOk", "autoBad"}, Goes(j, place)
        PROVE  HandlerFits(j)'
    <3>1. handler'[j].at = place /\ handler'[j].verb = handler[j].verb
      BY <1>1, <2>2, ThreadGoes
    <3> QED BY <1>3, <1>6, <1>7, <2>1, <3>1 DEF HandlerFits, Asking, AutoRunning
  <2>3. Goes(j, IF ok THEN "autoOk" ELSE "autoBad")
    BY <1>9 DEF FinishRun
  <2> QED BY <1>8, <2>2, <2>3 DEF Fits
<1>10. CASE handler[j].at = "running"
  <2>1. authority[j] = "phone" /\ jobs[j].verb # NoVerb
    BY <1>2, <1>10 DEF HandlerFits
  <2>2. CASE ok
    <3>1. Goes(j, "recording") /\ reason = "done"
      BY <1>10, <2>2 DEF FinishRun, reason
    <3>2. handler'[j].at = "recording"
      BY <1>1, <3>1, ThreadGoes
    <3>3. Earned(j)'
      BY <1>3, <1>4, <1>6, <2>1, <3>1 DEF Earned
    <3>4. HandlerFits(j)'
      BY <1>6, <2>1, <3>2, <3>3 DEF HandlerFits, Asking, AutoRunning
    <3> QED BY <1>8, <3>4 DEF Fits
  <2>3. CASE ~ok
    <3>1. Ends(j)
      BY <1>10, <2>3 DEF FinishRun
    <3> QED BY <1>1, <1>8, <3>1, ThreadEnds, NoThreadFits DEF Fits
  <2> QED BY <2>2, <2>3
<1> QED BY <1>3, <1>9, <1>10

(* handle_approved, after its run: only the tables of grants.py change. *)
LEMMA ApprovedFits ==
  ASSUME TypeOK, NEW j \in Job, Fits(j), ApprovedStep(j)
  PROVE  Fits(j)'
<1>1. handler \in [Job -> Thread]
  BY DEF TypeOK
<1>2. RowFits(j) /\ HandlerFits(j)
  BY DEF Fits
<1>3. UNCHANGED storeVars /\ autoRuns' = autoRuns
  BY DEF ApprovedStep, RecordApproval, InsertApproval, Remember, InsertGrant, grantVars
<1>4. RowFits(j)'
  BY <1>2, <1>3 DEF storeVars, RowFits, Counted, ApprovedTuple, HostOf
<1>5. ASSUME Ends(j)
      PROVE  HandlerFits(j)'
  BY <1>1, <1>5, ThreadEnds, NoThreadFits
<1>6. ASSUME handler[j].at = "recording", ~IsProtected(HostOf(j)), Goes(j, "inserting")
      PROVE  HandlerFits(j)'
  <2>1. Earned(j) /\ jobs[j].verb # NoVerb /\ Learnable(jobs[j].problem)
    BY <1>2, <1>6 DEF HandlerFits, Learnable, HostOf
  <2>2. handler'[j].at = "inserting"
    BY <1>1, <1>6, ThreadGoes
  <2> QED BY <1>3, <2>1, <2>2 DEF storeVars, Earned, HandlerFits, Asking, AutoRunning
<1> QED BY <1>4, <1>5, <1>6 DEF ApprovedStep, RecordApproval, InsertApproval, Fits

LEMMA IdleFits ==
  ASSUME NEW j \in Job, handler'[j].at = "none"
  PROVE  HandlerFits(j)'
  BY DEF HandlerFits, Asking, AutoRunning

(* A row that waits for a tap, or that a tap or the sweeper ended, has no  *)
(* handler thread.                                                         *)
LEMMA WaitingIsIdle ==
  ASSUME TypeOK, NEW j \in Job, Fits(j),
         jobs[j].state \in {"pending", "denied", "expired"}
  PROVE  handler[j].at = "none"
<1>1. handler[j].at \in Asking \union AutoRunning \union ManualRunning \union {"none"}
  BY DEF TypeOK, Thread, NoThread
<1> QED BY <1>1 DEF Fits, HandlerFits, Earned, Asking, AutoRunning, ManualRunning

(* A thread works on the row of its own job only. *)
LEMMA HandlerStepsApart ==
  ASSUME TypeOK, NEW j \in Job, NEW k \in Job, k # j, HandlerStep(j)
  PROVE  /\ jobs'[k] = jobs[k] /\ handler'[k] = handler[k]
         /\ authority'[k] = authority[k] /\ runs'[k] = runs[k]
         /\ autoRuns \subseteq autoRuns'
<1> USE DEF TypeOK, StoreTypeOK, Goes, Ends
<1>1. CASE RateCheck(j) \/ BeginDiagnosis(j) \/ EndDiagnosis(j) \/ Consider(j)
  BY <1>1 DEF RateCheck, BeginDiagnosis, EndDiagnosis, Consider, storeVars, grantVars
<1>2. CASE CountAutoRun(j) \/ SettleAutoRun(j)
  BY <1>2 DEF CountAutoRun, SettleAutoRun, StartAutoRun, FinishAutoRun, storeVars
<1>3. CASE ApproveByGrant(j) \/ AskPhone(j)
  BY <1>3 DEF ApproveByGrant, AskPhone, AutoApprove, Propose, storeVars, grantVars
<1>4. CASE RunStep(j)
  BY <1>4 DEF RunStep, StartRun, StartExecution, FinishRun, CloseUnlessClosed, Close,
              storeVars, grantVars
<1>5. CASE ApprovedStep(j)
  BY <1>5 DEF ApprovedStep, RecordApproval, InsertApproval, Remember, InsertGrant,
              storeVars, grantVars
<1> QED BY <1>1, <1>2, <1>3, <1>4, <1>5 DEF HandlerStep, NewJobStep

LEMMA HandlerStepFits ==
  ASSUME TypeOK, RunsFollowState, NEW j \in Job, NEW k \in Job, Fits(j), Fits(k), HandlerStep(j)
  PROVE  Fits(k)'
<1>1. CASE k # j
  BY <1>1, HandlerStepsApart, JobUntouched DEF Fits
<1>2. ASSUME k = j
      PROVE  Fits(j)'
  BY DiagnosisFits, ProposalFits, StartRunFits, FinishRunFits, ApprovedFits
     DEF HandlerStep, NewJobStep, RunStep
<1> QED BY <1>1, <1>2

(* An alert opens a row that nothing was written to before. *)
LEMMA AlertFits ==
  ASSUME TypeOK, NEW p \in Problem, NEW j \in Job, NEW k \in Job, Fits(j), Fits(k), Alert(p, j)
  PROVE  Fits(k)'
<1>0. /\ handler \in [Job -> Thread] /\ jobs \in [Job -> Row] /\ Goes(j, "spawned")
      /\ authority' = authority /\ runs' = runs /\ autoRuns' = autoRuns
  BY DEF TypeOK, StoreTypeOK, Alert, OpenJob, grantVars
<1>1. CASE k # j
  <2>1. handler'[k] = handler[k] /\ jobs'[k] = jobs[k]
    BY <1>0, <1>1, ThreadGoes DEF Alert, OpenJob
  <2> QED BY <1>0, <2>1, JobUntouched DEF Fits
<1>2. ASSUME k = j
      PROVE  Fits(j)'
  <2>1. jobs'[j].state = "open" /\ jobs'[j].verb = NoVerb /\ jobs[j].state = "absent"
    BY <1>0 DEF Alert, OpenJob, NoRow
  <2>2. handler'[j].at = "spawned"
    BY <1>0, ThreadGoes
  <2>3. authority[j] = "nobody"
    BY <2>1 DEF Fits, RowFits
  <2>4. RowFits(j)'
    BY <1>0, <2>1, <2>3 DEF RowFits
  <2>5. HandlerFits(j)'
    BY <2>1, <2>2 DEF HandlerFits, Asking, AutoRunning
  <2> QED BY <2>4, <2>5 DEF Fits
<1> QED BY <1>1, <1>2

(* A caller that closes a job finds it closed already, or in the state it  *)
(* left it in: with no handler, unless a recovery closes it.               *)
LEMMA ClosingFits ==
  ASSUME TypeOK, NEW j \in Job, NEW k \in Job, Fits(j), Fits(k), NEW reason \in Reason,
         CloseUnlessClosed(j, reason), handler' = handler, autoRuns' = autoRuns,
         reason = "recovered" \/ jobs[j].state \in {"denied", "expired", "closed"}
  PROVE  Fits(k)'
<1>1. /\ jobs \in [Job -> Row] /\ authority' = authority /\ runs' = runs /\ StoreTypeOK
  BY DEF TypeOK, StoreTypeOK, CloseUnlessClosed, Close, storeVars
<1>2. CASE jobs'[k] = jobs[k]
  BY <1>1, <1>2, JobUntouched DEF Fits
<1>3. CASE jobs'[k] # jobs[k]
  <2>1. /\ k = j /\ jobs[j].state \notin {"absent", "closed"}
        /\ jobs'[j] = Ended(jobs[j], reason)
    BY <1>1, <1>3 DEF CloseUnlessClosed, Close, storeVars
  <2>2. reason = "recovered" \/ handler[j].at = "none"
    BY <2>1, WaitingIsIdle
  <2> QED BY <1>1, <2>1, <2>2, RowCloses DEF Fits
<1> QED BY <1>2, <1>3

LEMMA ExpiringFits ==
  ASSUME TypeOK, NEW j \in Job, NEW k \in Job, Fits(j), Fits(k),
         Expire(j), handler' = handler, autoRuns' = autoRuns
  PROVE  Fits(k)'
<1>1. jobs \in [Job -> Row] /\ authority' = authority /\ runs' = runs
  BY DEF TypeOK, StoreTypeOK, Expire
<1>2. CASE k # j
  BY <1>1, <1>2, JobUntouched DEF Fits, Expire
<1>3. ASSUME k = j
      PROVE  Fits(j)'
  <2>1. /\ jobs[j].state = "pending" /\ jobs'[j].state = "expired"
        /\ jobs'[j].verb = jobs[j].verb /\ jobs'[j].problem = jobs[j].problem
    BY <1>1 DEF Expire, Row
  <2>2. handler'[j].at = "none" /\ authority[j] = "nobody"
    BY <2>1, WaitingIsIdle DEF Fits, RowFits
  <2>3. RowFits(j)'
    BY <1>1, <2>1, <2>2 DEF Fits, RowFits
  <2> QED BY <2>2, <2>3, IdleFits DEF Fits
<1> QED BY <1>2, <1>3

(* A tap hands an idle proposal to a thread, or to nobody. *)
LEMMA DecidingFits ==
  ASSUME TypeOK, NEW t \in Tap, TapDecide(t), NEW j \in Job, j = taps[t].job,
         NEW k \in Job, Fits(j), Fits(k)
  PROVE  Fits(k)'
<1>0. /\ handler \in [Job -> Thread] /\ jobs \in [Job -> Row]
      /\ authority \in [Job -> {"nobody", "phone", "grant"}]
      /\ autoRuns' = autoRuns /\ runs' = runs
  BY DEF TypeOK, StoreTypeOK, TapDecide, Claim, storeVars, grantVars
<1>1. taps[t].decision \in Decision
  BY DEF TypeOK, TapDecide, TapThread, NoTap
<1>2. CASE UNCHANGED <<storeVars, handler>>
  BY <1>0, <1>2, JobUntouched DEF Fits, storeVars
<1>3. ASSUME NEW at \in 0..now, Claim(j, taps[t].decision, at)
      PROVE  Fits(k)'
  <2>1. CASE k # j
    <3>1. handler'[k] = handler[k]
      BY <1>0, <1>1, <1>3, <2>1 DEF TapDecide, Goes
    <3> QED BY <1>0, <1>3, <2>1, <3>1, JobUntouched DEF Fits, Claim
  <2>2. ASSUME k = j
        PROVE  Fits(j)'
    <3>1. /\ jobs[j].state = "pending" /\ jobs'[j].state = taps[t].decision
          /\ jobs'[j].verb = jobs[j].verb /\ jobs'[j].problem = jobs[j].problem
      BY <1>0, <1>1, <1>3 DEF Claim, Row
    <3>2. /\ handler[j].at = "none" /\ authority[j] = "nobody"
          /\ jobs[j].verb # NoVerb
      BY <3>1, WaitingIsIdle DEF Fits, RowFits
    <3>3. CASE taps[t].decision = "approved"
      <4>1. Goes(j, "starting") /\ authority'[j] = "phone"
        BY <1>0, <1>1, <1>3, <3>1, <3>3 DEF TapDecide, Claim
      <4>2. handler'[j].at = "starting"
        BY <1>0, <1>1, <4>1, ThreadGoes
      <4>3. RowFits(j)'
        BY <3>1, <3>2, <3>3, <4>1 DEF Fits, RowFits
      <4>4. HandlerFits(j)'
        BY <3>1, <3>2, <3>3, <4>1, <4>2 DEF HandlerFits, Asking, AutoRunning
      <4> QED BY <4>3, <4>4 DEF Fits
    <3>4. CASE taps[t].decision = "denied"
      <4>1. handler' = handler /\ authority' = authority
        BY <1>0, <1>1, <1>3, <3>1, <3>4 DEF TapDecide, Claim
      <4>2. RowFits(j)'
        BY <3>1, <3>2, <3>4, <4>1 DEF Fits, RowFits
      <4> QED BY <1>1, <3>2, <4>1, <4>2, IdleFits DEF Fits
    <3> QED BY <1>1, <3>3, <3>4 DEF Decision
  <2> QED BY <2>1, <2>2
<1> QED BY <1>2, <1>3 DEF TapDecide

(* Rows and threads stay in order whichever thread moves, dies, or all of  *)
(* them with the service.                                                  *)
LEMMA FitsKept ==
  ASSUME ServiceInv, [Next]_vars, NEW k \in Job
  PROVE  Fits(k)'
<1>0. /\ TypeOK /\ RunsFollowState /\ \A j \in Job : Fits(j)
      /\ handler \in [Job -> Thread] /\ recov \in [Problem -> SUBSET Job]
      /\ taps \in [Tap -> TapThread] /\ sweep \in [due : SUBSET Job, marked : SUBSET Job]
  BY DEF ServiceInv, JobInv, Fits, TypeOK
<1>1. ASSUME UNCHANGED storeVars, handler' = handler, autoRuns' = autoRuns
      PROVE  Fits(k)'
  BY <1>0, <1>1, JobUntouched DEF Fits, storeVars
<1>2. ASSUME UNCHANGED storeVars, autoRuns' = autoRuns, handler'[k] \in {handler[k], NoThread}
      PROVE  Fits(k)'
  <2>1. CASE handler'[k] = handler[k]
    BY <1>0, <1>2, <2>1, JobUntouched DEF Fits, storeVars
  <2>2. CASE handler'[k] = NoThread
    <3>1. RowFits(k)'
      BY <1>0, <1>2 DEF Fits, RowFits, storeVars, Counted, ApprovedTuple, HostOf
    <3> QED BY <2>2, <3>1, NoThreadFits DEF Fits
  <2> QED BY <1>2, <2>1, <2>2
<1>3. ASSUME NEW p \in Problem, NEW j \in Job, Alert(p, j) \/ RecoverClose(p, j)
      PROVE  Fits(k)'
  <2>1. "recovered" \in Reason
    BY DEF Reason
  <2>2. CASE RecoverClose(p, j)
    BY <1>0, <2>1, <2>2, ClosingFits DEF RecoverClose, grantVars
  <2> QED BY <1>0, <1>3, <2>2, AlertFits
<1>4. ASSUME NEW j \in Job, HandlerStep(j)
      PROVE  Fits(k)'
  BY <1>0, <1>4, HandlerStepFits
<1>5. ASSUME NEW t \in Tap, TapStep(t)
      PROVE  Fits(k)'
  <2>1. taps[t].job \in Job /\ autoRuns' = autoRuns
    BY <1>0, <1>5 DEF TapStep, TapDecide, TapLate, TapDenied, TapThread, NoTap, grantVars
  <2>2. CASE TapDecide(t)
    BY <1>0, <2>1, <2>2, DecidingFits
  <2>3. CASE TapLate(t)
    BY <1>0, <1>1, <2>1, <2>3, ExpiringFits DEF TapLate
  <2>4. CASE TapDenied(t)
    <3>1. jobs[taps[t].job].state \in {"denied", "closed"} /\ "denied" \in Reason
      BY <2>1, <2>4 DEF TapDenied, ServiceInv, JobInv, OthersFit, Reason
    <3> QED BY <1>0, <2>1, <2>4, <3>1, ClosingFits DEF TapDenied
  <2> QED BY <1>5, <2>2, <2>3, <2>4 DEF TapStep
<1>6. CASE SweeperStep
  <2>1. CASE SweepSelect
    BY <1>1, <2>1 DEF SweepSelect, grantVars
  <2>2. ASSUME NEW j \in Job, SweepMark(j)
        PROVE  Fits(k)'
    BY <1>0, <1>1, <2>2, ExpiringFits DEF SweepMark, grantVars
  <2>3. ASSUME NEW j \in Job, SweepClose(j)
        PROVE  Fits(k)'
    <3>1. jobs[j].state \in {"expired", "closed"} /\ "expired" \in Reason
      BY <2>3 DEF SweepClose, ServiceInv, JobInv, OthersFit, Reason
    <3> QED BY <1>0, <2>3, <3>1, ClosingFits DEF SweepClose, grantVars
  <2> QED BY <1>6, <2>1, <2>2, <2>3 DEF SweeperStep
<1>7. CASE ThreadDies \/ Crash
  <2>1. handler'[k] \in {handler[k], NoThread}
    BY <1>0, <1>7 DEF ThreadDies, Crash, Ends
  <2> QED BY <1>2, <1>7, <2>1 DEF ThreadDies, Crash, grantVars
<1>8. CASE Restart
  <2>1. /\ handler' = handler /\ autoRuns' = autoRuns /\ handler[k].at = "none"
        /\ authority' = authority /\ runs' = runs /\ StoreTypeOK /\ "interrupted" \in Reason
    BY <1>0, <1>8 DEF Restart, CloseInterrupted, threadVars, grantVars, ServiceInv, DownInv,
                      NoThread, TypeOK, Reason
  <2>2. CASE jobs'[k] = jobs[k]
    BY <1>0, <2>1, <2>2, JobUntouched DEF Fits
  <2>3. CASE jobs'[k] # jobs[k]
    <3>1. jobs[k].state = "executing" /\ jobs'[k] = Ended(jobs[k], "interrupted")
      BY <1>8, <2>3 DEF Restart, CloseInterrupted
    <3> QED BY <1>0, <2>1, <3>1, RowCloses DEF Fits
  <2> QED BY <2>2, <2>3
<1>9. CASE TimePasses
  BY <1>0, <1>9, JobUntouched DEF TimePasses, Tick, threadVars, grantVars, Fits
<1>10. CASE UNCHANGED vars
  BY <1>1, <1>10 DEF vars, threadVars, grantVars
<1>11. ASSUME NEW p \in Problem, RecoverSelect(p)
       PROVE  Fits(k)'
  BY <1>1, <1>11 DEF RecoverSelect, grantVars
<1>12. ASSUME NEW t \in Tap, NEW j \in Job, NEW d \in Decision, TapRead(t, j, d)
       PROVE  Fits(k)'
  BY <1>1, <1>12 DEF TapRead, grantVars
<1>13. ASSUME NEW g \in Tuple, RevokeTap(g)
       PROVE  Fits(k)'
  BY <1>1, <1>13 DEF RevokeTap, Revoke, threadVars
<1> QED
  BY <1>3, <1>4, <1>5, <1>6, <1>7, <1>8, <1>9, <1>10, <1>11, <1>12, <1>13 DEF Next, Serving

(* What a thread remembers of a row it does not lock stays true of it. *)
LEMMA RowsStayPut ==
  ASSUME StoreTypeOK, [StoreNext]_storeVars, NEW k \in Job
  PROVE  /\ jobs[k].state \in {"denied", "closed"} => jobs'[k].state \in {"denied", "closed"}
         /\ jobs[k].state \in {"expired", "closed"} => jobs'[k].state \in {"expired", "closed"}
         /\ jobs[k].state # "absent" => jobs'[k].problem = jobs[k].problem
<1> USE DEF StoreTypeOK
<1>1. CASE jobs' = jobs
  BY <1>1
<1>2. ASSUME NEW p \in Problem, NEW j \in Job, OpenJob(p, j), j = k
      PROVE  jobs[k].state = "absent"
  BY <1>2 DEF OpenJob
<1>3. ASSUME NEW j \in Job, j # k,
             \/ \E p \in Problem : OpenJob(p, j)
             \/ \E v \in Verb : Propose(j, v) \/ AutoApprove(j, v)
             \/ \E d \in Decision : \E at \in 0..now : Claim(j, d, at)
             \/ Expire(j) \/ StartExecution(j)
             \/ \E reason \in Reason \ {"none"} : Close(j, reason)
      PROVE  jobs'[k] = jobs[k]
  BY <1>3 DEF OpenJob, Propose, AutoApprove, Claim, Expire, StartExecution, Close
<1>4. ASSUME NEW v \in Verb, Propose(k, v) \/ AutoApprove(k, v)
      PROVE  jobs[k].state = "open" /\ jobs'[k].problem = jobs[k].problem
  <2>1. CASE Propose(k, v)
    BY <2>1 DEF Propose, Row
  <2>2. CASE AutoApprove(k, v)
    BY <2>2 DEF AutoApprove, Row
  <2> QED BY <1>4, <2>1, <2>2
<1>5. ASSUME NEW d \in Decision, NEW at \in 0..now, Claim(k, d, at)
      PROVE  jobs[k].state = "pending" /\ jobs'[k].problem = jobs[k].problem
  BY <1>5 DEF Claim, Row
<1>6. ASSUME Expire(k) \/ StartExecution(k)
      PROVE  jobs[k].state \in {"pending", "approved"} /\ jobs'[k].problem = jobs[k].problem
  BY <1>6 DEF Expire, StartExecution, Row
<1>7. ASSUME NEW reason \in Reason \ {"none"}, Close(k, reason)
      PROVE  jobs'[k].state = "closed" /\ jobs'[k].problem = jobs[k].problem
  BY <1>7 DEF Close, Ended, Row
<1>8. ASSUME CloseInterrupted
      PROVE  jobs'[k].problem = jobs[k].problem
               /\ (jobs'[k].state = jobs[k].state \/ jobs[k].state = "executing")
  BY <1>8 DEF CloseInterrupted, Ended, Row
<1> QED BY <1>1, <1>2, <1>3, <1>4, <1>5, <1>6, <1>7, <1>8 DEF StoreNext, storeVars, Tick

LEMMA HandlersKeepToThemselves ==
  ASSUME NEW j \in Job, HandlerStep(j)
  PROVE  UNCHANGED <<taps, recov, sweep>>
  BY DEF HandlerStep, NewJobStep, RunStep, ApprovedStep, RateCheck, BeginDiagnosis, EndDiagnosis,
         Consider, ApproveByGrant, CountAutoRun, AskPhone, SettleAutoRun, StartRun, FinishRun,
         RecordApproval, InsertApproval

(* What the taps, the recoveries and the sweeper see of a step. *)
LEMMA OtherThreadsMove ==
  ASSUME TypeOK, [Next]_vars
  PROVE  /\ \A t \in Tap : \/ taps'[t] \in {taps[t], NoTap}
                            \/ TapDecide(t)
                            \/ \E j \in Job, d \in Decision : TapRead(t, j, d)
         /\ sweep'.marked \subseteq sweep.marked \/ \E j \in Job : SweepMark(j)
         /\ \A p \in Problem : \A k \in recov'[p] : k \in recov[p] \/ jobs[k].problem = p
<1> USE DEF TypeOK
<1>1. CASE \E q \in Problem : RecoverSelect(q) \/ \E j \in Job : Alert(q, j) \/ RecoverClose(q, j)
  BY <1>1 DEF RecoverSelect, Alert, RecoverClose
<1>2. CASE \E u \in Tap : TapStep(u) \/ \E j \in Job, d \in Decision : TapRead(u, j, d)
  BY <1>2 DEF TapStep, TapDecide, TapLate, TapDenied, TapRead
<1>3. CASE (\E g \in Tuple : RevokeTap(g)) \/ SweeperStep
  BY <1>3 DEF RevokeTap, SweeperStep, SweepSelect, SweepMark, SweepClose, threadVars
<1>4. CASE ThreadDies \/ Crash
  BY <1>4 DEF ThreadDies, Crash, NoSweep
<1>5. CASE Restart \/ TimePasses \/ UNCHANGED vars
  BY <1>5 DEF Restart, TimePasses, vars, threadVars
<1> QED BY <1>1, <1>2, <1>3, <1>4, <1>5, HandlersKeepToThemselves DEF Next, Serving

LEMMA OthersKept ==
  ASSUME ServiceInv, [Next]_vars, NEW k \in Job
  PROVE  OthersFit(k)'
<1>0. /\ TypeOK /\ OthersFit(k)
      /\ recov \in [Problem -> SUBSET Job] /\ taps \in [Tap -> TapThread]
      /\ sweep \in [due : SUBSET Job, marked : SUBSET Job] /\ jobs \in [Job -> Row]
  BY DEF ServiceInv, JobInv, TypeOK, StoreTypeOK
<1>1. /\ jobs[k].state \in {"denied", "closed"} => jobs'[k].state \in {"denied", "closed"}
      /\ jobs[k].state \in {"expired", "closed"} => jobs'[k].state \in {"expired", "closed"}
      /\ jobs[k].state # "absent" => jobs'[k].problem = jobs[k].problem
  BY StepsStore, RowsStayPut DEF ServiceInv, TypeOK
<1>2. ASSUME NEW t \in Tap, taps'[t].at = "denying", taps'[t].job = k
      PROVE  jobs'[k].state \in {"denied", "closed"}
  <2>1. \/ taps'[t] = taps[t]
        \/ taps'[t] = NoTap
        \/ \E j \in Job, d \in Decision : TapRead(t, j, d)
        \/ TapDecide(t)
    BY <1>0, OtherThreadsMove
  <2>2. CASE taps'[t] = taps[t]
    BY <1>0, <1>1, <1>2, <2>2 DEF OthersFit
  <2>3. CASE taps'[t] = NoTap
    BY <1>2, <2>3 DEF NoTap
  <2>4. ASSUME NEW j \in Job, NEW d \in Decision, TapRead(t, j, d)
        PROVE  taps'[t].at # "denying"
    BY <1>0, <2>4 DEF TapRead
  <2>5. CASE TapDecide(t)
    <3>1. CASE taps' = [taps EXCEPT ![t] = NoTap]
      BY <1>0, <1>2, <3>1 DEF NoTap
    <3>2. CASE taps' # [taps EXCEPT ![t] = NoTap]
      <4>1. /\ taps' = [taps EXCEPT ![t].at = "denying"]
            /\ taps[t].decision # "approved"
            /\ \E at \in 0..now : Claim(taps[t].job, taps[t].decision, at)
        BY <2>5, <3>2 DEF TapDecide
      <4>2. taps[t].decision = "denied" /\ taps[t].job = k
        BY <1>0, <1>2, <2>5, <4>1 DEF TapDecide, TapThread, NoTap, Decision
      <4> QED BY <1>0, <4>1, <4>2 DEF Claim, Row
    <3> QED BY <3>1, <3>2
  <2> QED BY <1>2, <2>1, <2>2, <2>3, <2>4, <2>5
<1>3. ASSUME k \in sweep'.marked
      PROVE  jobs'[k].state \in {"expired", "closed"}
  <2>1. \/ sweep'.marked \subseteq sweep.marked
        \/ \E j \in Job : SweepMark(j)
    BY <1>0, OtherThreadsMove
  <2>2. CASE k \in sweep.marked
    BY <1>0, <1>1, <2>2 DEF OthersFit
  <2>3. ASSUME NEW j \in Job, SweepMark(j), k \notin sweep.marked
        PROVE  jobs'[k].state = "expired"
    <3>1. j = k /\ Expire(k)
      BY <1>0, <1>3, <2>3 DEF SweepMark
    <3> QED BY <1>0, <3>1 DEF Expire, Row
  <2> QED BY <1>3, <2>1, <2>2, <2>3
<1>4. ASSUME NEW p \in Problem, k \in recov'[p]
      PROVE  jobs'[k].problem = p
  <2>1. k \in recov[p] \/ jobs[k].problem = p
    BY <1>0, <1>4, OtherThreadsMove
  <2>2. jobs[k].problem = p
    BY <1>0, <2>1 DEF OthersFit
  <2>3. jobs[k].state # "absent"
    BY <2>2, VocabularyAssumption DEF ServiceInv, SessionsStamped
  <2> QED BY <1>1, <2>2, <2>3
<1> QED BY <1>2, <1>3, <1>4 DEF OthersFit

(* No thread outlives the service, and none is there before main() closed  *)
(* the jobs that were executing.                                           *)
LEMMA DownKept ==
  ASSUME ServiceInv, [Next]_vars
  PROVE  DownInv'
<1>0. crashes \in 0..MaxCrashes /\ up \in BOOLEAN /\ DownInv
  BY DEF ServiceInv, TypeOK
<1>1. CASE up /\ up'
  BY <1>1 DEF DownInv
<1>2. CASE Crash
  BY <1>0, <1>2, ResponderAssumption DEF Crash, DownInv
<1>3. CASE Restart
  BY <1>3 DEF Restart, DownInv
<1>4. CASE TimePasses \/ UNCHANGED vars
  BY <1>0, <1>4 DEF TimePasses, DownInv, vars, threadVars, lifeVars
<1> QED BY <1>1, <1>2, <1>3, <1>4 DEF Next, ThreadDies, lifeVars

LEMMA StepsKeepOrder ==
  ServiceInv /\ [Next]_vars => ServiceInv'
<1> SUFFICES ASSUME ServiceInv, [Next]_vars
             PROVE  ServiceInv'
  OBVIOUS
<1>1. TypeOK /\ JobInv /\ SessionsStamped /\ RunsFollowState /\ StoreTypeOK
  BY DEF ServiceInv, TypeOK
<1>2. [StoreNext]_storeVars
  BY <1>1, StepsStore
<1>3. TypeOK' /\ StoreTypeOK'
  BY <1>1, TypesKept, TypeStep, <1>2
<1>4. SessionsStamped'
  BY <1>1, <1>2, <1>3, StatementsKeepRows, OpenJobSpaced, KeptRowsSpaced
<1>5. RunsFollowState'
  BY <1>1, <1>2, RunsStep
<1>6. JobInv'
  BY FitsKept, OthersKept DEF JobInv, Fits
<1> QED BY <1>3, <1>4, <1>5, <1>6, DownKept DEF ServiceInv

LEMMA StartsInOrder == Init => ServiceInv
<1> SUFFICES ASSUME Init PROVE ServiceInv
  OBVIOUS
<1>1. StoreInit /\ up = TRUE
  BY DEF Init
<1>2. StoreTypeOK
  BY <1>1 DEF StoreInit, StoreTypeOK, Row, NoRow, State, Reason, VerbOrNone
<1>3. TypeOK
  BY <1>2, ResponderAssumption
     DEF Init, TypeOK, GrantsInit, NoGrant, Grant, Thread, TapThread, NoSweep
<1>4. SessionsStamped /\ RunsFollowState
  BY <1>1, VocabularyAssumption
     DEF StoreInit, SessionsStamped, SessionsSpaced, RunsFollowState, NoRow
<1>5. \A j \in Job : RowFits(j)
  BY <1>1 DEF StoreInit, NoRow, RowFits
<1>6. \A j \in Job : HandlerFits(j)
  BY DEF Init, NoThread, HandlerFits, Asking, AutoRunning
<1>7. \A j \in Job : OthersFit(j)
  BY DEF Init, OthersFit, NoTap, NoSweep
<1> QED BY <1>1, <1>3, <1>4, <1>5, <1>6, <1>7 DEF ServiceInv, JobInv, DownInv

LEMMA ServiceInvariant == Spec => []ServiceInv
  BY StartsInOrder, StepsKeepOrder, PTL DEF Spec

------------------------------------------------------------------------------
(* What follows for the service *)

(* Tables and threads have the shape the code gives them (TypeOK). *)
THEOREM ServiceTyped == Spec => []TypeOK
<1>1. ServiceInv => TypeOK
  BY DEF ServiceInv
<1> QED BY <1>1, ServiceInvariant, PTL

(* The service is a refinement of JobStore: its threads write the jobs     *)
(* table through the statements of store.py only, and never hand one of    *)
(* them an action that does not exist (ImplementsStore).                   *)
THEOREM ServiceImplementsStore == Spec => ImplementsStore
<1>1. Init => StoreInit
  BY DEF Init
<1>2. ServiceInv /\ [Next]_vars => [StoreNext]_storeVars
  BY StepsStore DEF ServiceInv
<1> QED BY <1>1, <1>2, ServiceInvariant, PTL DEF Spec, ImplementsStore, StoreSpec

(* So what is proved of the jobs table holds of the service: no action     *)
(* runs twice or without an approval, sessions of a problem stay a window  *)
(* apart, a closed job stays as it was closed.                             *)
COROLLARY ServiceKeepsStorePromises ==
  Spec => []RunsAuthorised /\ []SessionsSpaced /\ ClosedIsFinal /\ ImplementsContract
  BY ServiceImplementsStore, StoreRunsAuthorised, StoreSessionsSpaced, StoreClosedIsFinal,
     StoreImplementsContract DEF ImplementsStore

(* Two actions never run against one problem at once, unless a recovery    *)
(* was reported while the first was running (OneRunPerProblem).            *)
THEOREM ServiceOneRunPerProblem == Spec => []OneRunPerProblem
<1>1. ServiceInv => OneRunPerProblem
  <2> SUFFICES ASSUME ServiceInv,
                      NEW j \in Executing, NEW k \in Executing,
                      j # k, jobs[j].problem = jobs[k].problem
               PROVE  "recovered" \in {jobs[j].reason, jobs[k].reason}
    BY DEF OneRunPerProblem
  <2>1. j \in Job /\ k \in Job
    BY DEF Executing
  <2>2. \A i \in {j, k} :
          \/ jobs[i].state = "executing"
          \/ jobs[i].state = "closed" /\ jobs[i].reason = "recovered"
    BY <2>1 DEF Executing, ServiceInv, JobInv, HandlerFits
  <2>3. Precedes(jobs[j], jobs[k]) \/ Precedes(jobs[k], jobs[j])
    BY <2>1, <2>2 DEF ServiceInv, SessionsStamped, SessionsSpaced
  <2> QED BY <2>2, <2>3 DEF Precedes
<1> QED BY <1>1, ServiceInvariant, PTL

(* The action a job can be approved for is a registered write verb of the  *)
(* host that raised the alert (ActionsStayOnTheirHost).                    *)
THEOREM ServiceActionsStay == Spec => []ActionsStayOnTheirHost
<1>1. ServiceInv => ActionsStayOnTheirHost
  BY DEF ServiceInv, JobInv, RowFits, OnHost, ActionsStayOnTheirHost
<1> QED BY <1>1, ServiceInvariant, PTL

(* A run nobody tapped used up budget before it started, and its target is *)
(* not protected (AutoRunsAreCounted).                                     *)
THEOREM ServiceAutoRunsCounted == Spec => []AutoRunsAreCounted
<1>1. ServiceInv => AutoRunsAreCounted
  BY DEF ServiceInv, JobInv, RowFits, Counted, Learnable, HostOf, AutoRunsAreCounted
<1> QED BY <1>1, ServiceInvariant, PTL

(* A closed row is frozen, and with it who approved it and whether it ran. *)
LEMMA ClosedIsFrozen ==
  ASSUME StoreTypeOK, [StoreNext]_storeVars, NEW k \in Job, jobs[k].state = "closed"
  PROVE  jobs'[k] = jobs[k] /\ authority'[k] = authority[k] /\ runs'[k] = runs[k]
<1> USE DEF StoreTypeOK
<1>1. ASSUME NEW j \in Job,
             \/ \E p \in Problem : OpenJob(p, j)
             \/ \E v \in Verb : Propose(j, v) \/ AutoApprove(j, v)
             \/ \E d \in Decision : \E at \in 0..now : Claim(j, d, at)
             \/ Expire(j) \/ StartExecution(j)
             \/ \E reason \in Reason \ {"none"} : Close(j, reason)
      PROVE  /\ j # k /\ jobs'[k] = jobs[k]
             /\ authority'[k] = authority[k] /\ runs'[k] = runs[k]
  BY <1>1 DEF OpenJob, Propose, AutoApprove, Claim, Expire, StartExecution, Close
<1>2. ASSUME CloseInterrupted \/ Tick \/ UNCHANGED storeVars
      PROVE  jobs'[k] = jobs[k] /\ authority' = authority /\ runs' = runs
  BY <1>2 DEF CloseInterrupted, Tick, storeVars
<1> QED BY <1>1, <1>2 DEF StoreNext

(* The inductive form of GrantsAreEarned. *)
GrantFits(g) ==
  grants[g].status = "active" =>
    /\ grants[g].job \in Job /\ Earned(grants[g].job)
    /\ g = ApprovedTuple(grants[g].job) /\ Learnable(jobs[grants[g].job].problem)

(* Only an approved step makes a grant active; every other one keeps it or *)
(* ends it.                                                                *)
LEMMA GrantsMove ==
  ASSUME TypeOK, [Next]_vars, NEW g \in Tuple, grants'[g].status = "active"
  PROVE  \/ grants'[g] = grants[g]
         \/ \E j \in Job : /\ ApprovedStep(j)
                           /\ g = ApprovedTuple(j) /\ grants'[g].job = j
                           /\ \/ handler[j].at = "inserting"
                              \/ handler[j].at = "recording" /\ ~IsProtected(g[1])
<1>0. grants \in [Tuple -> Grant]
  BY DEF TypeOK
<1>1. ASSUME UNCHANGED grantVars
      PROVE  grants'[g] = grants[g]
  BY <1>1 DEF grantVars
<1>2. ASSUME NEW t, NEW reason \in {"revoked", "verify-failed"},
             grants' = [grants EXCEPT ![t] = EndGrant(@, reason)]
      PROVE  grants'[g] = grants[g]
  BY <1>0, <1>2 DEF EndGrant, Grant
<1>3. ASSUME NEW j \in Job, SettleAutoRun(j) \/ CountAutoRun(j)
      PROVE  grants'[g] = grants[g]
  BY <1>2, <1>3 DEF SettleAutoRun, FinishAutoRun, CountAutoRun, StartAutoRun
<1>4. ASSUME NEW j \in Job, ApprovedStep(j)
      PROVE  \/ grants'[g] = grants[g]
             \/ /\ g = ApprovedTuple(j) /\ grants'[g].job = j
                /\ \/ handler[j].at = "inserting"
                   \/ handler[j].at = "recording" /\ ~IsProtected(g[1])
  BY <1>0, <1>1, <1>4
     DEF ApprovedStep, RecordApproval, InsertApproval, Remember, InsertGrant, NoGrant
<1>5. ASSUME NEW t \in Tuple, RevokeTap(t)
      PROVE  grants'[g] = grants[g]
  BY <1>2, <1>5 DEF RevokeTap, Revoke
<1>6. ASSUME NEW j \in Job, NewJobStep(j) \/ RunStep(j), ~CountAutoRun(j), ~SettleAutoRun(j)
      PROVE  grants'[g] = grants[g]
  BY <1>1, <1>6 DEF NewJobStep, RateCheck, BeginDiagnosis, EndDiagnosis, Consider,
                    ApproveByGrant, AskPhone, RunStep, StartRun, FinishRun
<1>7. CASE \E p \in Problem : RecoverSelect(p) \/ \E j \in Job : Alert(p, j) \/ RecoverClose(p, j)
  BY <1>1, <1>7 DEF RecoverSelect, Alert, RecoverClose
<1>8. CASE \E t \in Tap : TapStep(t) \/ \E j \in Job, d \in Decision : TapRead(t, j, d)
  BY <1>1, <1>8 DEF TapStep, TapDecide, TapLate, TapDenied, TapRead
<1>9. CASE SweeperStep \/ ThreadDies \/ Crash \/ Restart \/ TimePasses \/ UNCHANGED vars
  BY <1>1, <1>9 DEF SweeperStep, SweepSelect, SweepMark, SweepClose, ThreadDies, Crash,
                    Restart, TimePasses, vars
<1> QED BY <1>3, <1>4, <1>5, <1>6, <1>7, <1>8, <1>9 DEF Next, Serving, HandlerStep

LEMMA GrantsStayEarned ==
  ASSUME ServiceInv, [Next]_vars, NEW g \in Tuple, GrantFits(g)
  PROVE  GrantFits(g)'
<1> SUFFICES ASSUME grants'[g].status = "active"
             PROVE  /\ (grants[g].job)' \in Job /\ Earned(grants[g].job)'
                    /\ g = ApprovedTuple(grants[g].job)'
                    /\ Learnable(jobs[grants[g].job].problem)'
  BY DEF GrantFits
<1>0. TypeOK /\ JobInv /\ StoreTypeOK /\ [StoreNext]_storeVars
  BY StepsStore DEF ServiceInv, TypeOK
<1>1. ASSUME NEW j \in Job, Earned(j), g = ApprovedTuple(j), Learnable(jobs[j].problem),
             grants'[g].job = j
      PROVE  /\ (grants[g].job)' \in Job /\ Earned(grants[g].job)'
             /\ g = ApprovedTuple(grants[g].job)'
             /\ Learnable(jobs[grants[g].job].problem)'
  <2>1. jobs'[j] = jobs[j] /\ authority'[j] = authority[j] /\ runs'[j] = runs[j]
    BY <1>0, <1>1, ClosedIsFrozen DEF Earned
  <2> QED BY <1>1, <2>1 DEF Earned, ApprovedTuple, HostOf
<1>2. CASE grants'[g] = grants[g]
  BY <1>1, <1>2 DEF GrantFits
<1>3. ASSUME NEW j \in Job, ApprovedStep(j), g = ApprovedTuple(j), grants'[g].job = j,
             \/ handler[j].at = "inserting"
             \/ handler[j].at = "recording" /\ ~IsProtected(g[1])
      PROVE  Earned(j) /\ Learnable(jobs[j].problem)
  BY <1>0, <1>3 DEF JobInv, HandlerFits, ApprovedTuple, HostOf, Learnable
<1> QED BY <1>0, <1>1, <1>2, <1>3, GrantsMove

(* A grant auto-runs only what a person approved and the executor saw      *)
(* succeed, on the host it was approved for, and never a protected target  *)
(* (GrantsAreEarned).                                                      *)
THEOREM ServiceGrantsEarned == Spec => []GrantsAreEarned
<1> DEFINE GrantInv == \A g \in Tuple : GrantFits(g)
<1>1. Init => GrantInv
  BY DEF Init, GrantsInit, NoGrant, GrantFits
<1>2. ServiceInv /\ GrantInv /\ [Next]_vars => GrantInv'
  BY GrantsStayEarned
<1>3. GrantInv => GrantsAreEarned
  BY DEF GrantFits, Earned, Learnable, HostOf, GrantsAreEarned
<1> HIDE DEF GrantInv
<1> QED BY <1>1, <1>2, <1>3, ServiceInvariant, PTL DEF Spec

(* The inductive form of EveryRowHasItsThread, of one job. *)
HasItsThread(j) ==
  /\ jobs[j].state = "executing" => handler[j].at \in {"running", "autoRunning"}
  /\ jobs[j].state = "approved" /\ crashes = 0
       => handler[j].at \in {"starting", "counting", "autoStarting"}
  /\ jobs[j].state = "denied" /\ crashes = 0
       => \E t \in Tap : taps[t].at = "denying" /\ taps[t].job = j

LEMMA SameThread ==
  ASSUME NEW k \in Job, HasItsThread(k), jobs'[k] = jobs[k], handler'[k] = handler[k],
         crashes' = crashes,
         \A t \in Tap : taps[t].at = "denying" /\ taps[t].job = k => taps'[t] = taps[t]
  PROVE  HasItsThread(k)'
  BY DEF HasItsThread

LEMMA NeedsNoThread ==
  ASSUME NEW k \in Job, jobs'[k].state \notin {"executing", "approved", "denied"}
  PROVE  HasItsThread(k)'
  BY DEF HasItsThread

LEMMA ClosesRow ==
  ASSUME StoreTypeOK, NEW j \in Job, NEW reason \in Reason, CloseUnlessClosed(j, reason)
  PROVE  jobs'[j].state = "closed"
<1>1. CASE Close(j, reason)
  BY <1>1 DEF StoreTypeOK, Close, Ended, Row
<1>2. CASE jobs[j].state = "closed" /\ UNCHANGED storeVars
  BY <1>2 DEF storeVars
<1> QED BY <1>1, <1>2 DEF CloseUnlessClosed

(* The threads of a job hand its row on in the statement that moves it. *)
LEMMA HandlersHandOn ==
  ASSUME TypeOK, NEW k \in Job, Fits(k), HasItsThread(k), HandlerStep(k), UNCHANGED lifeVars
  PROVE  HasItsThread(k)'
<1>0. /\ jobs \in [Job -> Row] /\ handler \in [Job -> Thread] /\ crashes' = crashes
      /\ taps' = taps
  BY HandlersKeepToThemselves DEF TypeOK, StoreTypeOK, lifeVars
<1>1. CASE handler[k].at \in Asking
  <2>1. jobs[k].state \in {"open", "closed"}
    BY <1>1 DEF Fits, HandlerFits
  <2>2. ASSUME jobs' = jobs
        PROVE  HasItsThread(k)'
    BY <2>1, <2>2 DEF HasItsThread
  <2>3. CASE ApproveByGrant(k)
    <3>1. ASSUME AutoApprove(k, handler[k].verb), Goes(k, "counting")
          PROVE  HasItsThread(k)'
      <4>1. jobs'[k].state = "approved" /\ handler'[k].at = "counting"
        BY <1>0, <3>1, ThreadGoes DEF AutoApprove, Row
      <4> QED BY <4>1 DEF HasItsThread
    <3> QED BY <2>2, <2>3, <3>1 DEF ApproveByGrant, storeVars
  <2>4. CASE AskPhone(k)
    <3>1. ASSUME Propose(k, handler[k].verb)
          PROVE  HasItsThread(k)'
      BY <1>0, <3>1, NeedsNoThread DEF Propose, Row
    <3> QED BY <2>2, <2>4, <3>1 DEF AskPhone, storeVars
  <2>5. CASE \/ RateCheck(k) \/ BeginDiagnosis(k) \/ EndDiagnosis(k) \/ Consider(k)
             \/ CountAutoRun(k) \/ SettleAutoRun(k) \/ ApprovedStep(k)
    BY <2>2, <2>5 DEF RateCheck, BeginDiagnosis, EndDiagnosis, Consider, CountAutoRun,
                      SettleAutoRun, ApprovedStep, RecordApproval, InsertApproval, storeVars
  <2>6. CASE RunStep(k)
    BY <1>1, <2>6 DEF RunStep, StartRun, FinishRun, Asking
  <2> QED BY <2>3, <2>4, <2>5, <2>6 DEF HandlerStep, NewJobStep
<1>2. CASE CountAutoRun(k)
  <2>1. jobs' = jobs /\ handler'[k].at = "autoStarting" /\ jobs[k].state \in {"approved", "closed"}
    BY <1>0, <1>2, ThreadGoes DEF CountAutoRun, storeVars, Fits, HandlerFits
  <2> QED BY <2>1 DEF HasItsThread
<1>3. CASE StartRun(k)
  <2>1. ASSUME StartExecution(k)
        PROVE  HasItsThread(k)'
    <3>1. jobs[k].state = "approved" /\ jobs'[k].state = "executing"
      BY <1>0, <2>1 DEF StartExecution, Row
    <3>2. Goes(k, "running") \/ Goes(k, "autoRunning")
      BY <1>3, <3>1 DEF StartRun
    <3>3. handler'[k].at \in {"running", "autoRunning"}
      BY <1>0, <3>2, ThreadGoes
    <3> QED BY <3>1, <3>3 DEF HasItsThread
  <2>2. ASSUME jobs[k].state # "approved", jobs' = jobs
        PROVE  HasItsThread(k)'
    <3>1. jobs[k].state = "closed"
      BY <1>3, <2>2 DEF StartRun, Fits, HandlerFits
    <3> QED BY <2>2, <3>1, NeedsNoThread
  <2> QED BY <1>3, <2>1, <2>2 DEF StartRun, storeVars
<1>4. ASSUME NEW ok \in BOOLEAN, FinishRun(k, ok)
      PROVE  HasItsThread(k)'
  <2>1. jobs'[k].state = "closed"
    BY <1>4, ClosesRow DEF FinishRun, TypeOK, Reason
  <2> QED BY <2>1, NeedsNoThread
<1>5. CASE SettleAutoRun(k) \/ ApprovedStep(k)
  <2>1. jobs' = jobs /\ jobs[k].state = "closed"
    BY <1>5 DEF SettleAutoRun, ApprovedStep, RecordApproval, InsertApproval, storeVars, Fits,
                HandlerFits, Earned
  <2> QED BY <2>1, NeedsNoThread
<1> QED BY <1>1, <1>2, <1>3, <1>4, <1>5
        DEF HandlerStep, NewJobStep, RunStep, Asking, RateCheck, BeginDiagnosis, EndDiagnosis,
            Consider, ApproveByGrant, AskPhone

(* A tap that wins writes the row and becomes its thread, or starts one; a *)
(* denial keeps its thread until the row is closed.                        *)
LEMMA TapsHandOn ==
  ASSUME TypeOK, NEW k \in Job, Fits(k), HasItsThread(k), NEW t \in Tap, TapStep(t),
         UNCHANGED lifeVars
  PROVE  HasItsThread(k)'
<1>0. /\ jobs \in [Job -> Row] /\ handler \in [Job -> Thread] /\ crashes' = crashes
      /\ taps \in [Tap -> TapThread]
  BY DEF TypeOK, StoreTypeOK, lifeVars
<1>1. \A u \in Tap \ {t} : taps'[u] = taps[u]
  BY <1>0 DEF TapStep, TapDecide, TapLate, TapDenied
<1>2. ASSUME jobs'[k] = jobs[k], handler'[k] = handler[k],
             taps[t].at = "denying" => taps[t].job # k
      PROVE  HasItsThread(k)'
  BY <1>0, <1>1, <1>2, SameThread
<1>3. CASE TapDecide(t) /\ UNCHANGED <<storeVars, handler>>
  BY <1>2, <1>3 DEF TapDecide, storeVars
<1>4. ASSUME TapDecide(t), NEW at \in 0..now, Claim(taps[t].job, taps[t].decision, at)
      PROVE  HasItsThread(k)'
  <2>1. taps[t].at = "writing"
    BY <1>4 DEF TapDecide
  <2>2. CASE k # taps[t].job
    BY <1>0, <1>2, <1>4, <2>1, <2>2 DEF TapDecide, Claim, Goes
  <2>3. CASE k = taps[t].job /\ taps[t].decision = "approved"
    <3>1. jobs'[k].state = "approved" /\ Goes(k, "starting")
      BY <1>0, <1>4, <2>3 DEF TapDecide, Claim, Row
    <3>2. handler'[k].at = "starting"
      BY <1>0, <3>1, ThreadGoes
    <3> QED BY <3>1, <3>2 DEF HasItsThread
  <2>4. CASE k = taps[t].job /\ taps[t].decision # "approved"
    <3>1. jobs'[k].state = "denied"
      BY <1>0, <1>4, <2>1, <2>4 DEF Claim, Row, TapThread, NoTap, Decision
    <3>2. taps' = [taps EXCEPT ![t].at = "denying"]
      BY <1>4, <2>1, <2>4 DEF TapDecide, Claim
    <3>3. taps'[t].at = "denying" /\ taps'[t].job = k
      BY <1>0, <2>1, <2>4, <3>2 DEF TapThread, NoTap
    <3> QED BY <3>1, <3>3 DEF HasItsThread
  <2> QED BY <2>2, <2>3, <2>4
<1>5. CASE TapLate(t)
  <2>1. ASSUME Expire(taps[t].job)
        PROVE  HasItsThread(k)'
    <3>1. CASE k = taps[t].job
      BY <1>0, <2>1, <3>1, NeedsNoThread DEF Expire, Row
    <3>2. CASE k # taps[t].job
      BY <1>0, <1>2, <1>5, <2>1, <3>2 DEF TapLate, Expire
    <3> QED BY <3>1, <3>2
  <2> QED BY <1>2, <1>5, <2>1 DEF TapLate, storeVars
<1>6. CASE TapDenied(t)
  <2>1. CASE k = taps[t].job
    <3>1. jobs'[k].state = "closed"
      BY <1>6, <2>1, ClosesRow DEF TapDenied, TypeOK, Reason
    <3> QED BY <3>1, NeedsNoThread
  <2>2. CASE k # taps[t].job
    BY <1>0, <1>2, <1>6, <2>2 DEF TapDenied, CloseUnlessClosed, Close, storeVars
  <2> QED BY <2>1, <2>2
<1> QED BY <1>3, <1>4, <1>5, <1>6 DEF TapStep, TapDecide

LEMMA RowsKeepTheirThread ==
  ASSUME ServiceInv, up, Serving, UNCHANGED lifeVars, NEW k \in Job, HasItsThread(k)
  PROVE  HasItsThread(k)'
<1>0. /\ TypeOK /\ \A j \in Job : Fits(j)
      /\ jobs \in [Job -> Row] /\ handler \in [Job -> Thread] /\ taps \in [Tap -> TapThread]
      /\ recov \in [Problem -> SUBSET Job] /\ sweep \in [due : SUBSET Job, marked : SUBSET Job]
      /\ crashes' = crashes
  BY DEF ServiceInv, JobInv, Fits, TypeOK, StoreTypeOK, lifeVars
<1>1. ASSUME jobs'[k] = jobs[k], handler'[k] = handler[k], taps' = taps
      PROVE  HasItsThread(k)'
  BY <1>0, <1>1, SameThread
<1>2. ASSUME NEW j \in Job, NEW reason \in Reason, CloseUnlessClosed(j, reason),
             handler' = handler, taps' = taps
      PROVE  HasItsThread(k)'
  <2>1. CASE k = j
    <3>1. jobs'[k].state = "closed"
      BY <1>0, <1>2, <2>1, ClosesRow DEF TypeOK
    <3> QED BY <3>1, NeedsNoThread
  <2>2. CASE k # j
    BY <1>0, <1>1, <1>2, <2>2 DEF CloseUnlessClosed, Close, storeVars
  <2> QED BY <2>1, <2>2
<1>3. ASSUME NEW p \in Problem, NEW j \in Job, Alert(p, j)
      PROVE  HasItsThread(k)'
  <2>1. CASE k = j
    BY <1>0, <1>3, <2>1, NeedsNoThread DEF Alert, OpenJob, NoRow
  <2>2. CASE k # j
    BY <1>0, <1>1, <1>3, <2>2 DEF Alert, OpenJob, Goes
  <2> QED BY <2>1, <2>2
<1>4. ASSUME NEW p \in Problem, NEW j \in Job, RecoverClose(p, j)
      PROVE  HasItsThread(k)'
  BY <1>2, <1>4 DEF RecoverClose, Reason
<1>5. ASSUME NEW j \in Job, HandlerStep(j)
      PROVE  HasItsThread(k)'
  <2>1. CASE k = j
    BY <1>0, <1>5, <2>1, HandlersHandOn
  <2>2. CASE k # j
    BY <1>0, <1>1, <1>5, <2>2, HandlerStepsApart, HandlersKeepToThemselves
  <2> QED BY <2>1, <2>2
<1>6. ASSUME NEW t \in Tap, TapStep(t)
      PROVE  HasItsThread(k)'
  BY <1>0, <1>6, TapsHandOn
<1>7. ASSUME NEW t \in Tap, NEW j \in Job, NEW d \in Decision, TapRead(t, j, d)
      PROVE  HasItsThread(k)'
  <2>1. \A u \in Tap : taps[u].at = "denying" => taps'[u] = taps[u]
    BY <1>0, <1>7 DEF TapRead, NoTap
  <2> QED BY <1>0, <1>7, <2>1, SameThread DEF TapRead, storeVars
<1>8. CASE SweeperStep
  <2>1. CASE SweepSelect
    BY <1>1, <2>1 DEF SweepSelect, storeVars
  <2>2. ASSUME NEW j \in Job, SweepMark(j)
        PROVE  HasItsThread(k)'
    <3>1. CASE Expire(j) /\ k = j
      BY <1>0, <3>1, NeedsNoThread DEF Expire, Row
    <3>2. CASE ~Expire(j) \/ k # j
      BY <1>0, <1>1, <2>2, <3>2 DEF SweepMark, Expire, storeVars
    <3> QED BY <3>1, <3>2
  <2>3. ASSUME NEW j \in Job, SweepClose(j)
        PROVE  HasItsThread(k)'
    BY <1>2, <2>3 DEF SweepClose, Reason
  <2> QED BY <1>8, <2>1, <2>2, <2>3 DEF SweeperStep
<1>9. CASE (\E p \in Problem : RecoverSelect(p)) \/ \E g \in Tuple : RevokeTap(g)
  BY <1>1, <1>9 DEF RecoverSelect, RevokeTap, storeVars, threadVars
<1> QED BY <1>3, <1>4, <1>5, <1>6, <1>7, <1>8, <1>9 DEF Serving

(* While no thread has died, an executing job has its executor, and until  *)
(* the first restart a decided one the thread that will carry it through   *)
(* (EveryRowHasItsThread).                                                 *)
THEOREM ServiceRowsHaveThreads == Spec => []EveryRowHasItsThread
<1> DEFINE Attended == faults = 0 /\ up => \A j \in Job : HasItsThread(j)
<1>1. Init => Attended
  BY DEF Init, StoreInit, NoRow, HasItsThread
<1>2. ServiceInv /\ Attended /\ [Next]_vars => Attended'
  <2> SUFFICES ASSUME ServiceInv, Attended, [Next]_vars, faults' = 0, up' = TRUE
               PROVE  \A j \in Job : HasItsThread(j)'
    BY StepsKeepOrder DEF ServiceInv, TypeOK
  <2>0. faults \in Nat /\ crashes \in Nat
    BY ResponderAssumption DEF ServiceInv, TypeOK
  <2>1. CASE up /\ Serving /\ UNCHANGED lifeVars
    BY <2>1, RowsKeepTheirThread DEF lifeVars
  <2>2. CASE Restart
    <3>1. crashes' # 0
      BY <2>0, <2>2 DEF Restart, ServiceInv, DownInv
    <3>2. ASSUME NEW j \in Job
          PROVE  jobs'[j].state # "executing"
      <4>1. jobs'[j] = IF jobs[j].state = "executing" THEN Ended(jobs[j], "interrupted") ELSE jobs[j]
        BY <2>2 DEF Restart, CloseInterrupted
      <4>2. jobs[j] \in Row
        BY DEF ServiceInv, TypeOK, StoreTypeOK
      <4>3. Ended(jobs[j], "interrupted").state = "closed"
        BY <4>2 DEF Ended, Row
      <4> QED BY <4>1, <4>3
    <3> QED BY <3>1, <3>2 DEF HasItsThread
  <2>3. CASE TimePasses \/ UNCHANGED vars
    BY <2>3, SameThread DEF TimePasses, Tick, vars, storeVars, threadVars, lifeVars
  <2>4. ASSUME ThreadDies
        PROVE  FALSE
    <3>1. faults' = faults + 1
      BY <2>4 DEF ThreadDies
    <3> QED BY <2>0, <3>1
  <2>5. ~Crash
    BY DEF Crash
  <2> QED BY <2>1, <2>2, <2>3, <2>4, <2>5 DEF Next
<1>3. Attended => EveryRowHasItsThread
  BY DEF HasItsThread, EveryRowHasItsThread, Executing
<1> HIDE DEF Attended
<1> QED BY <1>1, <1>2, <1>3, ServiceInvariant, PTL DEF Spec
==============================================================================
