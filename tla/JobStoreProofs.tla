---------------------------- MODULE JobStoreProofs ----------------------------
(***************************************************************************)
(* Proofs about the jobs table, for any sets of jobs, problems and verbs   *)
(* and any window and approval time.                                       *)
(***************************************************************************)
EXTENDS JobStore, TLAPS

(* A row keeps the schema when a column gets a value of its domain. *)
LEMMA RowColumns ==
  ASSUME NEW row \in Row
  PROVE  /\ \A s \in State : [row EXCEPT !.state = s] \in Row
         /\ \A v \in VerbOrNone, s \in State : 
              [row EXCEPT !.state = s, !.verb = v] \in Row
         /\ \A v \in VerbOrNone, s \in State, t \in Nat : 
              [row EXCEPT !.state = s, !.verb = v, !.expires = t] \in Row
  BY DEF Row

LEMMA EndedRow ==
  ASSUME NEW row \in Row, NEW reason \in Reason, now \in Nat
  PROVE  /\ Ended(row, reason) \in Row
         /\ Ended(row, reason).state = "closed"
         /\ Ended(row, reason).reason = reason
         /\ Ended(row, reason).closedAt = now
         /\ Ended(row, reason).created = row.created
         /\ Ended(row, reason).problem = row.problem
  BY DEF Row, Ended, State

LEMMA NewRow ==
  ASSUME NEW p \in Problem, now \in Nat
  PROVE  /\ NoRow \in Row
         /\ [NoRow EXCEPT !.state = "open", !.problem = p, !.created = now] \in Row
  BY DEF Row, NoRow, State, Reason, VerbOrNone

(* StoreTypeOK is inductive: each statement writes only the columns it     *)
(* names, with values of the schema, whichever row it hits.                *)
LEMMA TypeStep == StoreTypeOK /\ [StoreNext]_storeVars => StoreTypeOK'
<1> SUFFICES ASSUME StoreTypeOK, [StoreNext]_storeVars
             PROVE  StoreTypeOK'
  OBVIOUS
<1> USE DEF StoreTypeOK
<1>1. ASSUME NEW p \in Problem, NEW j \in Job, OpenJob(p, j)
      PROVE  StoreTypeOK'
  BY <1>1, NewRow DEF OpenJob
<1>2. ASSUME NEW j \in Job, NEW v \in Verb, Propose(j, v)
      PROVE  StoreTypeOK'
  <2>1. now + Ttl \in Nat /\ v \in VerbOrNone /\ "pending" \in State
    BY StoreAssumption DEF VerbOrNone, State
  <2> QED
    BY <1>2, <2>1, RowColumns DEF Propose
<1>3. ASSUME NEW j \in Job, NEW v \in Verb, AutoApprove(j, v)
      PROVE  StoreTypeOK'
  <2>1. v \in VerbOrNone /\ "approved" \in State
    BY DEF VerbOrNone, State
  <2> QED
    BY <1>3, <2>1, RowColumns DEF AutoApprove
<1>4. ASSUME NEW j \in Job, NEW d \in Decision, NEW at \in 0..now, Claim(j, d, at)
      PROVE  StoreTypeOK'
  BY <1>4, RowColumns DEF Claim, Decision, State
<1>5. ASSUME NEW j \in Job, Expire(j)
      PROVE  StoreTypeOK'
  BY <1>5, RowColumns DEF Expire, State
<1>6. ASSUME NEW j \in Job, StartExecution(j)
      PROVE  StoreTypeOK'
  <2>1. jobs' \in [Job -> Row]
    BY <1>6, RowColumns DEF StartExecution, State
  <2>2. runs' \in [Job -> Nat]
    BY <1>6 DEF StartExecution
  <2> QED
    BY <1>6, <2>1, <2>2 DEF StartExecution
<1>7. ASSUME NEW j \in Job, NEW reason \in Reason \ {"none"}, Close(j, reason)
      PROVE  StoreTypeOK'
  BY <1>7, EndedRow DEF Close
<1>8. CASE CloseInterrupted
  BY <1>8, EndedRow DEF CloseInterrupted, Reason
<1>9. CASE Tick
  BY <1>9 DEF Tick
<1>10. CASE UNCHANGED storeVars
  BY <1>10 DEF storeVars
<1> QED
  BY <1>1, <1>2, <1>3, <1>4, <1>5, <1>6, <1>7, <1>8, <1>9, <1>10 DEF StoreNext

(* Type correctness: in every state of the table each row has a state,     *)
(* reason and time stamps the schema allows (store.py SCHEMA).             *)
THEOREM StoreTyped == StoreSpec => []StoreTypeOK
<1>1. StoreInit => StoreTypeOK
  BY DEF StoreInit, StoreTypeOK, Row, NoRow, State, Reason, VerbOrNone
<1> QED
  BY <1>1, TypeStep, PTL DEF StoreSpec

(* What no statement but the INSERT of a new row may do: change whom a row *)
(* belongs to or when it was created, bring a row into being, or touch a   *)
(* closed one.                                                             *)
Keeps(old, new) ==
  /\ new.problem = old.problem
  /\ new.created = old.created
  /\ new.state = "absent" <=> old.state = "absent"
  /\ old.state = "closed" => new = old

LEMMA StatementsKeepRows ==
  ASSUME StoreTypeOK, [StoreNext]_storeVars
  PROVE  \/ \E p \in Problem, j \in Job : OpenJob(p, j)
         \/ /\ now <= now'
            /\ \A k \in Job : Keeps(jobs[k], jobs'[k])
<1> DEFINE Kept == now <= now' /\ \A k \in Job : Keeps(jobs[k], jobs'[k])
<1> USE DEF StoreTypeOK
<1>1. ASSUME NEW j \in Job, NEW v \in Verb, Propose(j, v) PROVE Kept
  BY <1>1 DEF Propose, Keeps, Row
<1>2. ASSUME NEW j \in Job, NEW v \in Verb, AutoApprove(j, v) PROVE Kept
  BY <1>2 DEF AutoApprove, Keeps, Row
<1>3. ASSUME NEW j \in Job, NEW d \in Decision, NEW at \in 0..now, Claim(j, d, at)
      PROVE  Kept
  BY <1>3 DEF Claim, Keeps, Row, Decision
<1>4. ASSUME NEW j \in Job, Expire(j) PROVE Kept
  BY <1>4 DEF Expire, Keeps, Row
<1>5. ASSUME NEW j \in Job, StartExecution(j) PROVE Kept
  <2>1. now' = now /\ jobs' = [jobs EXCEPT ![j].state = "executing"]
        /\ jobs[j].state = "approved"
    BY <1>5 DEF StartExecution
  <2> QED
    BY <2>1 DEF Keeps, Row
<1>6. ASSUME NEW j \in Job, NEW reason \in Reason \ {"none"}, Close(j, reason)
      PROVE  Kept
  BY <1>6, EndedRow DEF Close, Keeps
<1>7. CASE CloseInterrupted
  BY <1>7, EndedRow DEF CloseInterrupted, Keeps, Reason
<1>8. CASE Tick
  BY <1>8 DEF Tick, Keeps
<1>9. CASE UNCHANGED storeVars
  BY <1>9 DEF storeVars, Keeps
<1> QED
  BY <1>1, <1>2, <1>3, <1>4, <1>5, <1>6, <1>7, <1>8, <1>9 DEF StoreNext

------------------------------------------------------------------------------
(* A closed job keeps its row for good (ClosedIsFinal): every UPDATE of    *)
(* store.py names the state it starts from, and close() excludes 'closed'. *)
THEOREM StoreClosedIsFinal == StoreSpec => ClosedIsFinal
<1>1. StoreTypeOK /\ [StoreNext]_storeVars
        => [\A j \in Job : jobs[j].state = "closed" => jobs'[j] = jobs[j]]_storeVars
  <2> SUFFICES ASSUME StoreTypeOK, [StoreNext]_storeVars,
                      NEW j \in Job, jobs[j].state = "closed"
               PROVE  jobs'[j] = jobs[j]
    OBVIOUS
  <2>1. CASE \E p \in Problem, k \in Job : OpenJob(p, k)
    <3>1. PICK p \in Problem, k \in Job : OpenJob(p, k)
      BY <2>1
    <3>2. k # j
      BY <3>1 DEF OpenJob
    <3> QED
      BY <3>1, <3>2 DEF OpenJob, StoreTypeOK
  <2>2. CASE \A k \in Job : Keeps(jobs[k], jobs'[k])
    BY <2>2 DEF Keeps
  <2> QED
    BY <2>1, <2>2, StatementsKeepRows
<1> QED
  BY <1>1, StoreTyped, PTL DEF StoreSpec, ClosedIsFinal

(* A row that starts a session finds every older session of its problem    *)
(* recovered, or closed for a whole window: the SELECT of intake_alert.    *)
LEMMA OpenJobSpaced ==
  ASSUME StoreTypeOK, SessionsStamped,
         NEW p \in Problem, NEW j \in Job, OpenJob(p, j)
  PROVE  SessionsStamped'
<1> USE DEF StoreTypeOK
<1>1. /\ jobs'[j].state = "open" /\ jobs'[j].problem = p /\ jobs'[j].created = now
      /\ now' = now
      /\ \A k \in Job : k # j => jobs'[k] = jobs[k]
  BY DEF OpenJob, NoRow
<1>2. ASSUME NEW k \in Job, k # j, jobs[k].problem = p
      PROVE  Precedes(jobs'[k], jobs'[j])
  <2>1. jobs[k].state # "absent" /\ jobs[k].created <= now
    BY <1>2, VocabularyAssumption DEF SessionsStamped
  <2>2. ~Live(jobs[k], p)
    BY DEF OpenJob
  <2>3. jobs[k].closedAt \in Nat
    BY DEF Row
  <2> QED
    BY <1>1, <1>2, <2>1, <2>2, <2>3, StoreAssumption DEF Live, Precedes
<1>3. SessionsSpaced'
  <2> SUFFICES ASSUME NEW a \in Job, NEW b \in Job, a # b, jobs'[a].state # "absent",
                      jobs'[b].problem = jobs'[a].problem
               PROVE  Precedes(jobs'[a], jobs'[b]) \/ Precedes(jobs'[b], jobs'[a])
    BY DEF SessionsSpaced, Precedes
  <2>1. CASE a = j
    BY <2>1, <1>1, <1>2
  <2>2. CASE b = j
    BY <2>2, <1>1, <1>2
  <2>3. CASE a # j /\ b # j
    BY <2>3, <1>1 DEF SessionsStamped, SessionsSpaced
  <2> QED
    BY <2>1, <2>2, <2>3
<1>4. ASSUME NEW k \in Job
      PROVE  /\ jobs'[k].created <= now'
             /\ jobs'[k].problem = NoProblem <=> jobs'[k].state = "absent"
  <2>1. CASE k = j
    BY <2>1, <1>1, VocabularyAssumption
  <2>2. CASE k # j
    BY <2>2, <1>1 DEF SessionsStamped
  <2> QED
    BY <2>1, <2>2
<1> QED
  BY <1>3, <1>4 DEF SessionsStamped

(* Spacing survives every statement that keeps rows: the earlier session   *)
(* of a pair is closed, so only the later one can still change.            *)
LEMMA KeptRowsSpaced ==
  ASSUME StoreTypeOK, StoreTypeOK', SessionsStamped, now <= now',
         \A k \in Job : Keeps(jobs[k], jobs'[k])
  PROVE  SessionsStamped'
<1>1. ASSUME NEW a \in Job, NEW b \in Job, Precedes(jobs[a], jobs[b])
      PROVE  Precedes(jobs'[a], jobs'[b])
  BY <1>1 DEF Precedes, Keeps
<1>2. SessionsSpaced'
  <2> SUFFICES ASSUME NEW a \in Job, NEW b \in Job, a # b, jobs'[a].state # "absent",
                      jobs'[b].problem = jobs'[a].problem
               PROVE  Precedes(jobs'[a], jobs'[b]) \/ Precedes(jobs'[b], jobs'[a])
    BY DEF SessionsSpaced, Precedes
  <2>1. jobs[a].state # "absent" /\ jobs[b].problem = jobs[a].problem
    BY DEF Keeps
  <2> QED
    BY <2>1, <1>1 DEF SessionsStamped, SessionsSpaced
<1>3. ASSUME NEW k \in Job
      PROVE  /\ jobs'[k].created <= now'
             /\ jobs'[k].problem = NoProblem <=> jobs'[k].state = "absent"
  <2>1. jobs[k].created \in Nat /\ now \in Nat /\ now' \in Nat
    BY DEF StoreTypeOK, Row
  <2> QED
    BY <2>1 DEF SessionsStamped, Keeps
<1> QED
  BY <1>2, <1>3 DEF SessionsStamped

(* Two sessions of one problem never overlap (SessionsSpaced), in every    *)
(* order of alerts, taps, sweeps, recoveries and restarts.                 *)
THEOREM StoreSessionsSpaced == StoreSpec => []SessionsSpaced
<1>1. StoreInit => SessionsStamped
  BY VocabularyAssumption DEF StoreInit, SessionsStamped, SessionsSpaced, NoRow
<1>2. StoreTypeOK /\ StoreTypeOK' /\ SessionsStamped /\ [StoreNext]_storeVars
        => SessionsStamped'
  BY StatementsKeepRows, OpenJobSpaced, KeptRowsSpaced
<1>3. SessionsStamped => SessionsSpaced
  BY DEF SessionsStamped
<1> QED
  BY <1>1, <1>2, <1>3, StoreTyped, PTL DEF StoreSpec

------------------------------------------------------------------------------
(* RunsFollowState is inductive: only start_execution() counts a run, and  *)
(* it leaves 'approved', the state it needs, in the same UPDATE.           *)
LEMMA RunsStep ==
  ASSUME StoreTypeOK, RunsFollowState, [StoreNext]_storeVars
  PROVE  RunsFollowState'
<1> DEFINE Follows(j) ==
      /\ runs[j] \in {0, 1}
      /\ jobs[j].state \in State \ {"executing", "closed"} => runs[j] = 0
      /\ jobs[j].state = "executing" => runs[j] = 1
      /\ jobs[j].state = "approved" \/ runs[j] = 1 => authority[j] # "nobody"
<1> SUFFICES ASSUME NEW k \in Job
             PROVE  Follows(k)'
  BY DEF RunsFollowState
<1>0. Follows(k) /\ jobs[k].state \in State /\ jobs \in [Job -> Row]
      /\ authority \in [Job -> {"nobody", "phone", "grant"}] /\ runs \in [Job -> Nat]
  BY DEF RunsFollowState, StoreTypeOK, Row
<1>1. ASSUME NEW p \in Problem, NEW j \in Job, OpenJob(p, j)
      PROVE  Follows(k)'
  BY <1>0, <1>1 DEF OpenJob, NoRow, State
<1>2. ASSUME NEW j \in Job, NEW v \in Verb, Propose(j, v)
      PROVE  Follows(k)'
  BY <1>0, <1>2 DEF Propose, Row, State
<1>3. ASSUME NEW j \in Job, NEW v \in Verb, AutoApprove(j, v)
      PROVE  Follows(k)'
  BY <1>0, <1>3 DEF AutoApprove, Row, State
<1>4. ASSUME NEW j \in Job, NEW d \in Decision, NEW at \in 0..now, Claim(j, d, at)
      PROVE  Follows(k)'
  BY <1>0, <1>4 DEF Claim, Row, State, Decision
<1>5. ASSUME NEW j \in Job, Expire(j)
      PROVE  Follows(k)'
  BY <1>0, <1>5 DEF Expire, Row, State
<1>6. ASSUME NEW j \in Job, StartExecution(j)
      PROVE  Follows(k)'
  <2>1. CASE k = j
    <3>1. runs[j] = 0 /\ authority[j] # "nobody"
      BY <1>0, <1>6, <2>1 DEF StartExecution, State
    <3>2. runs'[j] = 1 /\ authority'[j] # "nobody" /\ jobs'[j].state = "executing"
      BY <1>0, <1>6, <3>1 DEF StartExecution, Row
    <3> QED
      BY <2>1, <3>2
  <2>2. CASE k # j
    BY <1>0, <1>6, <2>2 DEF StartExecution
  <2> QED
    BY <2>1, <2>2
<1>7. ASSUME NEW j \in Job, NEW reason \in Reason \ {"none"}, Close(j, reason)
      PROVE  Follows(k)'
  BY <1>0, <1>7 DEF Close, Ended, Row, State
<1>8. CASE CloseInterrupted
  BY <1>0, <1>8 DEF CloseInterrupted, Ended, Row, State
<1>9. CASE Tick
  BY <1>0, <1>9 DEF Tick
<1>10. CASE UNCHANGED storeVars
  BY <1>0, <1>10 DEF storeVars
<1> QED
  BY <1>1, <1>2, <1>3, <1>4, <1>5, <1>6, <1>7, <1>8, <1>9, <1>10 DEF StoreNext

LEMMA StoreRunsFollowState == StoreSpec => []RunsFollowState
<1>1. StoreInit => RunsFollowState
  BY DEF StoreInit, RunsFollowState, NoRow
<1>2. StoreTypeOK /\ RunsFollowState /\ [StoreNext]_storeVars => RunsFollowState'
  BY RunsStep
<1> QED
  BY <1>1, <1>2, StoreTyped, PTL DEF StoreSpec

(* At most one run per job, and never an unauthorised one (RunsAuthorised) *)
(* however taps, grants, recoveries and restarts interleave.               *)
THEOREM StoreRunsAuthorised == StoreSpec => []RunsAuthorised
<1>1. RunsFollowState => RunsAuthorised
  BY DEF RunsFollowState, RunsAuthorised
<1> QED
  BY <1>1, StoreRunsFollowState, PTL

------------------------------------------------------------------------------
(* What a statement does to one job, seen through the contract. *)
LEMMA VerdictByState ==
  ASSUME StoreTypeOK, NEW j \in Job
  PROVE  /\ jobs[j].state \in {"absent", "open", "pending"} => VerdictOf(j) = "none"
         /\ jobs[j].state \in {"approved", "executing"} => VerdictOf(j) = "yes"
         /\ jobs[j].state \in {"denied", "expired"} => VerdictOf(j) = "no"
         /\ jobs[j].state = "closed" /\ runs[j] = 0 => VerdictOf(j) = "no"
         /\ jobs[j].state = "closed" /\ runs[j] # 0 => VerdictOf(j) = "yes"
  BY DEF VerdictOf

LEMMA VerdictIsLocal ==
  ASSUME NEW k \in Job, jobs'[k] = jobs[k], runs'[k] = runs[k]
  PROVE  VerdictOf(k)' = VerdictOf(k)
  BY DEF VerdictOf

(* A step of one job that authorises, refuses, runs or changes nothing the *)
(* contract sees is a step, or a stutter, of the contract.                 *)
LEMMA OneJobSteps ==
  ASSUME StoreTypeOK, StoreTypeOK', NEW j \in Job,
         \A k \in Job \ {j} : jobs'[k] = jobs[k] /\ runs'[k] = runs[k],
         \/ VerdictOf(j)' = VerdictOf(j) /\ runs'[j] = runs[j]
         \/ VerdictOf(j) = "none" /\ VerdictOf(j)' = "yes" /\ runs'[j] = runs[j]
         \/ VerdictOf(j) # "no" /\ runs[j] = 0 /\ VerdictOf(j)' = "no" /\ runs'[j] = runs[j]
         \/ VerdictOf(j) = "yes" /\ runs[j] = 0 /\ VerdictOf(j)' = "yes" /\ runs'[j] = 1
  PROVE  [Contract!Next]_(Contract!contractVars)
<1> DEFINE V == [k \in Job |-> VerdictOf(k)]
           W == [k \in Job |-> VerdictOf(k)']
<1>0. V' = W
  OBVIOUS
<1>1. runs \in [Job -> Nat] /\ runs' \in [Job -> Nat]
  BY DEF StoreTypeOK
<1>2. \A k \in Job \ {j} : VerdictOf(k)' = VerdictOf(k)
  BY VerdictIsLocal
<1>3. W = [V EXCEPT ![j] = VerdictOf(j)']
  BY <1>2
<1>4. runs' = [runs EXCEPT ![j] = runs'[j]]
  BY <1>1
<1>5. V[j] = VerdictOf(j)
  OBVIOUS
<1> HIDE DEF V, W
<1>6. CASE VerdictOf(j)' = VerdictOf(j) /\ runs'[j] = runs[j]
  <2>1. W = V
    BY <1>6, <1>3, <1>5 DEF V
  <2>2. runs' = runs
    BY <1>6, <1>1, <1>4
  <2> QED
    BY <2>1, <2>2, <1>0 DEF Contract!contractVars, V
<1>7. CASE VerdictOf(j) = "none" /\ VerdictOf(j)' = "yes" /\ runs'[j] = runs[j]
  <2>1. runs' = runs
    BY <1>7, <1>1, <1>4
  <2>2. Contract!Authorise(j)
    BY <1>7, <2>1, <1>0, <1>3, <1>5 DEF Contract!Authorise, V
  <2> QED
    BY <2>2 DEF Contract!Next
<1>8. CASE /\ VerdictOf(j) # "no" /\ runs[j] = 0
           /\ VerdictOf(j)' = "no" /\ runs'[j] = runs[j]
  <2>1. runs' = runs
    BY <1>8, <1>1, <1>4
  <2>2. Contract!Refuse(j)
    BY <1>8, <2>1, <1>0, <1>3, <1>5 DEF Contract!Refuse, V
  <2> QED
    BY <2>2 DEF Contract!Next
<1>9. CASE /\ VerdictOf(j) = "yes" /\ runs[j] = 0
           /\ VerdictOf(j)' = "yes" /\ runs'[j] = 1
  <2>1. W = V
    BY <1>9, <1>3, <1>5 DEF V
  <2>2. Contract!Run(j)
    BY <1>9, <2>1, <1>0, <1>4, <1>5 DEF Contract!Run, V
  <2> QED
    BY <2>2 DEF Contract!Next
<1> QED
  BY <1>6, <1>7, <1>8, <1>9

(* Each statement of the table is a step of the contract, or one it does   *)
(* not see: proposing, expiring times, closing a job that has run.         *)
LEMMA ContractStep ==
  (StoreTypeOK /\ StoreTypeOK' /\ RunsFollowState /\ RunsFollowState') /\ [StoreNext]_storeVars
    => [Contract!Next]_(Contract!contractVars)
<1> SUFFICES ASSUME StoreTypeOK, StoreTypeOK', RunsFollowState, RunsFollowState',
                    [StoreNext]_storeVars
             PROVE  [Contract!Next]_(Contract!contractVars)
  OBVIOUS
<1>0. /\ jobs \in [Job -> Row] /\ jobs' \in [Job -> Row] /\ runs \in [Job -> Nat]
      /\ \A j \in Job : jobs[j].state \in State \ {"executing", "closed"} => runs[j] = 0
      /\ \A j \in Job : jobs[j].state = "executing" => runs[j] = 1
  BY DEF StoreTypeOK, RunsFollowState
<1> USE DEF State
<1>1. ASSUME NEW p \in Problem, NEW j \in Job, OpenJob(p, j)
      PROVE  [Contract!Next]_(Contract!contractVars)
  <2>1. jobs[j].state = "absent" /\ jobs'[j].state = "open" /\ runs' = runs
    BY <1>0, <1>1 DEF OpenJob, NoRow
  <2>2. VerdictOf(j) = "none" /\ VerdictOf(j)' = "none"
    BY <2>1 DEF VerdictOf
  <2> QED
    BY <1>0, <1>1, <2>1, <2>2, OneJobSteps DEF OpenJob
<1>2. ASSUME NEW j \in Job, NEW v \in Verb, Propose(j, v)
      PROVE  [Contract!Next]_(Contract!contractVars)
  <2>1. jobs[j].state = "open" /\ jobs'[j].state = "pending" /\ runs' = runs
    BY <1>0, <1>2 DEF Propose, Row
  <2>2. VerdictOf(j) = "none" /\ VerdictOf(j)' = "none"
    BY <2>1 DEF VerdictOf
  <2> QED
    BY <1>0, <1>2, <2>1, <2>2, OneJobSteps DEF Propose
<1>3. ASSUME NEW j \in Job, NEW v \in Verb, AutoApprove(j, v)
      PROVE  [Contract!Next]_(Contract!contractVars)
  <2>1. jobs[j].state = "open" /\ jobs'[j].state = "approved" /\ runs' = runs
    BY <1>0, <1>3 DEF AutoApprove, Row
  <2>2. VerdictOf(j) = "none" /\ VerdictOf(j)' = "yes"
    BY <2>1 DEF VerdictOf
  <2> QED
    BY <1>0, <1>3, <2>1, <2>2, OneJobSteps DEF AutoApprove
<1>4. ASSUME NEW j \in Job, NEW d \in Decision, NEW at \in 0..now, Claim(j, d, at)
      PROVE  [Contract!Next]_(Contract!contractVars)
  <2>1. jobs[j].state = "pending" /\ jobs'[j].state = d /\ runs' = runs /\ runs[j] = 0
    BY <1>0, <1>4 DEF Claim, Row
  <2>2. VerdictOf(j) = "none" /\ VerdictOf(j)' \in {"yes", "no"}
    BY <2>1 DEF VerdictOf, Decision
  <2> QED
    BY <1>0, <1>4, <2>1, <2>2, OneJobSteps DEF Claim
<1>5. ASSUME NEW j \in Job, Expire(j)
      PROVE  [Contract!Next]_(Contract!contractVars)
  <2>1. jobs[j].state = "pending" /\ jobs'[j].state = "expired" /\ runs' = runs /\ runs[j] = 0
    BY <1>0, <1>5 DEF Expire, Row
  <2>2. VerdictOf(j) = "none" /\ VerdictOf(j)' = "no"
    BY <2>1 DEF VerdictOf
  <2> QED
    BY <1>0, <1>5, <2>1, <2>2, OneJobSteps DEF Expire
<1>6. ASSUME NEW j \in Job, StartExecution(j)
      PROVE  [Contract!Next]_(Contract!contractVars)
  <2>1. jobs[j].state = "approved" /\ runs[j] = 0
    BY <1>0, <1>6 DEF StartExecution
  <2>2. jobs'[j].state = "executing"
    BY <1>0, <1>6 DEF StartExecution, Row
  <2>3. runs' = [runs EXCEPT ![j] = runs[j] + 1]
    BY <1>6 DEF StartExecution
  <2>4. runs'[j] = 1
    BY <1>0, <2>1, <2>3
  <2>5. VerdictOf(j) = "yes" /\ VerdictOf(j)' = "yes"
    BY <2>1, <2>2 DEF VerdictOf
  <2>6. \A k \in Job \ {j} : jobs'[k] = jobs[k] /\ runs'[k] = runs[k]
    BY <1>0, <1>6, <2>3 DEF StartExecution
  <2> QED
    BY <2>1, <2>4, <2>5, <2>6, OneJobSteps
<1>7. ASSUME NEW j \in Job, NEW reason \in Reason \ {"none"}, Close(j, reason)
      PROVE  [Contract!Next]_(Contract!contractVars)
  <2>1. /\ jobs[j].state \in State \ {"absent", "closed"}
        /\ jobs'[j].state = "closed" /\ runs' = runs
    BY <1>0, <1>7, EndedRow DEF Close, StoreTypeOK, Row
  <2>2. CASE jobs[j].state = "executing"
    <3>1. runs[j] = 1 /\ VerdictOf(j) = "yes" /\ VerdictOf(j)' = "yes"
      BY <1>0, <2>1, <2>2 DEF VerdictOf
    <3> QED
      BY <1>0, <1>7, <2>1, <3>1, OneJobSteps DEF Close
  <2>3. CASE jobs[j].state # "executing"
    <3>1. runs[j] = 0
      BY <1>0, <2>1, <2>3
    <3>2. VerdictOf(j) \in {"none", "yes", "no"} /\ VerdictOf(j)' = "no"
      BY <2>1, <2>3, <3>1 DEF VerdictOf
    <3> QED
      BY <1>0, <1>7, <2>1, <3>1, <3>2, OneJobSteps DEF Close
  <2> QED
    BY <2>2, <2>3
<1>8. ASSUME runs' = runs, \A k \in Job : VerdictOf(k)' = VerdictOf(k)
      PROVE  UNCHANGED Contract!contractVars
  BY <1>8 DEF Contract!contractVars
<1>9. CASE CloseInterrupted
  <2>1. ASSUME NEW k \in Job PROVE VerdictOf(k)' = VerdictOf(k)
    <3>1. CASE jobs[k].state = "executing"
      <4>1. runs'[k] = 1 /\ jobs'[k].state = "closed"
        BY <1>0, <1>9, <3>1, EndedRow DEF CloseInterrupted, StoreTypeOK, Reason
      <4> QED
        BY <3>1, <4>1 DEF VerdictOf
    <3>2. CASE jobs[k].state # "executing"
      BY <1>9, <3>2, VerdictIsLocal DEF CloseInterrupted
    <3> QED
      BY <3>1, <3>2
  <2> QED
    BY <1>8, <1>9, <2>1 DEF CloseInterrupted
<1>10. CASE Tick
  BY <1>8, <1>10, VerdictIsLocal DEF Tick
<1>11. CASE UNCHANGED storeVars
  BY <1>8, <1>11, VerdictIsLocal DEF storeVars
<1> QED
  BY <1>1, <1>2, <1>3, <1>4, <1>5, <1>6, <1>7, <1>9, <1>10, <1>11 DEF StoreNext

(* The jobs table implements ApprovalContract: nothing runs without an     *)
(* authorisation, twice, or after a denial, expiry or earlier recovery.    *)
THEOREM StoreImplementsContract == StoreSpec => ImplementsContract
<1>1. StoreInit => Contract!Init
  BY DEF StoreInit, Contract!Init, VerdictOf, NoRow
<1> QED
  BY <1>1, ContractStep, StoreTyped, StoreRunsFollowState, PTL
     DEF StoreSpec, ImplementsContract, Contract!Spec
==============================================================================
