--------------------------- MODULE RepairLoopProofs ---------------------------
(***************************************************************************)
(* Theorems about RepairLoop: what a verdict of the executor is worth,     *)
(* whatever the unit, the calls, the service and Checkmk do, and what an   *)
(* action is begun for.                                                    *)
(***************************************************************************)
EXTENDS RepairLoop, SequenceTheorems, TLAPS

(* A poll follows a restart that ended well, and the histories say what    *)
(* the unit is now; neither property is inductive without them.            *)
ExecutorInv ==
  /\ ExecutorTypeOK
  /\ exec.at \in {"status", "http", "pausing"} => restart = "ok"
  /\ exec.at = "http" => hasUrl
  /\ exec.at # "idle" => exec.verdict = "none"
  /\ restart = "ok" /\ exec.at \in {"status", "http"} => Seen(seen, unit) = seen
  /\ exec.at = "http" => seen # "nothing"
  /\ steady => Healthy(unit)
  /\ exec.at = "pausing" => ~steady
  /\ VerdictIsEarned
  /\ OverdueIsUnhealthy

(* What a crash of the service leaves of its execution. *)
CutShort ==
  /\ exec' = [exec EXCEPT !.at = "idle"]
  /\ restart' = IF restart = "running" THEN "none" ELSE restart
  /\ stray' = (stray \/ restart = "running")
  /\ UNCHANGED <<hasUrl, unit, seen, steady>>

LEMMA ExecutorInitial == ExecutorInit => ExecutorInv
<1> SUFFICES ASSUME ExecutorInit PROVE ExecutorInv
  OBVIOUS
<1>1. hasUrl \in BOOLEAN /\ stray \in BOOLEAN /\ steady \in BOOLEAN /\ ~steady
  BY DEF ExecutorInit
<1>2. unit \in Unit /\ restart = "none" /\ seen = "nothing"
  BY DEF ExecutorInit, Unit
<1>3. exec = [at |-> "idle", late |-> FALSE, verdict |-> "none"]
  BY DEF ExecutorInit
<1> QED BY <1>1, <1>2, <1>3 DEF ExecutorInv, ExecutorTypeOK, Place, Verdict,
                               VerdictIsEarned, OverdueIsUnhealthy

(* A change of the target keeps the invariant if polls still follow a      *)
(* restart that ended well.                                                *)
LEMMA SeenTyped ==
  ASSUME NEW s \in {"nothing", "active", "verified"}, NEW u \in Unit
  PROVE  /\ Seen(s, u) \in {"nothing", "active", "verified"}
         /\ Seen(Seen(s, u), u) = Seen(s, u)
         /\ s # "nothing" => Seen(s, u) # "nothing"
         /\ s = "verified" => Seen(s, u) = "verified"
         /\ Active(u) => Seen(s, u) # "nothing"
         /\ s # "nothing" /\ Answers(u) => Seen(s, u) = "verified"
  BY DEF Seen

LEMMA HostKeeps ==
  ASSUME ExecutorInv,
         NEW u \in Unit,
         NEW r \in {"none", "running", "ok", "failed"},
         Host(u, r), UNCHANGED exec, stray' \in BOOLEAN,
         exec.at \in {"status", "http", "pausing"} => r = "ok"
  PROVE  ExecutorInv'
<1>1. hasUrl' = hasUrl /\ unit' = u /\ restart' = r
  BY DEF Host
<1>2. /\ seen \in {"nothing", "active", "verified"}
      /\ seen' = IF r = "ok" THEN Seen(seen, u) ELSE seen
  BY DEF Host, ExecutorInv, ExecutorTypeOK
<1>3. steady' \in BOOLEAN /\ (steady' => steady /\ Healthy(u))
  BY DEF Host
<1>4. /\ seen' \in {"nothing", "active", "verified"}
      /\ r = "ok" => Seen(seen', u) = seen'
      /\ seen # "nothing" => seen' # "nothing"
      /\ seen = "verified" => seen' = "verified"
  BY <1>2, SeenTyped
<1>5. /\ Healthy(unit)' <=> Healthy(u)
      /\ Seen(seen, unit)' = Seen(seen', u)
  BY <1>1 DEF Healthy, Seen, Active, Answers
<1> QED BY <1>1, <1>3, <1>4, <1>5 DEF ExecutorInv, ExecutorTypeOK,
                                     VerdictIsEarned, OverdueIsUnhealthy

(* Steps of the target keep it. *)
LEMMA HostStepKeeps ==
  ASSUME ExecutorInv, HostSteps PROVE ExecutorInv'
<1> USE DEF ExecutorInv, ExecutorTypeOK
<1>0. {"down", "active", "answering", "serving"} = Unit
  BY DEF Unit
<1>1. CASE RestartBegins BY <1>0, <1>1, HostKeeps DEF RestartBegins
<1>2. CASE RestartEnds BY <1>0, <1>2, HostKeeps DEF RestartEnds
<1>3. CASE StrayRestartEnds BY <1>3, HostKeeps DEF StrayRestartEnds
<1>4. CASE UnitChanges BY <1>4, HostKeeps DEF UnitChanges
<1> QED BY <1>1, <1>2, <1>3, <1>4 DEF HostSteps

LEMMA PollKeeps ==
  ASSUME ExecutorInv, BeginPoll, restart = "ok", exec.at # "idle" PROVE ExecutorInv'
<1>1. /\ exec' = [exec EXCEPT !.at = "status"]
      /\ UNCHANGED <<hasUrl, unit, restart, stray>>
      /\ seen' = Seen("nothing", unit)
  BY DEF BeginPoll, Goes, hostVars
<1>2. steady' \in BOOLEAN /\ (steady' => Healthy(unit))
  BY DEF BeginPoll, Healthy
<1>3. exec'.at = "status" /\ exec'.verdict = "none" /\ exec'.late = exec.late
  BY <1>1 DEF ExecutorInv, ExecutorTypeOK
<1>4. unit \in Unit
  BY DEF ExecutorInv, ExecutorTypeOK
<1>5. seen' \in {"nothing", "active", "verified"} /\ Seen(seen', unit) = seen'
  BY <1>1, <1>4, SeenTyped
<1>6. /\ Healthy(unit)' <=> Healthy(unit)
      /\ Seen(seen, unit)' = Seen(seen', unit)
  BY <1>1 DEF Healthy, Seen, Active, Answers
<1> QED BY <1>1, <1>2, <1>3, <1>5, <1>6 DEF ExecutorInv, ExecutorTypeOK, Place,
                                     VerdictIsEarned, OverdueIsUnhealthy

(* So do the steps of execute() and verify(). *)
LEMMA ExecutorStepKeeps ==
  ASSUME ExecutorInv, ExecutorSteps PROVE ExecutorInv'
<1> USE DEF ExecutorInv, ExecutorTypeOK, Place, Verdict, hostVars,
            VerdictIsEarned, OverdueIsUnhealthy, Goes, Returns
<1>0. ASSUME UNCHANGED <<hasUrl, unit>>
      PROVE  /\ Healthy(unit)' <=> Healthy(unit)
             /\ seen' = seen => Seen(seen, unit)' = Seen(seen, unit)
  BY <1>0 DEF Healthy, Seen, Active, Answers
<1>1. CASE GateAnswers
  <2>1. CASE restart = "ok"
    <3>1. BeginPoll /\ exec.at # "idle"
      BY <1>1, <2>1 DEF GateAnswers
    <3> QED BY <2>1, <3>1, PollKeeps
  <2>2. CASE restart # "ok"
    <3>1. Returns("refused") /\ UNCHANGED <<hostVars, seen, steady>>
      BY <1>1, <2>2 DEF GateAnswers
    <3> QED BY <1>0, <3>1
  <2> QED BY <2>1, <2>2
<1>2. CASE GateLost BY <1>0, <1>2 DEF GateLost
<1>3. CASE DeadlinePasses BY <1>0, <1>3 DEF DeadlinePasses
<1>4. CASE StatusAnswers
  <2>0. exec.at = "status" /\ UNCHANGED <<hostVars, seen, steady>>
    BY <1>4 DEF StatusAnswers
  <2>1. ASSUME ~Active(unit), Goes("pausing")
        PROVE  ExecutorInv'
    <3>1. ~steady
      BY <2>1 DEF Healthy
    <3> QED BY <1>0, <2>0, <2>1, <3>1
  <2>2. Active(unit) => seen # "nothing"
    BY <2>0, SeenTyped
  <2>3. ASSUME Active(unit), hasUrl, Goes("http")
        PROVE  ExecutorInv'
    BY <1>0, <2>0, <2>2, <2>3
  <2>4. ASSUME Active(unit), ~hasUrl, Returns("ok")
        PROVE  ExecutorInv'
    <3>1. seen = "verified"
      BY <2>0, <2>2, <2>4, SeenTyped DEF Answers
    <3> QED BY <1>0, <2>0, <2>4, <3>1
  <2> QED BY <1>4, <2>1, <2>3, <2>4 DEF StatusAnswers
<1>5. CASE HttpAnswers
  <2>0. exec.at = "http" /\ UNCHANGED <<hostVars, seen, steady>>
    BY <1>5 DEF HttpAnswers
  <2>1. CASE Answers(unit) /\ Returns("ok")
    <3>1. seen = "verified"
      BY <2>0, <2>1, SeenTyped
    <3> QED BY <1>0, <2>0, <2>1, <3>1
  <2>2. CASE ~Answers(unit) /\ Goes("pausing")
    <3>1. ~steady
      BY <2>2 DEF Healthy
    <3> QED BY <1>0, <2>0, <2>2, <3>1
  <2> QED BY <1>5, <2>1, <2>2 DEF HttpAnswers
<1>6. CASE PollLost BY <1>0, <1>6 DEF PollLost
<1>7. CASE HttpRaises BY <1>0, <1>7 DEF HttpRaises
<1>8. CASE Wakes
  <2>1. CASE ~exec.late
    <3>1. BeginPoll /\ exec.at # "idle" /\ restart = "ok"
      BY <1>8, <2>1 DEF Wakes
    <3> QED BY <3>1, PollKeeps
  <2>2. CASE exec.late
    <3>1. Returns("overdue") /\ UNCHANGED <<hostVars, seen, steady>> /\ ~steady
      BY <1>8, <2>2 DEF Wakes
    <3> QED BY <1>0, <3>1
  <2> QED BY <2>1, <2>2
<1> QED BY <1>1, <1>2, <1>3, <1>4, <1>5, <1>6, <1>7, <1>8 DEF ExecutorSteps

(* And what the service does to an execution: begin it, or die in it. *)
LEMMA ServiceStepKeeps ==
  ASSUME ExecutorInv, Execute \/ CutShort \/ UNCHANGED executorVars
  PROVE  ExecutorInv'
<1> USE DEF ExecutorInv, ExecutorTypeOK, Place, Verdict, Healthy, Seen, Active, Answers,
            VerdictIsEarned, OverdueIsUnhealthy
<1>1. CASE Execute BY <1>1 DEF Execute
<1>2. CASE CutShort BY <1>2 DEF CutShort
<1>3. CASE UNCHANGED executorVars BY <1>3 DEF executorVars, hostVars
<1> QED BY <1>1, <1>2, <1>3

LEMMA EveryStepKeeps ==
  ASSUME ExecutorInv, [Next]_repairVars PROVE ExecutorInv'
<1>1. CASE ExecutorSteps BY <1>1, ExecutorStepKeeps
<1>2. CASE HostSteps BY <1>2, HostStepKeeps
<1>3. CASE Act BY <1>3, ServiceStepKeeps DEF Act
<1>4. CASE Crash
  BY <1>4, ServiceStepKeeps DEF Crash, CutShort
<1>5. CASE UNCHANGED repairVars
  BY <1>5, ServiceStepKeeps DEF repairVars
<1>6. CASE \/ Notice \/ NtfyChanges \/ PostLost \/ PostArrives
           \/ \E n \in Notification : PushArrives(n) \/ PushRefused(n) \/ PushUnsent(n) \/ PushFails(n)
           \/ EndUnacted \/ Conclude \/ Restart
  <2>1. UNCHANGED executorVars
    BY <1>6 DEF Notice, NtfyChanges, PostLost, PostArrives, PushArrives, PushRefused, PushUnsent,
                PushFails, Sent, EndUnacted, Conclude, Restart
  <2> QED BY <2>1, ServiceStepKeeps
<1> QED BY <1>1, <1>2, <1>3, <1>4, <1>5, <1>6 DEF Next

(* RepairTypeOK holds: the session, the pushes and the queue of posts have *)
(* their types, and the queue its bound.                                   *)
THEOREM RepairTyped == Spec => []RepairTypeOK
<1> DEFINE Inv == ExecutorInv /\ RepairTypeOK
<1>1. Init => Inv
  <2> SUFFICES ASSUME Init PROVE RepairTypeOK
    BY ExecutorInitial DEF Init
  <2>1. ExecutorTypeOK
    BY ExecutorInitial DEF Init, ExecutorInv
  <2>2. /\ problem \in BOOLEAN /\ ntfyUp \in BOOLEAN /\ up \in BOOLEAN /\ missed \in BOOLEAN
        /\ phone \in {"unaware", "aware", "refused", "unsent"}
        /\ session \in {"none", "live", "executing"}
    BY DEF Init
  <2>3. pushes \in [Notification -> {"none", "due", "deferred"}]
    BY DEF Init
  <2>4. posts \in Seq(Notification) /\ Len(posts) <= MaxPosts
    BY RepairAssumption DEF Init
  <2> QED BY <2>1, <2>2, <2>3, <2>4 DEF RepairTypeOK
<1>2. ASSUME Inv, [Next]_repairVars PROVE Inv'
  <2>1. ExecutorInv' /\ ExecutorTypeOK'
    BY <1>2, EveryStepKeeps DEF ExecutorInv
  <2>2. /\ problem' \in BOOLEAN /\ ntfyUp' \in BOOLEAN /\ up' \in BOOLEAN /\ missed' \in BOOLEAN
        /\ phone' \in {"unaware", "aware", "refused", "unsent"}
        /\ session' \in {"none", "live", "executing"}
    <3> USE <1>2 DEF Next, repairVars, checkmkVars, serviceVars, RepairTypeOK, Notice, NtfyChanges,
                     NtfyFails, NtfyReturns, PostLost, PostArrives, PushArrives, PushRefused, PushUnsent,
                     PushFails, Sent, Act, EndUnacted, Conclude, Crash, Restart, SessionIs
    <3>1. problem' \in BOOLEAN /\ missed' \in BOOLEAN
      OBVIOUS
    <3>2. ntfyUp' \in BOOLEAN /\ up' \in BOOLEAN
      OBVIOUS
    <3>3. phone' \in {"unaware", "aware", "refused", "unsent"}
      OBVIOUS
    <3>4. session' \in {"none", "live", "executing"}
      OBVIOUS
    <3> QED BY <3>1, <3>2, <3>3, <3>4
  <2>3. pushes' \in [Notification -> {"none", "due", "deferred"}]
    BY <1>2 DEF Next, repairVars, checkmkVars, serviceVars, RepairTypeOK, Notice, NtfyChanges,
                PostLost, PostArrives, PushArrives, PushRefused, PushUnsent, PushFails, Sent, Act,
                EndUnacted, Conclude, Crash, Restart
  <2>4. posts' \in Seq(Notification) /\ Len(posts') <= MaxPosts
    <3>1. CASE Notice
      BY <1>2, <3>1, RepairAssumption DEF RepairTypeOK, Notice, Notification
    <3>2. CASE PostLost \/ PostArrives
      <4>1. posts # <<>> /\ posts' = Tail(posts)
        BY <3>2 DEF PostLost, PostArrives
      <4> QED BY <1>2, <4>1, RepairAssumption DEF RepairTypeOK
    <3>3. CASE UNCHANGED posts
      BY <1>2, <3>3 DEF RepairTypeOK
    <3> QED BY <1>2, <3>1, <3>2, <3>3 DEF Next, repairVars, checkmkVars, serviceVars,
              NtfyChanges, PushArrives, PushRefused, PushUnsent, PushFails, Sent, Act, EndUnacted,
              Conclude, Crash, Restart
  <2> QED BY <2>1, <2>2, <2>3, <2>4 DEF RepairTypeOK
<1>3. Inv => RepairTypeOK
  OBVIOUS
<1> QED BY <1>1, <1>2, <1>3, PTL DEF Spec

(* An ok verdict was earned after its own restart, at every bound of posts *)
(* and under any order of events.                                          *)
THEOREM VerdictsEarned == Spec => []VerdictIsEarned
<1>1. Init => ExecutorInv
  BY ExecutorInitial DEF Init
<1>2. ExecutorInv /\ [Next]_repairVars => ExecutorInv'
  BY EveryStepKeeps
<1>3. ExecutorInv => VerdictIsEarned
  BY DEF ExecutorInv
<1> QED BY <1>1, <1>2, <1>3, PTL DEF Spec

(* An overdue verdict is never about a unit that was healthy throughout a  *)
(* complete poll.                                                          *)
THEOREM OverdueVerdictsFair == Spec => []OverdueIsUnhealthy
<1>1. Init => ExecutorInv
  BY ExecutorInitial DEF Init
<1>2. ExecutorInv /\ [Next]_repairVars => ExecutorInv'
  BY EveryStepKeeps
<1>3. ExecutorInv => OverdueIsUnhealthy
  BY DEF ExecutorInv
<1> QED BY <1>1, <1>2, <1>3, PTL DEF Spec
------------------------------------------------------------------------------
(* The newest notification that is not answered says what Checkmk holds;   *)
(* so what a session has not heard of yet is under way, or was lost.       *)
NewestHolds ==
  posts # <<>> => posts[Len(posts)] = IF problem THEN "PROBLEM" ELSE "RECOVERY"

Standing == problem \/ Contains(posts, "RECOVERY") \/ missed

OutageInv ==
  /\ posts \in Seq(Notification)
  /\ NewestHolds
  /\ session = "live" => Standing

(* The queue without its oldest notification. *)
LEMMA WithoutOldest ==
  ASSUME NEW queue \in Seq(Notification), queue # <<>>
  PROVE  /\ Tail(queue) \in Seq(Notification)
         /\ Tail(queue) # <<>> => Tail(queue)[Len(Tail(queue))] = queue[Len(queue)]
         /\ Tail(queue) = <<>> => Head(queue) = queue[Len(queue)]
         /\ Contains(queue, "RECOVERY")
              => Head(queue) = "RECOVERY" \/ Contains(Tail(queue), "RECOVERY")
         /\ queue[Len(queue)] = "RECOVERY"
              => Tail(queue) = <<>> \/ Contains(Tail(queue), "RECOVERY")
<1>1. /\ Len(queue) \in Nat \ {0} /\ Head(queue) = queue[1]
      /\ Tail(queue) \in Seq(Notification) /\ Len(Tail(queue)) = Len(queue) - 1
      /\ \A i \in 1..Len(queue) - 1 : Tail(queue)[i] = queue[i + 1]
  BY HeadTailProperties, EmptySeq, LenProperties
<1> DEFINE rest == Tail(queue)
<1>2. rest = <<>> <=> Len(queue) = 1
  <2>1. Len(rest) = 0 <=> rest = <<>>
    BY <1>1, EmptySeq
  <2> QED BY <1>1, <2>1
<1> HIDE DEF rest
<1>3. ASSUME rest # <<>>
      PROVE  Len(rest) \in 1..Len(queue) - 1 /\ rest[Len(rest)] = queue[Len(queue)]
  <2>1. Len(rest) \in 1..Len(queue) - 1 /\ Len(rest) + 1 = Len(queue)
    BY <1>1, <1>2, <1>3 DEF rest
  <2> QED BY <1>1, <2>1 DEF rest
<1>4. ASSUME NEW i \in 1..Len(queue), queue[i] = "RECOVERY", Head(queue) # "RECOVERY"
      PROVE  Contains(rest, "RECOVERY")
  <2>1. i # 1
    BY <1>1, <1>4
  <2>2. i - 1 \in 1..Len(rest) /\ i - 1 \in 1..Len(queue) - 1 /\ (i - 1) + 1 = i
    BY <1>1, <2>1 DEF rest
  <2> QED BY <1>1, <1>4, <2>2 DEF Contains, rest
<1>5. ASSUME rest # <<>>, queue[Len(queue)] = "RECOVERY"
      PROVE  Contains(rest, "RECOVERY")
  <2>1. Len(rest) \in 1..Len(rest) /\ rest[Len(rest)] = "RECOVERY"
    BY <1>1, <1>3, <1>5
  <2> QED BY <2>1 DEF Contains
<1> QED BY <1>1, <1>2, <1>3, <1>4, <1>5 DEF rest, Contains

LEMMA OutageStep ==
  ASSUME OutageInv, [Next]_repairVars
  PROVE  OutageInv'
<1> USE DEF Standing, NewestHolds, OutageInv
<1>1. CASE Notice
  <2>1. PICK n \in Notification : /\ posts' = Append(posts, n) /\ problem' = ~problem
                                  /\ n = IF problem THEN "RECOVERY" ELSE "PROBLEM"
    BY <1>1 DEF Notice, Notification
  <2>2. Len(posts) \in Nat
    BY LenProperties
  <2>3. /\ posts' \in Seq(Notification) /\ Len(posts') = Len(posts) + 1
        /\ posts'[Len(posts')] = n
    BY <2>1, AppendProperties
  <2>4. NewestHolds'
    BY <2>1, <2>3 DEF Notice
  <2>5. n = "RECOVERY" => Contains(posts', "RECOVERY")
    BY <2>2, <2>3 DEF Contains
  <2>6. Standing'
    BY <2>1, <2>5
  <2> QED BY <2>3, <2>4, <2>6
<1>2. ASSUME posts # <<>>, posts' = Tail(posts), problem' = problem
      PROVE  posts' \in Seq(Notification) /\ NewestHolds'
  BY <1>2, WithoutOldest
<1>3. CASE PostLost
  <2>1. /\ posts # <<>> /\ posts' = Tail(posts) /\ problem' = problem /\ session' = session
        /\ missed' = (missed \/ (Head(posts) = "RECOVERY" /\ session = "live"))
    BY <1>3 DEF PostLost
  <2>2. session = "live" => Standing'
    BY <2>1, WithoutOldest
  <2> QED BY <1>2, <2>1, <2>2
<1>4. CASE PostArrives
  <2>1. posts # <<>> /\ posts' = Tail(posts) /\ problem' = problem
    BY <1>4 DEF PostArrives
  <2>2. CASE Head(posts) = "PROBLEM" /\ SessionIs("live")
    <3>1. ~problem => posts[Len(posts)] = "RECOVERY"
      BY <2>1
    <3>2. ~problem => Contains(posts', "RECOVERY")
      BY <2>1, <2>2, <3>1, WithoutOldest
    <3> QED BY <1>2, <2>1, <3>2
  <2>3. CASE Head(posts) = "PROBLEM" /\ UNCHANGED <<session, missed>>
    BY <1>2, <2>1, <2>3, WithoutOldest
  <2>4. CASE Head(posts) = "RECOVERY" /\ session = "live" /\ SessionIs("none")
    BY <1>2, <2>1, <2>4 DEF SessionIs
  <2>5. CASE session # "live" /\ UNCHANGED <<session, missed>>
    BY <1>2, <2>1, <2>5
  <2> QED BY <1>4, <2>2, <2>3, <2>4, <2>5 DEF PostArrives
<1>5. CASE Act \/ EndUnacted \/ Conclude \/ Restart
  <2>1. UNCHANGED <<posts, problem>> /\ (session' = "live" => session = "live" /\ missed' = missed)
    BY <1>5 DEF Act, EndUnacted, Conclude, Restart, SessionIs, checkmkVars
  <2> QED BY <2>1
<1>6. CASE UNCHANGED <<posts, problem, session, missed>>
  BY <1>6
<1> QED BY <1>1, <1>3, <1>4, <1>5, <1>6 DEF Next, repairVars, checkmkVars, serviceVars,
     NtfyChanges, PushArrives, PushRefused, PushUnsent, PushFails, Sent, Crash

(* An action begins only while Checkmk holds the unit for broken, or its   *)
(* recovery is on the way or was lost, however many posts are under way    *)
(* (responder-notify.py, which does not try again; app.py, recover()).     *)
THEOREM ActionsHaveOutages == Spec => ActsOnStandingOutage
<1>1. Init => OutageInv
  <2>1. <<>> \in Seq(Notification)
    BY EmptySeq
  <2> QED BY <2>1 DEF Init, OutageInv, NewestHolds
<1>2. OutageInv /\ [Next]_repairVars => OutageInv'
  BY OutageStep
<1>3. ASSUME OutageInv, [Next]_repairVars, session # "executing", session' = "executing"
      PROVE  Standing
  <2>1. Act
    BY <1>3 DEF Next, repairVars, checkmkVars, serviceVars, Notice, NtfyChanges, PostLost, PostArrives,
                PushArrives, PushRefused, PushUnsent, PushFails, Sent, EndUnacted, Conclude, Crash, Restart, SessionIs
  <2> QED BY <1>3, <2>1 DEF Act, OutageInv
<1>4. OutageInv /\ [Next]_repairVars =>
        (session # "executing" /\ session' = "executing" =>
           problem \/ Contains(posts, "RECOVERY") \/ missed)
  BY <1>3 DEF Standing
<1> QED BY <1>1, <1>2, <1>4, PTL DEF Spec, ActsOnStandingOutage
==============================================================================
