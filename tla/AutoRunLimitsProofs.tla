------------------------- MODULE AutoRunLimitsProofs -------------------------
(***************************************************************************)
(* What the limits of grants.py are worth, for every number of handlers    *)
(* between check_auto() and start_auto_run(), every limit and every span.  *)
(***************************************************************************)
EXTENDS AutoRunLimits, FiniteSetTheorems, TLAPS

(* The handlers in the gap, and those of them about to run t. *)
Admitted == {k \in Job : handler[k].at = "admitted"}
Waiting(t) == {k \in Admitted : handler[k].tuple = t}

RunsAfterEnd(t) == {r \in RunsOf(t) : r.at > grants[t].endedAt}

------------------------------------------------------------------------------
(* Types *)

(* LimitsTypeOK is inductive. *)
LEMMA TypeKept ==
  ASSUME LimitsTypeOK, [LimitsNext]_limitVars
  PROVE  LimitsTypeOK'
<1> USE DEF LimitsTypeOK
<1>1. ASSUME NEW j \in Job, NEW t \in Tuple, RememberApproval(j, t)
      PROVE  LimitsTypeOK'
  <2>1. [NoGrant EXCEPT !.status = "active", !.job = j] \in Grant
    BY DEF NoGrant, Grant
  <2>2. grants' = [grants EXCEPT ![t] = [NoGrant EXCEPT !.status = "active", !.job = j]]
        /\ UNCHANGED <<now, autoRuns, links>>
    BY <1>1 DEF RememberApproval, Remember, InsertGrant
  <2>3. handler' \in [Job -> HandlerState]
    BY <1>1 DEF RememberApproval, HandlerState
  <2> QED BY <2>1, <2>2, <2>3
<1>2. ASSUME NEW j \in Job, NEW t \in Tuple, Admit(j, t)
      PROVE  LimitsTypeOK'
  BY <1>2 DEF Admit, HandlerState
<1>3. ASSUME NEW j \in Job, Count(j)
      PROVE  LimitsTypeOK'
  <2>1. handler[j] \in HandlerState /\ handler[j].tuple \in Tuple
    BY <1>3 DEF Count, HandlerState, Idle
  <2>2. handler' \in [Job -> HandlerState]
    BY <1>3, <2>1 DEF Count, HandlerState, Idle
  <2>3. [job |-> j, tuple |-> handler[j].tuple, at |-> now] \in [job : Job, tuple : Tuple, at : 0..now]
    BY <2>1
  <2>4. autoRuns' = autoRuns \union {[job |-> j, tuple |-> handler[j].tuple, at |-> now]}
        /\ UNCHANGED <<now, grants, links>>
    BY <1>3 DEF Count, StartAutoRun
  <2> QED BY <2>2, <2>3, <2>4
<1>4. ASSUME NEW j \in Job, NEW ok \in BOOLEAN, NEW delivered \in BOOLEAN, Finish(j, ok, delivered)
      PROVE  LimitsTypeOK'
  <2>1. handler[j] \in HandlerState /\ handler[j].tuple \in Tuple
    BY <1>4 DEF Finish, HandlerState, Idle
  <2>2. handler' \in [Job -> HandlerState]
    BY <1>4, <2>1 DEF Finish, HandlerState, Idle
  <2>3. EndGrant(grants[handler[j].tuple], "verify-failed") \in Grant
    <3>1. grants[handler[j].tuple] \in Grant
      BY <2>1
    <3> QED BY <3>1 DEF EndGrant, Grant
  <2> QED BY <1>4, <2>1, <2>2, <2>3 DEF Finish, FinishAutoRun
<1>5. ASSUME NEW t \in Tuple, RevokeTap(t)
      PROVE  LimitsTypeOK'
  <2>1. EndGrant(grants[t], "revoked") \in Grant
    BY DEF EndGrant, Grant
  <2> QED BY <1>5, <2>1 DEF RevokeTap, Revoke
<1>6. CASE TimePasses
  <2>1. autoRuns \subseteq [job : Job, tuple : Tuple, at : 0..now + 1]
    OBVIOUS
  <2> QED BY <1>6, <2>1 DEF TimePasses
<1>7. CASE UNCHANGED limitVars
  BY <1>7 DEF limitVars
<1> QED BY <1>1, <1>2, <1>3, <1>4, <1>5, <1>6, <1>7 DEF LimitsNext

LEMMA TypeInitially == LimitsInit => LimitsTypeOK
  BY DEF LimitsInit, GrantsInit, LimitsTypeOK, NoGrant, Grant, HandlerState, Idle

(* The tables of grants.py keep their shape, and no run is stamped later   *)
(* than the clock.                                                         *)
THEOREM LimitsTyped == LimitsSpec => []LimitsTypeOK
  BY TypeInitially, TypeKept, PTL DEF LimitsSpec

------------------------------------------------------------------------------
(* Counting *)

LEMMA Smaller ==
  ASSUME NEW S, IsFiniteSet(S), NEW T, T \subseteq S
  PROVE  IsFiniteSet(T) /\ Cardinality(T) \in Nat /\ Cardinality(S) \in Nat
         /\ Cardinality(T) <= Cardinality(S)
  BY FS_Subset, FS_CardinalityType

LEMMA Grown ==
  ASSUME NEW S, IsFiniteSet(S), NEW x, NEW T, T \subseteq S \union {x}
  PROVE  IsFiniteSet(T) /\ Cardinality(T) \in Nat /\ Cardinality(S) \in Nat
         /\ Cardinality(T) <= Cardinality(S) + 1
<1>1. IsFiniteSet(S \union {x}) /\ Cardinality(S \union {x}) <= Cardinality(S) + 1
      /\ Cardinality(S) \in Nat
  <2>1. Cardinality(S) \in Nat
    BY FS_CardinalityType
  <2>2. IsFiniteSet(S \union {x})
        /\ Cardinality(S \union {x}) = IF x \in S THEN Cardinality(S) ELSE Cardinality(S) + 1
    BY FS_AddElement
  <2> QED BY <2>1, <2>2
<1>2. IsFiniteSet(T) /\ Cardinality(T) \in Nat /\ Cardinality(S \union {x}) \in Nat
      /\ Cardinality(T) <= Cardinality(S \union {x})
  BY <1>1, Smaller
<1> QED BY <1>1, <1>2

LEMMA Shrunk ==
  ASSUME NEW S, IsFiniteSet(S), NEW x \in S, NEW T, T \subseteq S \ {x}
  PROVE  IsFiniteSet(T) /\ Cardinality(T) \in Nat /\ Cardinality(S) \in Nat
         /\ Cardinality(T) <= Cardinality(S) - 1
<1>1. IsFiniteSet(S \ {x}) /\ Cardinality(S \ {x}) = Cardinality(S) - 1
  BY FS_RemoveElement
<1>2. Cardinality(S) \in Nat
  BY FS_CardinalityType
<1>3. IsFiniteSet(T) /\ Cardinality(T) \in Nat /\ Cardinality(T) <= Cardinality(S \ {x})
  BY <1>1, Smaller
<1> QED BY <1>1, <1>2, <1>3

------------------------------------------------------------------------------
(* The invariant: a handler in the gap is as good as a run.  Each limit    *)
(* bounds the runs counted together with the handlers let through.         *)

GapInv ==
  /\ LimitsTypeOK
  /\ IsFiniteSet(autoRuns) /\ IsFiniteSet(Admitted)
  /\ Cardinality(Admitted) <= Concurrent

TupleInv ==
  \A t \in Tuple :
    Cardinality(RunsWithin(RunsOf(t), Day, now)) + Cardinality(Waiting(t))
      <= PerTuple + Concurrent - 1

HourInv ==
  Cardinality(RunsWithin(autoRuns, Hour, now)) + Cardinality(Admitted)
    <= GlobalPerHour + Concurrent - 1

EndedInv ==
  \A t \in Tuple : grants[t].status = "ended" =>
    Cardinality(RunsAfterEnd(t)) + Cardinality(Waiting(t)) <= Concurrent

(* What a step that lets nobody through and counts nothing may do. *)
Quiet ==
  /\ UNCHANGED autoRuns
  /\ now' = now \/ now' = now + 1
  /\ Admitted' \subseteq Admitted
  /\ \A t \in Tuple : Waiting(t)' \subseteq Waiting(t)
  /\ \A t \in Tuple : grants'[t].status = "ended" =>
       (grants'[t].endedAt = now \/ grants'[t] = grants[t])

(* Every step is quiet, lets one handler through, or counts one run. *)
LEMMA StepsAreFew ==
  ASSUME LimitsTypeOK, [LimitsNext]_limitVars
  PROVE  \/ Quiet
         \/ \E j \in Job, t \in Tuple : Admit(j, t)
         \/ \E j \in Job : Count(j)
<1> USE DEF LimitsTypeOK
<1>1. ASSUME NEW j \in Job, NEW t \in Tuple, RememberApproval(j, t)
      PROVE  Quiet
  <2>1. grants' = [grants EXCEPT ![t] = [NoGrant EXCEPT !.status = "active", !.job = j]]
        /\ UNCHANGED <<now, autoRuns>>
    BY <1>1 DEF RememberApproval, Remember, InsertGrant
  <2>2. grants'[t].status = "active" /\ \A u \in Tuple \ {t} : grants'[u] = grants[u]
    BY <2>1 DEF NoGrant
  <2>3. Admitted' \subseteq Admitted /\ \A u \in Tuple : Waiting(u)' \subseteq Waiting(u)
    BY <1>1 DEF RememberApproval, Admitted, Waiting
  <2> QED BY <2>1, <2>2, <2>3 DEF Quiet
<1>2. ASSUME NEW j \in Job, NEW ok \in BOOLEAN, NEW delivered \in BOOLEAN, Finish(j, ok, delivered)
      PROVE  Quiet
  <2>1. UNCHANGED <<now, autoRuns>> /\ handler[j].tuple \in Tuple
    BY <1>2 DEF Finish, FinishAutoRun, HandlerState, Idle
  <2>2. \A u \in Tuple : grants'[u] = grants[u] \/ grants'[u] = EndGrant(grants[u], "verify-failed")
    BY <1>2, <2>1 DEF Finish, FinishAutoRun
  <2>3. \A u \in Tuple : grants'[u].status = "ended" =>
          (grants'[u].endedAt = now \/ grants'[u] = grants[u])
    BY <2>2 DEF EndGrant, Grant
  <2>4. Admitted' \subseteq Admitted /\ \A u \in Tuple : Waiting(u)' \subseteq Waiting(u)
    BY <1>2 DEF Finish, Admitted, Waiting
  <2> QED BY <2>1, <2>3, <2>4 DEF Quiet
<1>3. ASSUME NEW t \in Tuple, RevokeTap(t)
      PROVE  Quiet
  <2>1. UNCHANGED <<now, autoRuns, handler>>
    BY <1>3 DEF RevokeTap, Revoke
  <2>2. \A u \in Tuple : grants'[u] = grants[u] \/ grants'[u] = EndGrant(grants[u], "revoked")
    BY <1>3 DEF RevokeTap, Revoke
  <2>3. \A u \in Tuple : grants'[u].status = "ended" =>
          (grants'[u].endedAt = now \/ grants'[u] = grants[u])
    BY <2>2 DEF EndGrant, Grant
  <2> QED BY <2>1, <2>3 DEF Quiet, Admitted, Waiting
<1>4. CASE TimePasses
  BY <1>4 DEF TimePasses, Quiet, Admitted, Waiting
<1>5. CASE UNCHANGED limitVars
  BY <1>5 DEF limitVars, Quiet, Admitted, Waiting
<1> QED BY <1>1, <1>2, <1>3, <1>4, <1>5 DEF LimitsNext


------------------------------------------------------------------------------
(* The steps.  RunsWithin of the present moment only loses rows as time    *)
(* passes, since no row is younger than the clock.                         *)

(* Facts about the counted sets that hold in every state. *)
LEMMA Finite ==
  ASSUME GapInv, NEW t \in Tuple
  PROVE  /\ IsFiniteSet(Waiting(t)) /\ Cardinality(Waiting(t)) \in Nat
         /\ Cardinality(Admitted) \in Nat /\ Cardinality(Waiting(t)) <= Cardinality(Admitted)
         /\ IsFiniteSet(RunsOf(t)) /\ IsFiniteSet(RunsAfterEnd(t))
         /\ IsFiniteSet(RunsWithin(RunsOf(t), Day, now))
         /\ Cardinality(RunsWithin(RunsOf(t), Day, now)) \in Nat
         /\ IsFiniteSet(RunsWithin(autoRuns, Hour, now))
         /\ Cardinality(RunsWithin(autoRuns, Hour, now)) \in Nat
<1>1. Waiting(t) \subseteq Admitted
  BY DEF Waiting
<1>2. RunsOf(t) \subseteq autoRuns /\ RunsAfterEnd(t) \subseteq autoRuns
  BY DEF RunsOf, RunsAfterEnd
<1>3. RunsWithin(RunsOf(t), Day, now) \subseteq autoRuns
      /\ RunsWithin(autoRuns, Hour, now) \subseteq autoRuns
  BY <1>2 DEF RunsWithin
<1> QED BY <1>1, <1>2, <1>3, Smaller DEF GapInv

LEMMA QuietKeeps ==
  ASSUME GapInv, LimitsTypeOK', Quiet, TupleInv, HourInv, EndedInv
  PROVE  GapInv' /\ TupleInv' /\ HourInv' /\ EndedInv'
<1> USE GrantsAssumption, ConcurrentAssumption
<1>1. GapInv' /\ Cardinality(Admitted') \in Nat /\ Cardinality(Admitted') <= Cardinality(Admitted)
  BY Smaller DEF GapInv, Quiet
<1>2. Cardinality(Admitted) \in Nat
  BY Smaller DEF GapInv
<1>3. \A r \in autoRuns : r.at \in Nat /\ r.at <= now
  BY DEF GapInv, LimitsTypeOK
<1>4. ASSUME NEW t \in Tuple
      PROVE  /\ Cardinality(Waiting(t)') \in Nat
             /\ Cardinality(Waiting(t)') <= Cardinality(Waiting(t))
  BY Finite, Smaller DEF Quiet
<1>5. TupleInv'
  <2> SUFFICES ASSUME NEW t \in Tuple
               PROVE  Cardinality(RunsWithin(RunsOf(t), Day, now)') + Cardinality(Waiting(t)')
                        <= PerTuple + Concurrent - 1
    BY DEF TupleInv
  <2>1. RunsWithin(RunsOf(t), Day, now)' \subseteq RunsWithin(RunsOf(t), Day, now)
    BY <1>3 DEF Quiet, RunsWithin, RunsOf, GapInv, LimitsTypeOK
  <2>2. /\ Cardinality(RunsWithin(RunsOf(t), Day, now)') \in Nat
        /\ Cardinality(RunsWithin(RunsOf(t), Day, now)') <= Cardinality(RunsWithin(RunsOf(t), Day, now))
    BY <2>1, Finite, Smaller
  <2>3. Cardinality(RunsWithin(RunsOf(t), Day, now)) \in Nat /\ Cardinality(Waiting(t)) \in Nat
    BY Finite
  <2>4. Cardinality(RunsWithin(RunsOf(t), Day, now)) + Cardinality(Waiting(t)) <= PerTuple + Concurrent - 1
    BY DEF TupleInv
  <2> QED BY <1>4, <2>2, <2>3, <2>4
<1>6. HourInv'
  <2>1. RunsWithin(autoRuns, Hour, now)' \subseteq RunsWithin(autoRuns, Hour, now)
    BY <1>3 DEF Quiet, RunsWithin, GapInv, LimitsTypeOK
  <2>2. IsFiniteSet(RunsWithin(autoRuns, Hour, now))
    BY Smaller DEF GapInv, RunsWithin
  <2>3. /\ Cardinality(RunsWithin(autoRuns, Hour, now)') \in Nat
        /\ Cardinality(RunsWithin(autoRuns, Hour, now)) \in Nat
        /\ Cardinality(RunsWithin(autoRuns, Hour, now)') <= Cardinality(RunsWithin(autoRuns, Hour, now))
    BY <2>1, <2>2, Smaller
  <2> QED BY <1>1, <1>2, <2>3 DEF HourInv
<1>7. EndedInv'
  <2> SUFFICES ASSUME NEW t \in Tuple, grants'[t].status = "ended"
               PROVE  Cardinality(RunsAfterEnd(t)') + Cardinality(Waiting(t)') <= Concurrent
    BY DEF EndedInv
  <2>1. CASE grants'[t].endedAt = now
    <3>1. RunsAfterEnd(t)' = {}
      <4>1. now \in Nat /\ autoRuns' = autoRuns
        BY DEF GapInv, LimitsTypeOK, Quiet
      <4>2. \A r \in autoRuns : ~(r.at > now)
        BY <1>3, <4>1
      <4> QED BY <2>1, <4>1, <4>2 DEF RunsAfterEnd, RunsOf
    <3>2. Cardinality(Waiting(t)) \in Nat /\ Cardinality(Waiting(t)) <= Concurrent
      BY Finite DEF GapInv
    <3> QED BY <1>4, <3>1, <3>2, FS_EmptySet
  <2>2. CASE grants'[t] = grants[t]
    <3>1. RunsAfterEnd(t)' = RunsAfterEnd(t)
      BY <2>2 DEF Quiet, RunsAfterEnd, RunsOf
    <3>2. Cardinality(RunsAfterEnd(t)) + Cardinality(Waiting(t)) <= Concurrent
      BY <2>2 DEF EndedInv
    <3>3. Cardinality(RunsAfterEnd(t)) \in Nat /\ Cardinality(Waiting(t)) \in Nat
      BY Finite, FS_CardinalityType
    <3> QED BY <1>4, <3>1, <3>2, <3>3
  <2> QED BY <2>1, <2>2 DEF Quiet
<1> QED BY <1>1, <1>5, <1>6, <1>7

LEMMA AdmitKeeps ==
  ASSUME GapInv, LimitsTypeOK', TupleInv, HourInv, EndedInv,
         NEW j \in Job, NEW a \in Tuple, Admit(j, a)
  PROVE  GapInv' /\ TupleInv' /\ HourInv' /\ EndedInv'
<1> USE GrantsAssumption, ConcurrentAssumption
<1>1. UNCHANGED <<now, grants, autoRuns>> /\ handler' = [handler EXCEPT ![j] = [at |-> "admitted", tuple |-> a]]
  BY DEF Admit
<1>2. handler \in [Job -> HandlerState] /\ handler[j] = Idle
  BY DEF Admit, GapInv, LimitsTypeOK
<1>3. Cardinality(Admitted) < Concurrent
  BY DEF Admit, Admitted
<1>4. Admitted' \subseteq Admitted \union {j}
  BY <1>1, <1>2 DEF Admitted
<1>5. /\ IsFiniteSet(Admitted') /\ Cardinality(Admitted') \in Nat /\ Cardinality(Admitted) \in Nat
      /\ Cardinality(Admitted') <= Cardinality(Admitted) + 1
  BY <1>4, Grown DEF GapInv
<1>6. GapInv'
  BY <1>1, <1>3, <1>5 DEF GapInv
<1>7. TupleInv'
  <2> SUFFICES ASSUME NEW t \in Tuple
               PROVE  Cardinality(RunsWithin(RunsOf(t), Day, now)) + Cardinality(Waiting(t)')
                        <= PerTuple + Concurrent - 1
    BY <1>1 DEF TupleInv, RunsWithin, RunsOf
  <2>1. /\ Cardinality(RunsWithin(RunsOf(t), Day, now)) \in Nat /\ Cardinality(Waiting(t)) \in Nat
        /\ Cardinality(Waiting(t)) <= Cardinality(Admitted) /\ IsFiniteSet(Waiting(t))
    BY Finite
  <2>2. CASE t = a
    <3>1. Cardinality(RunsWithin(RunsOf(t), Day, now)) < PerTuple
      BY <2>2 DEF Admit, CheckAuto
    <3>2. Waiting(t)' \subseteq Waiting(t) \union {j}
      BY <1>1, <1>2, <2>2 DEF Waiting, Admitted
    <3>3. Cardinality(Waiting(t)') \in Nat /\ Cardinality(Waiting(t)') <= Cardinality(Waiting(t)) + 1
      BY <2>1, <3>2, Grown
    <3> QED BY <1>3, <1>5, <2>1, <3>1, <3>3
  <2>3. CASE t # a
    <3>1. Waiting(t)' \subseteq Waiting(t)
      BY <1>1, <1>2, <2>3 DEF Waiting, Admitted
    <3>2. Cardinality(Waiting(t)') \in Nat /\ Cardinality(Waiting(t)') <= Cardinality(Waiting(t))
      BY <2>1, <3>1, Smaller
    <3> QED BY <2>1, <3>2 DEF TupleInv
  <2> QED BY <2>2, <2>3
<1>8. HourInv'
  <2>1. RunsWithin(autoRuns, Hour, now)' = RunsWithin(autoRuns, Hour, now)
    BY <1>1 DEF RunsWithin
  <2>2. Cardinality(RunsWithin(autoRuns, Hour, now)) < GlobalPerHour
    BY DEF Admit, CheckAuto
  <2>3. Cardinality(RunsWithin(autoRuns, Hour, now)) \in Nat
    BY Finite
  <2> QED BY <1>3, <1>5, <2>1, <2>2, <2>3 DEF HourInv
<1>9. EndedInv'
  <2> SUFFICES ASSUME NEW t \in Tuple, grants[t].status = "ended"
               PROVE  Cardinality(RunsAfterEnd(t)) + Cardinality(Waiting(t)') <= Concurrent
    BY <1>1 DEF EndedInv, RunsAfterEnd, RunsOf
  <2>1. t # a
    BY DEF Admit, CheckAuto
  <2>2. Waiting(t)' \subseteq Waiting(t)
    BY <1>1, <1>2, <2>1 DEF Waiting, Admitted
  <2>3. Cardinality(Waiting(t)') \in Nat /\ Cardinality(Waiting(t)) \in Nat
        /\ Cardinality(Waiting(t)') <= Cardinality(Waiting(t))
    BY <2>2, Finite, Smaller
  <2>4. Cardinality(RunsAfterEnd(t)) \in Nat
    BY Finite, FS_CardinalityType
  <2> QED BY <2>3, <2>4 DEF EndedInv
<1> QED BY <1>6, <1>7, <1>8, <1>9

LEMMA CountKeeps ==
  ASSUME GapInv, LimitsTypeOK', TupleInv, HourInv, EndedInv,
         NEW j \in Job, Count(j)
  PROVE  GapInv' /\ TupleInv' /\ HourInv' /\ EndedInv'
<1> USE GrantsAssumption, ConcurrentAssumption
<1> DEFINE u == handler[j].tuple
           r == [job |-> j, tuple |-> u, at |-> now]
<1>1. UNCHANGED <<now, grants>> /\ autoRuns' = autoRuns \union {r}
      /\ handler' = [handler EXCEPT ![j].at = "running"]
  BY DEF Count, StartAutoRun
<1>2. handler \in [Job -> HandlerState] /\ j \in Admitted /\ r.tuple = u
  BY DEF Count, GapInv, LimitsTypeOK, Admitted
<1>3. Admitted' \subseteq Admitted \ {j}
  BY <1>1, <1>2 DEF Admitted
<1>4. /\ IsFiniteSet(Admitted') /\ Cardinality(Admitted') \in Nat /\ Cardinality(Admitted) \in Nat
      /\ Cardinality(Admitted') <= Cardinality(Admitted) - 1
  BY <1>2, <1>3, Shrunk DEF GapInv
<1>5. IsFiniteSet(autoRuns')
  BY <1>1, Grown DEF GapInv
<1>6. GapInv'
  BY <1>4, <1>5 DEF GapInv
<1>7. ASSUME NEW t \in Tuple, t # u
      PROVE  Waiting(t)' \subseteq Waiting(t) /\ RunsOf(t)' = RunsOf(t)
  BY <1>1, <1>2, <1>7 DEF Waiting, Admitted, RunsOf
<1>8. ASSUME NEW t \in Tuple, t = u
      PROVE  j \in Waiting(t) /\ Waiting(t)' \subseteq Waiting(t) \ {j}
             /\ RunsOf(t)' \subseteq RunsOf(t) \union {r}
  BY <1>1, <1>2, <1>8 DEF Waiting, Admitted, RunsOf
<1> HIDE DEF u, r
<1>9. TupleInv'
  <2> SUFFICES ASSUME NEW t \in Tuple
               PROVE  Cardinality(RunsWithin(RunsOf(t), Day, now)') + Cardinality(Waiting(t)')
                        <= PerTuple + Concurrent - 1
    BY DEF TupleInv
  <2> DEFINE W == RunsWithin(RunsOf(t), Day, now)
  <2>1. IsFiniteSet(W) /\ Cardinality(W) \in Nat /\ IsFiniteSet(Waiting(t))
        /\ Cardinality(W) + Cardinality(Waiting(t)) <= PerTuple + Concurrent - 1
    BY Finite DEF TupleInv
  <2>2. CASE t # u
    <3>1. W' \subseteq W
      BY <1>1, <1>7, <2>2 DEF RunsWithin
    <3>2. Cardinality(W') \in Nat /\ Cardinality(W') <= Cardinality(W)
      BY <2>1, <3>1, Smaller
    <3>3. Cardinality(Waiting(t)') \in Nat /\ Cardinality(Waiting(t)) \in Nat
          /\ Cardinality(Waiting(t)') <= Cardinality(Waiting(t))
      BY <1>7, <2>1, <2>2, Smaller
    <3> QED BY <2>1, <3>2, <3>3
  <2>3. CASE t = u
    <3>1. W' \subseteq W \union {r}
      BY <1>1, <1>8, <2>3 DEF RunsWithin
    <3>2. Cardinality(W') \in Nat /\ Cardinality(W') <= Cardinality(W) + 1
      BY <2>1, <3>1, Grown
    <3>3. Cardinality(Waiting(t)') \in Nat /\ Cardinality(Waiting(t)) \in Nat
          /\ Cardinality(Waiting(t)') <= Cardinality(Waiting(t)) - 1
      BY <1>8, <2>1, <2>3, Shrunk
    <3> QED BY <2>1, <3>2, <3>3
  <2> QED BY <2>2, <2>3
<1>10. HourInv'
  <2> DEFINE W == RunsWithin(autoRuns, Hour, now)
  <2>1. IsFiniteSet(W)
    BY Smaller DEF GapInv, RunsWithin
  <2>2. W' \subseteq W \union {r}
    BY <1>1 DEF RunsWithin
  <2>3. Cardinality(W') \in Nat /\ Cardinality(W) \in Nat /\ Cardinality(W') <= Cardinality(W) + 1
    BY <2>1, <2>2, Grown
  <2> QED BY <1>4, <2>3 DEF HourInv
<1>11. EndedInv'
  <2> SUFFICES ASSUME NEW t \in Tuple, grants[t].status = "ended"
               PROVE  Cardinality(RunsAfterEnd(t)') + Cardinality(Waiting(t)') <= Concurrent
    BY <1>1 DEF EndedInv
  <2>1. IsFiniteSet(RunsAfterEnd(t)) /\ Cardinality(RunsAfterEnd(t)) \in Nat /\ IsFiniteSet(Waiting(t))
        /\ Cardinality(RunsAfterEnd(t)) + Cardinality(Waiting(t)) <= Concurrent
    BY Finite, FS_CardinalityType DEF EndedInv
  <2>2. CASE t # u
    <3>1. RunsAfterEnd(t)' = RunsAfterEnd(t)
      BY <1>1, <1>7, <2>2 DEF RunsAfterEnd
    <3>2. Cardinality(Waiting(t)') \in Nat /\ Cardinality(Waiting(t)) \in Nat
          /\ Cardinality(Waiting(t)') <= Cardinality(Waiting(t))
      BY <1>7, <2>1, <2>2, Smaller
    <3> QED BY <2>1, <3>1, <3>2
  <2>3. CASE t = u
    <3>1. RunsAfterEnd(t)' \subseteq RunsAfterEnd(t) \union {r}
      BY <1>1, <1>8, <2>3 DEF RunsAfterEnd
    <3>2. Cardinality(RunsAfterEnd(t)') \in Nat
          /\ Cardinality(RunsAfterEnd(t)') <= Cardinality(RunsAfterEnd(t)) + 1
      BY <2>1, <3>1, Grown
    <3>3. Cardinality(Waiting(t)') \in Nat /\ Cardinality(Waiting(t)) \in Nat
          /\ Cardinality(Waiting(t)') <= Cardinality(Waiting(t)) - 1
      BY <1>8, <2>1, <2>3, Shrunk
    <3> QED BY <2>1, <3>2, <3>3
  <2> QED BY <2>2, <2>3
<1> QED BY <1>6, <1>9, <1>10, <1>11

------------------------------------------------------------------------------
(* The theorems *)

BudgetInv == GapInv /\ TupleInv /\ HourInv /\ EndedInv

LEMMA BudgetInitially == LimitsInit => BudgetInv
<1> SUFFICES ASSUME LimitsInit PROVE BudgetInv
  OBVIOUS
<1> USE GrantsAssumption, ConcurrentAssumption
<1>1. Admitted = {} /\ autoRuns = {} /\ \A t \in Tuple : grants[t].status = "none"
  BY DEF LimitsInit, GrantsInit, Admitted, Idle, NoGrant
<1>2. GapInv
  BY <1>1, TypeInitially, FS_EmptySet DEF GapInv
<1>3. \A t \in Tuple : Waiting(t) = {} /\ RunsWithin(RunsOf(t), Day, now) = {}
  BY <1>1 DEF Waiting, RunsWithin, RunsOf
<1>4. RunsWithin(autoRuns, Hour, now) = {}
  BY <1>1 DEF RunsWithin
<1>5. EndedInv
  BY <1>1 DEF EndedInv
<1>6. TupleInv
  BY <1>3, FS_EmptySet DEF TupleInv
<1>7. HourInv
  BY <1>1, <1>4, FS_EmptySet DEF HourInv
<1> QED BY <1>2, <1>5, <1>6, <1>7 DEF BudgetInv

LEMMA BudgetKept ==
  ASSUME BudgetInv, [LimitsNext]_limitVars
  PROVE  BudgetInv'
<1> USE DEF BudgetInv
<1>1. LimitsTypeOK /\ LimitsTypeOK'
  BY TypeKept DEF GapInv
<1>2. CASE Quiet
  BY <1>1, <1>2, QuietKeeps
<1>3. ASSUME NEW j \in Job, NEW t \in Tuple, Admit(j, t) PROVE BudgetInv'
  BY <1>1, <1>3, AdmitKeeps
<1>4. ASSUME NEW j \in Job, Count(j) PROVE BudgetInv'
  BY <1>1, <1>4, CountKeeps
<1> QED BY <1>1, <1>2, <1>3, <1>4, StepsAreFew

(* No step changes what was counted up to a moment that is past. *)
LEMMA PastIsPast ==
  ASSUME BudgetInv, [LimitsNext]_limitVars, NEW x \in 0..now', x # now'
  PROVE  x \in 0..now /\ {r \in autoRuns' : r.at <= x} = {r \in autoRuns : r.at <= x}
<1>1. LimitsTypeOK /\ now \in Nat
  BY DEF BudgetInv, GapInv, LimitsTypeOK
<1>2. CASE Quiet
  BY <1>1, <1>2 DEF Quiet
<1>3. ASSUME NEW j \in Job, NEW t \in Tuple, Admit(j, t)
      PROVE  now' = now /\ autoRuns' = autoRuns
  BY <1>3 DEF Admit
<1>4. ASSUME NEW j \in Job, Count(j)
      PROVE  now' = now /\ {r \in autoRuns' : r.at <= x} = {r \in autoRuns : r.at <= x}
  <2> DEFINE new == [job |-> j, tuple |-> handler[j].tuple, at |-> now]
  <2>1. now' = now /\ autoRuns' = autoRuns \union {new}
    BY <1>4 DEF Count, StartAutoRun
  <2>2. new.at = now
    OBVIOUS
  <2>3. ~(now <= x)
    BY <1>1, <2>1
  <2> HIDE DEF new
  <2> QED BY <2>1, <2>2, <2>3
<1> QED BY <1>1, <1>2, <1>3, <1>4, StepsAreFew

LEMMA OvershootKept ==
  ASSUME BudgetInv, TupleOvershoot, HourOvershoot, [LimitsNext]_limitVars, BudgetInv'
  PROVE  TupleOvershoot' /\ HourOvershoot'
<1> USE GrantsAssumption, ConcurrentAssumption
<1>1. ASSUME NEW x \in 0..now', x # now', NEW t \in Tuple
      PROVE  /\ x \in 0..now
             /\ RunsWithin(RunsOf(t), Day, x)' = RunsWithin(RunsOf(t), Day, x)
             /\ RunsWithin(autoRuns, Hour, x)' = RunsWithin(autoRuns, Hour, x)
  <2>1. x \in 0..now /\ \A r : r \in autoRuns' /\ r.at <= x <=> r \in autoRuns /\ r.at <= x
    BY <1>1, PastIsPast
  <2> QED BY <2>1 DEF RunsWithin, RunsOf
<1>2. TupleOvershoot'
  <2> SUFFICES ASSUME NEW t \in Tuple, NEW x \in 0..now'
               PROVE  Cardinality(RunsWithin(RunsOf(t)', Day, x)) <= PerTuple + Concurrent - 1
    BY DEF TupleOvershoot
  <2>1. CASE x = now'
    <3>1. /\ Cardinality(RunsWithin(RunsOf(t)', Day, x)) + Cardinality(Waiting(t)')
               <= PerTuple + Concurrent - 1
      BY <2>1 DEF BudgetInv, TupleInv
    <3>2. Cardinality(RunsWithin(RunsOf(t), Day, now)') \in Nat /\ Cardinality(Waiting(t)') \in Nat
      <4>1. GapInv' /\ IsFiniteSet(autoRuns') /\ IsFiniteSet(Admitted')
        BY DEF BudgetInv, GapInv
      <4>2. RunsWithin(RunsOf(t), Day, now)' \subseteq autoRuns' /\ Waiting(t)' \subseteq Admitted'
        BY DEF RunsWithin, RunsOf, Waiting
      <4> QED BY <4>1, <4>2, Smaller
    <3> QED BY <2>1, <3>1, <3>2
  <2>2. CASE x # now'
    BY <1>1, <2>2 DEF TupleOvershoot
  <2> QED BY <2>1, <2>2
<1>3. HourOvershoot'
  <2> SUFFICES ASSUME NEW x \in 0..now'
               PROVE  Cardinality(RunsWithin(autoRuns', Hour, x)) <= GlobalPerHour + Concurrent - 1
    BY DEF HourOvershoot
  <2>1. CASE x = now'
    <3>1. Cardinality(RunsWithin(autoRuns', Hour, x)) + Cardinality(Admitted') <= GlobalPerHour + Concurrent - 1
      BY <2>1 DEF BudgetInv, HourInv
    <3>2. Cardinality(RunsWithin(autoRuns', Hour, x)) \in Nat /\ Cardinality(Admitted') \in Nat
      BY Smaller DEF BudgetInv, GapInv, RunsWithin
    <3> QED BY <3>1, <3>2
  <2>2. CASE x # now'
    <3>1. x \in 0..now /\ \A r : r \in autoRuns' /\ r.at <= x <=> r \in autoRuns /\ r.at <= x
      BY <2>2, PastIsPast
    <3>2. RunsWithin(autoRuns', Hour, x) = RunsWithin(autoRuns, Hour, x)
      BY <3>1 DEF RunsWithin
    <3> QED BY <3>1, <3>2 DEF HourOvershoot
  <2> QED BY <2>1, <2>2
<1> QED BY <1>2, <1>3

(* A handler in the gap is paid for in advance: at every moment each limit *)
(* is exceeded by less than the number of handlers that fit into the gap.  *)
THEOREM OvershootBounded == LimitsSpec => [](TupleOvershoot /\ HourOvershoot)
<1>1. LimitsInit => TupleOvershoot /\ HourOvershoot
  <2> SUFFICES ASSUME LimitsInit PROVE TupleOvershoot /\ HourOvershoot
    OBVIOUS
  <2>1. autoRuns = {} /\ now = 0
    BY DEF LimitsInit, GrantsInit
  <2>2. \A t \in Tuple, x \in 0..now : RunsWithin(RunsOf(t), Day, x) = {}
    BY <2>1 DEF RunsWithin, RunsOf
  <2>3. \A x \in 0..now : RunsWithin(autoRuns, Hour, x) = {}
    BY <2>1 DEF RunsWithin
  <2> QED BY <2>2, <2>3, FS_EmptySet, GrantsAssumption, ConcurrentAssumption
          DEF TupleOvershoot, HourOvershoot
<1> QED BY <1>1, BudgetInitially, BudgetKept, OvershootKept, PTL DEF LimitsSpec

(* In no hour do the counted runs exceed GLOBAL_PER_HOUR by as many as fit *)
(* into the gap (HourOvershoot).                                           *)
THEOREM HourLimitBounded == LimitsSpec => []HourOvershoot
  BY OvershootBounded, PTL

(* After a Revoke tap or a failed verification only the handlers that were *)
(* in the gap at that moment are still counted.                            *)
THEOREM EndedRunsStop == LimitsSpec => []EndedStopsRuns
<1>1. BudgetInv => EndedStopsRuns
  <2> SUFFICES ASSUME BudgetInv, NEW t \in Tuple, grants[t].status = "ended"
               PROVE  Cardinality(RunsAfterEnd(t)) <= Concurrent
    BY DEF EndedStopsRuns, RunsAfterEnd
  <2>1. Cardinality(RunsAfterEnd(t)) + Cardinality(Waiting(t)) <= Concurrent
    BY DEF BudgetInv, EndedInv
  <2>2. Cardinality(RunsAfterEnd(t)) \in Nat /\ Cardinality(Waiting(t)) \in Nat
    BY Finite, FS_CardinalityType DEF BudgetInv
  <2> QED BY <2>1, <2>2, ConcurrentAssumption
<1> QED BY <1>1, BudgetInitially, BudgetKept, PTL DEF LimitsSpec
==============================================================================
