------------------------------- MODULE HostProofs -------------------------------
(***************************************************************************)
(* Proofs about the two programs of the Proxmox host itself: the weekly    *)
(* update, for any sets of containers and VMs, any order, exception lists  *)
(* and settings, and any number of runs, cuts and changes of the world     *)
(* around them; and the alert for the thin pool that the guests live in.   *)
(***************************************************************************)
EXTENDS HomelabUpdate, ThinpoolAlert, SequenceTheorems, TLAPS

------------------------------------------------------------------------------
(* The run by itself: how far it is, and what may stand at each place *)

RunRow ==
  [n : Nat, dry : BOOLEAN, at : Place \union {"none"}, todo : Seq(Target), polls : 0..MaxPolls,
   failed : SUBSET Target, skipped : SUBSET Target, unread : BOOLEAN, beside : SUBSET Vm]

(* todo is what is left of Targets, and Done(todo) is the rest of it. *)
OnList(todo) ==
  /\ Len(todo) <= Len(Targets)
  /\ \A i \in 1..Len(todo) : todo[i] = Targets[Len(Targets) - Len(todo) + i]
Done(todo) == {Targets[i] : i \in 1..(Len(Targets) - Len(todo))}

Idle == {"none", "trim", "report"}  \* places before no target

(* What is true of the target at each place of its chain of gates. *)
StandsAt(place, x, dry) ==
  /\ place \in {"retire", "pool", "snapshot", "drop"} => x \in Ct
  /\ place \in {"pool", "snapshot", "drop"} => x \notin NoSnapshot
  /\ place \in {"launch", "poll", "audit"} => x \in Vm
  /\ place = "apt" => x \notin Vm
  /\ place \in {"drop", "poll", "audit"} => ~dry

RunInv ==
  /\ runs \in Nat /\ run \in RunRow
  /\ run.todo = <<>> <=> run.at \in Idle
  /\ OnList(run.todo)
  /\ run.at = "none" => run = NoRun
  /\ run.at # "none" => run.n = runs /\ (run.dry \/ runs > 0)
  /\ StandsAt(run.at, Current, run.dry)
  /\ run.failed \intersect run.skipped \subseteq Ct
  /\ (run.failed \union run.skipped) \ Ct \subseteq Done(run.todo)

LEMMA TailOnList ==
  ASSUME NEW todo \in Seq(Target), todo # <<>>, OnList(todo)
  PROVE  /\ Tail(todo) \in Seq(Target) /\ OnList(Tail(todo))
         /\ Head(todo) \in Target \ Done(todo)
         /\ Done(Tail(todo)) = Done(todo) \union {Head(todo)}
         /\ Tail(todo) = <<>> <=> Len(todo) = 1
<1> DEFINE before == Len(Targets) - Len(todo)
<1>1. /\ Len(todo) \in Nat /\ Len(todo) > 0 /\ Len(Targets) \in Nat /\ before \in Nat
      /\ Len(todo) <= Len(Targets)
  BY UpdateAssumption DEF OnList
<1>2. Tail(todo) \in Seq(Target) /\ Len(Tail(todo)) = Len(todo) - 1
  BY <1>1
<1>3. \A i \in 1..Len(Tail(todo)) : Tail(todo)[i] = todo[i + 1]
  BY <1>1
<1>4. Head(todo) = todo[1] /\ Head(todo) = Targets[before + 1]
  BY <1>1 DEF OnList
<1>5. OnList(Tail(todo))
  <2> SUFFICES ASSUME NEW i \in 1..Len(Tail(todo))
               PROVE  Tail(todo)[i] = Targets[Len(Targets) - Len(Tail(todo)) + i]
    BY <1>1, <1>2 DEF OnList
  <2>1. i + 1 \in 1..Len(todo) /\ Len(Targets) - Len(Tail(todo)) + i = before + (i + 1)
    BY <1>1, <1>2
  <2>2. todo[i + 1] = Targets[before + (i + 1)]
    BY <2>1 DEF OnList
  <2> QED BY <1>3, <2>1, <2>2
<1>6. Head(todo) \in Target /\ Head(todo) \notin Done(todo)
  <2>1. before + 1 \in 1..Len(Targets)
    BY <1>1
  <2>2. Targets[before + 1] \in Target
    BY <2>1, UpdateAssumption
  <2> QED BY <1>1, <1>4, <2>1, <2>2, UpdateAssumption DEF Done
<1>7. Done(Tail(todo)) = Done(todo) \union {Head(todo)}
  <2>1. 1..(Len(Targets) - Len(Tail(todo))) = 1..before \union {before + 1}
    BY <1>1, <1>2
  <2> QED BY <1>4, <2>1 DEF Done
<1>8. Tail(todo) = <<>> <=> Len(todo) = 1
  <2>1. /\ Len(<<>>) = 0
        /\ \A s \in Seq(Target) : s # <<>> => Len(s) \in Nat \ {0}
    BY EmptySeq
  <2>2. Tail(todo) # <<>> => Len(todo) # 1
    BY <1>1, <1>2, <2>1
  <2>3. ASSUME Tail(todo) = <<>>
        PROVE  Len(todo) = 1
    <3>1. Len(Tail(todo)) = 0
      BY <2>1, <2>3, Zenon
    <3>2. Len(todo) - 1 = 0
      BY <1>2, <3>1, Zenon
    <3> QED BY <1>1, <3>2
  <2> QED BY <2>2, <2>3
<1> QED BY <1>2, <1>5, <1>6, <1>7, <1>8

(* What a step of each kind does to the columns of the run. *)
LEMMA StepsAlong ==
  ASSUME RunInv, runs' = runs, run.at \notin Idle,
         NEW place \in Place \ Idle, To(place), StandsAt(place, Current, run.dry)
  PROVE  RunInv'
<1>1. /\ run' \in RunRow /\ run'.at = place /\ run'.todo = run.todo /\ run'.n = run.n
      /\ run'.dry = run.dry /\ run'.failed = run.failed /\ run'.skipped = run.skipped
  BY DEF RunInv, RunRow, To, Place
<1>2. place # "none" /\ run.at # "none"
  BY DEF Idle
<1> QED BY <1>1, <1>2 DEF RunInv, Current

LEMMA MovesOn ==
  ASSUME RunInv, run.at \notin Idle, NextTarget \/ Failed \/ Skipped
  PROVE  /\ run' \in RunRow /\ run'.n = run.n /\ run'.dry = run.dry /\ run'.todo = Tail(run.todo)
         /\ run'.at = IF Len(run.todo) = 1 THEN "trim" ELSE "status"
         /\ run'.beside = run.beside
         /\ NextTarget => run'.failed = run.failed /\ run'.skipped = run.skipped
         /\ Failed => run'.failed = run.failed \union {Current} /\ run'.skipped = run.skipped
         /\ Skipped => run'.failed = run.failed /\ run'.skipped = run.skipped \union {Current}
<1>1. run \in RunRow /\ run.todo # <<>> /\ OnList(run.todo)
  BY DEF RunInv
<1>2. Tail(run.todo) \in Seq(Target) /\ Current \in Target
  BY <1>1, TailOnList DEF RunRow, Current
<1>3. 0 \in 0..MaxPolls
  BY UpdateAssumption
<1>4. /\ Following \in RunRow /\ Following.n = run.n /\ Following.dry = run.dry
      /\ Following.todo = Tail(run.todo) /\ Following.beside = run.beside
      /\ Following.at = IF Len(run.todo) = 1 THEN "trim" ELSE "status"
      /\ Following.failed = run.failed /\ Following.skipped = run.skipped
  BY <1>1, <1>2, <1>3 DEF Following, RunRow, Place
<1> HIDE DEF Following
<1>5. ASSUME NextTarget
      PROVE  run' \in RunRow /\ run'.failed = run.failed /\ run'.skipped = run.skipped
  BY <1>4, <1>5 DEF NextTarget
<1>6. ASSUME Failed
      PROVE  /\ run' \in RunRow /\ run'.failed = run.failed \union {Current}
             /\ run'.skipped = run.skipped
  BY <1>2, <1>4, <1>6 DEF Failed, RunRow
<1>7. ASSUME Skipped
      PROVE  /\ run' \in RunRow /\ run'.failed = run.failed
             /\ run'.skipped = run.skipped \union {Current}
  BY <1>2, <1>4, <1>7 DEF Skipped, RunRow
<1>8. /\ run'.n = run.n /\ run'.dry = run.dry /\ run'.todo = Tail(run.todo)
      /\ run'.at = IF Len(run.todo) = 1 THEN "trim" ELSE "status"
      /\ run'.beside = run.beside
  BY <1>4 DEF NextTarget, Failed, Skipped, RunRow
<1> QED BY <1>5, <1>6, <1>7, <1>8

LEMMA MovesOnFits ==
  ASSUME RunInv, runs' = runs, run.at \notin Idle, NextTarget \/ Failed \/ Skipped
  PROVE  RunInv'
<1>1. /\ run' \in RunRow /\ run'.n = run.n /\ run'.dry = run.dry /\ run'.todo = Tail(run.todo)
      /\ run'.at = IF Len(run.todo) = 1 THEN "trim" ELSE "status"
      /\ \/ run'.failed = run.failed \union {Current} /\ run'.skipped = run.skipped
         \/ run'.failed = run.failed /\ run'.skipped = run.skipped \union {Current}
         \/ run'.failed = run.failed /\ run'.skipped = run.skipped
  BY MovesOn
<1>2. /\ OnList(Tail(run.todo)) /\ Current \notin Done(run.todo)
      /\ Done(run'.todo) = Done(run.todo) \union {Current}
      /\ Tail(run.todo) = <<>> <=> Len(run.todo) = 1
  BY <1>1, TailOnList DEF RunInv, RunRow, Current
<1>3. run'.todo = <<>> <=> run'.at \in Idle
  BY <1>1, <1>2 DEF Idle
<1>4. StandsAt(run'.at, Current', run'.dry) /\ run'.at # "none"
  BY <1>1 DEF StandsAt
<1>5. run.n = runs /\ (run.dry \/ runs > 0)
  BY DEF RunInv, Idle
<1>6. run'.failed \intersect run'.skipped \subseteq Ct
  BY <1>1, <1>2 DEF RunInv
<1> QED BY <1>1, <1>2, <1>3, <1>4, <1>5, <1>6 DEF RunInv

LEMMA CurrentTarget ==
  ASSUME RunInv, run.at \notin Idle
  PROVE  Current \in Target \ Done(run.todo)
  BY TailOnList DEF RunInv, RunRow, Current

LEMMA NoRunFits ==
  ASSUME runs' \in Nat, run' = NoRun
  PROVE  RunInv'
<1>1. NoRun \in RunRow
  BY UpdateAssumption DEF NoRun, RunRow
<1>2. OnList(<<>>)
  BY UpdateAssumption DEF OnList
<1> QED BY <1>1, <1>2 DEF RunInv, NoRun, Idle, StandsAt

LEMMA BeginFits ==
  ASSUME RunInv, NEW dry \in BOOLEAN, Begin(dry)
  PROVE  RunInv'
<1>1. /\ runs \in Nat /\ runs' \in Nat /\ Len(Targets) \in Nat /\ Len(Targets) > 0
      /\ Targets \in Seq(Target) /\ 0 \in 0..MaxPolls
  BY UpdateAssumption DEF RunInv, Begin
<1>2. /\ run' \in RunRow /\ run'.n = runs' /\ run'.dry = dry /\ run'.at = "status"
      /\ run'.todo = Targets /\ run'.failed = {} /\ run'.skipped = {}
  BY <1>1 DEF Begin, NoRun, RunRow, Place
<1>3. OnList(Targets)
  BY <1>1 DEF OnList
<1>4. Targets # <<>> /\ "status" \notin Idle
  BY <1>1 DEF Idle
<1>5. dry \/ runs' > 0
  BY <1>1 DEF Begin
<1>6. StandsAt("status", Current', dry)
  BY DEF StandsAt
<1> QED BY <1>1, <1>2, <1>3, <1>4, <1>5, <1>6 DEF RunInv

(* A poll counts itself, a launch notes whom it met, a listing that failed *)
(* is noted: the rest of the run stays.                                    *)
LEMMA NotesFit ==
  ASSUME RunInv, runs' = runs, run.at \notin Idle,
         \/ /\ At("poll") /\ run.polls < MaxPolls
            /\ run' = [run EXCEPT !.polls = @ + 1]
         \/ Polls /\ Current \in Vm /\ ~run.dry
         \/ /\ Current \in Snapshotted
            /\ run' = [run EXCEPT !.at = "pool", !.unread = TRUE]
  PROVE  RunInv'
<1>1. run \in RunRow /\ run.at # "none"
  BY DEF RunInv, Idle
<1>2. /\ run'.todo = run.todo /\ run'.n = run.n
      /\ run'.dry = run.dry /\ run'.failed = run.failed /\ run'.skipped = run.skipped
      /\ run'.at \in {"poll", "pool"}
  BY <1>1 DEF RunRow, Polls, At
<1>3. run' \in RunRow
  <2>1. CASE At("poll") /\ run.polls < MaxPolls /\ run' = [run EXCEPT !.polls = @ + 1]
    <3>1. run.polls + 1 \in 0..MaxPolls
      BY <1>1, <2>1, UpdateAssumption DEF RunRow
    <3> QED BY <1>1, <2>1, <3>1 DEF RunRow
  <2>2. CASE Polls /\ Current \in Vm
    BY <1>1, <2>2 DEF Polls, RunRow, Place
  <2>3. CASE run' = [run EXCEPT !.at = "pool", !.unread = TRUE]
    BY <1>1, <2>3 DEF RunRow, Place
  <2> QED BY <2>1, <2>2, <2>3
<1>4. StandsAt(run'.at, Current, run.dry)
  BY <1>1 DEF RunInv, Polls, At, StandsAt, Snapshotted, RunRow
<1>5. run'.at \notin Idle
  BY <1>2 DEF Idle
<1> QED BY <1>1, <1>2, <1>3, <1>4, <1>5 DEF RunInv, Current

LEMMA TrimFits ==
  ASSUME RunInv, runs' = runs, Trim
  PROVE  RunInv'
<1>1. run \in RunRow /\ run.at = "trim" /\ run.todo = <<>>
  BY DEF RunInv, Trim, At, Idle
<1>2. PICK tried \in SUBSET Ct :
         \E bad \in SUBSET tried : run' = [run EXCEPT !.at = "report", !.failed = @ \union bad]
  BY DEF Trim
<1>3. PICK bad \in SUBSET Target :
         bad \subseteq Ct /\ run' = [run EXCEPT !.at = "report", !.failed = @ \union bad]
  BY <1>2 DEF Target
<1>4. /\ run' \in RunRow /\ run'.at = "report" /\ run'.todo = run.todo /\ run'.n = run.n
      /\ run'.dry = run.dry /\ run'.failed = run.failed \union bad /\ run'.skipped = run.skipped
  BY <1>1, <1>3 DEF RunRow, Place
<1>5. StandsAt("report", Current', run.dry)
  BY DEF StandsAt
<1> QED BY <1>1, <1>3, <1>4, <1>5 DEF RunInv, Idle

LEMMA StepFits ==
  ASSUME RunInv, runs' = runs, Step
  PROVE  RunInv'
<1> USE DEF At
<1>0. ASSUME run.at \notin Idle, NextTarget \/ Failed \/ Skipped
      PROVE  RunInv'
  BY <1>0, MovesOnFits
<1>1. ASSUME run.at \notin Idle, NEW place \in Place \ Idle, To(place),
             StandsAt(place, Current, run.dry)
      PROVE  RunInv'
  BY <1>1, StepsAlong
<1>2. CASE Status
  <2>1. "holds" \in Place \ Idle /\ StandsAt("holds", Current, run.dry) /\ run.at \notin Idle
    BY <1>2 DEF Status, Place, Idle, StandsAt
  <2> QED BY <1>0, <1>1, <1>2, <2>1 DEF Status
<1>3. CASE CheckHolds
  <2>1. run.at \notin Idle /\ {"retire", "launch", "apt"} \subseteq Place \ Idle
    BY <1>3 DEF CheckHolds, Place, Idle
  <2>2. Current \in Ct \union Vm \union {Host}
    BY <2>1, CurrentTarget DEF Target
  <2>3. CASE Current \in Ct
    <3>1. To("retire") \/ Failed
      BY <1>3, <2>3, UpdateAssumption DEF CheckHolds
    <3>2. StandsAt("retire", Current, run.dry)
      BY <2>3 DEF StandsAt
    <3> QED BY <1>0, <1>1, <2>1, <3>1, <3>2
  <2>4. CASE Current \in Vm
    <3>1. To("launch") \/ Failed
      BY <1>3, <2>4, UpdateAssumption DEF CheckHolds
    <3>2. StandsAt("launch", Current, run.dry)
      BY <2>4 DEF StandsAt
    <3> QED BY <1>0, <1>1, <2>1, <3>1, <3>2
  <2>5. CASE Current = Host
    <3>1. To("apt") \/ Failed
      BY <1>3, <2>5, UpdateAssumption DEF CheckHolds
    <3>2. StandsAt("apt", Current, run.dry)
      BY <2>5, UpdateAssumption DEF StandsAt
    <3> QED BY <1>0, <1>1, <2>1, <3>1, <3>2
  <2> QED BY <2>2, <2>3, <2>4, <2>5
<1>4. CASE Retire
  <2>1. run.at \notin Idle /\ {"pool", "apt"} \subseteq Place \ Idle
    BY <1>4 DEF Retire, Place, Idle
  <2>2. /\ Current \in NoSnapshot => StandsAt("apt", Current, run.dry)
        /\ Current \in Snapshotted => StandsAt("pool", Current, run.dry)
    BY UpdateAssumption DEF StandsAt, Snapshotted
  <2>3. CASE Current \in Snapshotted /\ run' = [run EXCEPT !.at = "pool", !.unread = TRUE]
    BY <2>1, <2>3, NotesFit
  <2> QED BY <1>0, <1>1, <1>4, <2>1, <2>2, <2>3 DEF Retire
<1>5. CASE CheckPool \/ TakeSnapshot
  <2>1. run.at \notin Idle /\ {"snapshot", "apt"} \subseteq Place \ Idle
    BY <1>5 DEF CheckPool, TakeSnapshot, Place, Idle
  <2>2. StandsAt("snapshot", Current, run.dry) /\ StandsAt("apt", Current, run.dry)
    BY <1>5, UpdateAssumption DEF RunInv, StandsAt, CheckPool, TakeSnapshot
  <2> QED BY <1>0, <1>1, <1>5, <2>1, <2>2 DEF CheckPool, TakeSnapshot
<1>6. CASE Apt \/ Drop
  <2>1. run.at \notin Idle /\ "drop" \in Place \ Idle
    BY <1>6 DEF Apt, Drop, Place, Idle
  <2>2. Current \in DropSnapshot \ NoSnapshot /\ ~run.dry => StandsAt("drop", Current, run.dry)
    BY UpdateAssumption DEF StandsAt
  <2> QED BY <1>0, <1>1, <1>6, <2>1, <2>2 DEF Apt, AptRuns, Drop
<1>7. CASE Launch
  <2>1. run.at \notin Idle /\ Current \in Vm
    BY <1>7 DEF Launch, Idle, RunInv, StandsAt
  <2>2. ASSUME Polls, ~run.dry
        PROVE  RunInv'
    BY <2>1, <2>2, NotesFit
  <2> QED BY <1>0, <1>7, <2>1, <2>2 DEF Launch
<1>8. CASE PollAgain
  <2>1. run.at \notin Idle
    BY <1>8 DEF PollAgain, Idle
  <2> QED BY <1>8, <2>1, NotesFit DEF PollAgain
<1>9. CASE PollEnds \/ Audit
  <2>1. run.at \notin Idle /\ "audit" \in Place \ Idle
    BY <1>9 DEF PollEnds, Audit, Place, Idle
  <2>2. StandsAt("audit", Current, run.dry)
    BY <1>9 DEF PollEnds, Audit, RunInv, StandsAt
  <2> QED BY <1>0, <1>1, <1>9, <2>1, <2>2 DEF PollEnds, Audit
<1>10. CASE Report
  BY <1>10, NoRunFits DEF Report, RunInv
<1> QED BY <1>2, <1>3, <1>4, <1>5, <1>6, <1>7, <1>8, <1>9, <1>10, TrimFits DEF Step

LEMMA RunKept ==
  ASSUME RunInv, [UpdateNext]_updateVars
  PROVE  RunInv'
<1>1. ASSUME run' = run, runs' = runs
      PROVE  RunInv'
  BY <1>1 DEF RunInv, Current
<1>2. CASE Step
  BY <1>2, StepFits DEF Step
<1>3. CASE Timeout \/ PowerOff
  BY <1>3, NoRunFits DEF Timeout, PowerOff, CutRun, RunInv
<1>4. ASSUME NEW u \in units, UnitEnds(u)
      PROVE  RunInv'
  BY <1>1, <1>4 DEF UnitEnds
<1>5. CASE Change \/ UNCHANGED updateVars
  BY <1>1, <1>5 DEF Change, updateVars
<1> QED BY <1>2, <1>3, <1>4, <1>5, BeginFits DEF UpdateNext

------------------------------------------------------------------------------
(* The guests: what the tables of the model may hold *)

GuestsTyped ==
  /\ running \subseteq Ct \union Vm /\ held \subseteq Target /\ poolOk \in BOOLEAN
  /\ snap \in [Ct -> 0..runs]
  /\ units \subseteq Vm \X (1..runs)
  /\ rc \in [Vm -> {"ok", "error", NoResult}]
  /\ good \subseteq Vm /\ broken \in [Tracked -> 0..runs]
  /\ touched \subseteq Command \X Target

LEMMA MarkedTyped ==
  ASSUME runs \in Nat, NEW b \in [Tracked -> 0..runs], NEW x, NEW n \in 0..runs
  PROVE  /\ Marked(b, x, n) \in [Tracked -> 0..runs]
         /\ \A y \in Tracked : Marked(b, x, n)[y] = IF y = x THEN n ELSE b[y]
  BY DEF Marked

LEMMA DoesTyped ==
  ASSUME touched \subseteq Command \X Target, NEW command \in Command,
         NEW targets \in SUBSET Target, Does(command, targets)
  PROVE  touched' \subseteq Command \X Target
  BY DEF Does

(* A step of the run takes or removes the snapshot of its target, starts a *)
(* unit, or ends apt, always under the number of the run.                  *)
LEMMA StepGuests ==
  ASSUME RunInv, GuestsTyped, runs' = runs, Step
  PROVE  GuestsTyped'
<1> USE DEF GuestsTyped
<1>0. runs \in Nat /\ (run.at # "none" => run.n \in 0..runs)
  BY DEF RunInv, At
<1>1. CASE Status \/ CheckHolds \/ CheckPool \/ PollAgain \/ PollEnds \/ Audit
  BY <1>0, <1>1 DEF Status, CheckHolds, CheckPool, PollAgain, PollEnds, Audit, world, guests
<1>2. CASE Retire \/ TakeSnapshot \/ Drop
  <2>1. run.n \in 0..runs /\ 0 \in 0..runs
    BY <1>0, <1>2 DEF RunInv, Retire, TakeSnapshot, Drop, At
  <2> QED BY <1>0, <1>2, <2>1 DEF Retire, TakeSnapshot, Drop, world
<1>3. CASE Apt
  <2>1. run.n \in 0..runs /\ 0 \in 0..runs
    BY <1>0, <1>3 DEF RunInv, Apt, At
  <2>2. broken' \in {broken, Marked(broken, Current, 0), Marked(broken, Current, run.n)}
    BY <1>3 DEF Apt, AptRuns, AptWorks, AptBreaks
  <2>3. broken' \in [Tracked -> 0..runs]
    BY <1>0, <2>1, <2>2, MarkedTyped
  <2>4. good' \subseteq Vm
    BY <1>3 DEF Apt, AptRuns, AptWorks, AptBreaks
  <2>5. Current \in Target
    BY <1>3, CurrentTarget DEF Apt, At, Idle
  <2>6. touched' = touched \/ Does("apt", {Current})
    BY <1>3 DEF Apt, AptRuns
  <2>7. touched' \subseteq Command \X Target
    BY <2>5, <2>6, DoesTyped DEF Command
  <2> QED BY <1>0, <1>3, <2>3, <2>4, <2>7 DEF Apt, world
<1>4. CASE Launch
  <2>1. Current \in Vm
    BY <1>4 DEF RunInv, StandsAt, Launch, At
  <2>2. ~run.dry => run.n \in 1..runs
    BY <1>4 DEF RunInv, Launch, At
  <2>3. touched' = touched \/ Does("apt", {Current})
    BY <1>4 DEF Launch
  <2>4. touched' \subseteq Command \X Target
    BY <2>1, <2>3, DoesTyped DEF Command, Target
  <2>5. rc' \in {rc, [rc EXCEPT ![Current] = NoResult]}
    BY <1>4 DEF Launch
  <2>6. units' \subseteq Vm \X (1..runs)
    BY <1>4, <2>1, <2>2 DEF Launch
  <2> QED BY <1>0, <1>4, <2>1, <2>4, <2>5, <2>6 DEF Launch, world
<1>5. CASE Report
  <2>1. snap' \in [Ct -> 0..runs]
    BY <1>0, <1>5 DEF Report
  <2>2. Host \in Target
    BY DEF Target
  <2>3. touched' \subseteq Command \X Target
    BY <1>5, <2>2, DoesTyped DEF Report, Command
  <2> QED BY <1>0, <1>5, <2>1, <2>3 DEF Report, world
<1>6. CASE Trim
  <2>1. PICK tried \in SUBSET Ct : Does("trim", tried)
    BY <1>6 DEF Trim
  <2>2. tried \in SUBSET Target
    BY DEF Target
  <2>3. touched' \subseteq Command \X Target
    BY <2>1, <2>2, DoesTyped DEF Command
  <2> QED BY <1>0, <1>6, <2>3 DEF Trim, world
<1> QED BY <1>1, <1>2, <1>3, <1>4, <1>5, <1>6 DEF Step

LEMMA GuestsKept ==
  ASSUME RunInv, GuestsTyped, [UpdateNext]_updateVars
  PROVE  GuestsTyped'
<1>0. runs \in Nat
  BY DEF RunInv
<1>1. CASE Step
  BY <1>1, StepGuests DEF Step
<1> USE DEF GuestsTyped
<1>2. ASSUME NEW dry \in BOOLEAN, Begin(dry)
      PROVE  GuestsTyped'
  <2>1. runs' \in Nat /\ runs <= runs'
    BY <1>0, <1>2 DEF Begin
  <2>2. 0..runs \subseteq 0..runs' /\ 1..runs \subseteq 1..runs'
    BY <1>0, <2>1
  <2>3. /\ snap' \in [Ct -> 0..runs'] /\ broken' \in [Tracked -> 0..runs']
        /\ units' \subseteq Vm \X (1..runs')
    BY <1>2, <2>2 DEF Begin
  <2> QED BY <1>2, <2>3 DEF Begin, world
<1>3. ASSUME NEW u \in units, UnitEnds(u)
      PROVE  GuestsTyped'
  <2>1. u[1] \in Vm /\ u[2] \in 0..runs /\ 0 \in 0..runs
    BY <1>0
  <2>2. broken' \in {broken, Marked(broken, u[1], 0), Marked(broken, u[1], u[2])}
    BY <1>3 DEF UnitEnds, AptWorks, AptBreaks
  <2>3. broken' \in [Tracked -> 0..runs]
    BY <1>0, <2>1, <2>2, MarkedTyped
  <2>4. rc' \in [Vm -> {"ok", "error", NoResult}] /\ good' \subseteq Vm
    BY <1>3, <2>1 DEF UnitEnds, AptWorks, AptBreaks
  <2> QED BY <1>3, <2>3, <2>4 DEF UnitEnds, world
<1>4. ASSUME NEW damage \in [Tracked -> 0..runs], CutRun(damage)
      PROVE  broken' \in [Tracked -> 0..runs] /\ touched' \subseteq Command \X Target
  <2>1. CASE broken' = damage /\ UNCHANGED touched
    BY <1>4, <2>1
  <2>2. CASE At("apt") /\ Does("apt", {Current}) /\ broken' = Marked(damage, Current, run.n)
    <3>1. run.n \in 0..runs
      BY <2>2 DEF RunInv, At
    <3>2. broken' \in [Tracked -> 0..runs]
      BY <1>0, <1>4, <2>2, <3>1, MarkedTyped
    <3>3. Current \in Target
      BY <2>2, CurrentTarget DEF At, Idle
    <3>4. touched' \subseteq Command \X Target
      BY <2>2, <3>3, DoesTyped DEF Command
    <3> QED BY <3>2, <3>4
  <2> QED BY <1>4, <2>1, <2>2 DEF CutRun
<1>5. CASE Timeout
  BY <1>4, <1>5 DEF Timeout, world
<1>6. CASE PowerOff
  <2>1. [x \in Tracked |-> IF \E u \in units : u[1] = x THEN runs ELSE broken[x]]
          \in [Tracked -> 0..runs]
    BY <1>0
  <2> QED BY <1>4, <1>6, <2>1 DEF PowerOff, world
<1>7. CASE Change
  <2>1. running' \subseteq Ct \union Vm /\ held' \subseteq Target /\ poolOk' \in BOOLEAN
    BY <1>7 DEF Change
  <2> QED BY <1>7, <2>1 DEF Change, guests
<1>8. CASE UNCHANGED updateVars
  BY <1>8 DEF updateVars, world, guests
<1> QED BY <1>1, <1>2, <1>3, <1>5, <1>6, <1>7, <1>8 DEF UpdateNext

LEMMA TypesFromParts == RunInv /\ GuestsTyped => UpdateTypeOK
<1> SUFFICES ASSUME RunInv, GuestsTyped PROVE UpdateTypeOK
  OBVIOUS
<1>1. /\ run.beside \subseteq Vm /\ run.at \in Place \union {"none"}
      /\ run.polls \in 0..MaxPolls
  BY DEF RunInv, RunRow
<1> QED BY <1>1 DEF RunInv, GuestsTyped, UpdateTypeOK, Idle

LEMMA StartFits == UpdateInit => RunInv /\ GuestsTyped
<1> SUFFICES ASSUME UpdateInit PROVE RunInv /\ GuestsTyped
  OBVIOUS
<1>1. NoRun \in RunRow /\ OnList(<<>>)
  BY UpdateAssumption DEF NoRun, RunRow, OnList
<1>2. RunInv
  BY <1>1 DEF UpdateInit, RunInv, NoRun, Idle, StandsAt
<1>3. GuestsTyped
  BY DEF UpdateInit, GuestsTyped, Target
<1> QED BY <1>2, <1>3

LEMMA GuestsInvariant == UpdateSpec => [](RunInv /\ GuestsTyped)
  BY StartFits, RunKept, GuestsKept, PTL DEF UpdateSpec

(* A run stands at one of its places before one of its targets, and        *)
(* snapshots, results and units are those of runs that began               *)
(* (UpdateTypeOK).                                                         *)
THEOREM UpdateTyped == UpdateSpec => []UpdateTypeOK
  BY GuestsInvariant, TypesFromParts, PTL

------------------------------------------------------------------------------
(* A dry run *)

(* A dry run takes or removes no snapshot, starts apt nowhere, be it in a  *)
(* container, in a VM or on the host, trims nothing, replaces no report    *)
(* and removes no result (DryRunTouchesNothing).                           *)
THEOREM DryRunsTouchNothing == UpdateSpec => DryRunTouchesNothing
<1>1. ASSUME RunInv, UpdateNext, run.dry, run' # run
      PROVE  UNCHANGED <<snap, rc, good, touched>> /\ units' \subseteq units
  <2>0. ~At("drop")
    BY <1>1 DEF RunInv, StandsAt, At
  <2>1. CASE Step
    <3>1. CASE Status \/ CheckHolds \/ CheckPool \/ PollAgain \/ PollEnds \/ Audit
      BY <3>1 DEF Status, CheckHolds, CheckPool, PollAgain, PollEnds, Audit, guests
    <3>2. CASE Retire \/ TakeSnapshot \/ Drop
      BY <1>1, <2>0, <3>2 DEF Retire, TakeSnapshot, Drop
    <3>3. CASE Apt \/ Launch
      BY <1>1, <3>3 DEF Apt, Launch
    <3>4. CASE Trim
      <4>1. Does("trim", {})
        BY <1>1, <3>4 DEF Trim
      <4> QED BY <3>4, <4>1 DEF Trim, Does
    <3>5. CASE Report
      <4>1. Does("report", {})
        BY <1>1, <3>5 DEF Report
      <4> QED BY <1>1, <3>5, <4>1 DEF Report, Does
    <3> QED BY <2>1, <3>1, <3>2, <3>3, <3>4, <3>5 DEF Step
  <2>2. CASE Timeout \/ PowerOff
    BY <1>1, <2>2 DEF Timeout, PowerOff, CutRun
  <2>3. CASE (\E u \in units : UnitEnds(u)) \/ Change
    BY <1>1, <2>3 DEF UnitEnds, Change
  <2>4. ASSUME NEW dry \in BOOLEAN, Begin(dry)
        PROVE  FALSE
    BY <1>1, <2>4 DEF Begin, NoRun
  <2> QED BY <1>1, <2>1, <2>2, <2>3, <2>4 DEF UpdateNext
<1>2. RunInv /\ [UpdateNext]_updateVars
        => [run.dry /\ run' # run => /\ UNCHANGED <<snap, rc, good, touched>>
                                    /\ units' \subseteq units]_updateVars
  BY <1>1
<1> QED BY <1>2, GuestsInvariant, PTL DEF UpdateSpec, DryRunTouchesNothing

------------------------------------------------------------------------------
(* Snapshots *)

(* The snapshot of the target before the run: gone when the pool is looked *)
(* at, that of this run when apt starts.                                   *)
GateFits ==
  /\ At("pool") /\ ~run.dry => snap[Current] = 0 \/ run.unread
  /\ At("apt") /\ ~run.dry /\ Current \in Snapshotted => snap[Current] = run.n

(* Only the run itself changes a snapshot, and only at these places. *)
LEMMA SnapshotsStay ==
  ASSUME RunInv, UpdateNext
  PROVE  \/ snap' = snap
         \/ (Retire \/ TakeSnapshot \/ Drop \/ Report) /\ UNCHANGED <<runs, broken>> /\ ~run.dry
<1>1. ASSUME NEW dry \in BOOLEAN, Begin(dry)
      PROVE  snap' = snap
  BY <1>1 DEF Begin
<1>2. CASE (\E u \in units : UnitEnds(u)) \/ Timeout \/ PowerOff \/ Change
  BY <1>2 DEF UnitEnds, Timeout, PowerOff, Change, guests
<1>3. CASE Step
  <2>1. CASE Status \/ CheckHolds \/ CheckPool \/ PollAgain \/ PollEnds \/ Audit \/ Trim
    BY <2>1 DEF Status, CheckHolds, CheckPool, PollAgain, PollEnds, Audit, Trim, guests
  <2>2. CASE Apt \/ Launch
    BY <2>2 DEF Apt, Launch
  <2>3. CASE Retire \/ TakeSnapshot
    BY <1>3, <2>3 DEF Step, Retire, TakeSnapshot
  <2>4. CASE Report
    BY <1>3, <2>4 DEF Step, Report
  <2>5. CASE Drop
    BY <1>3, <2>5 DEF Step, Drop, RunInv, StandsAt, At
  <2> QED BY <1>3, <2>1, <2>2, <2>3, <2>4, <2>5 DEF Step
<1> QED BY <1>1, <1>2, <1>3 DEF UpdateNext

LEMMA GatesKept ==
  ASSUME RunInv, GuestsTyped, GateFits, [UpdateNext]_updateVars
  PROVE  GateFits'
<1> USE DEF At
<1>0. run \in RunRow /\ snap \in [Ct -> 0..runs]
  BY DEF RunInv, GuestsTyped
<1>1. ASSUME run'.at \notin {"pool", "apt"}
      PROVE  GateFits'
  BY <1>1 DEF GateFits
<1>2. ASSUME run' = run, snap' = snap
      PROVE  GateFits'
  BY <1>2 DEF GateFits, Current
<1>3. CASE Step
  <2>1. ASSUME NextTarget \/ Failed \/ Skipped, run.at \notin Idle
        PROVE  GateFits'
    BY <1>1, <2>1, MovesOn
  <2>2. ASSUME NEW place \in Place, To(place)
        PROVE  /\ run'.at = place /\ run'.dry = run.dry /\ run'.n = run.n
               /\ run'.todo = run.todo /\ run'.unread = run.unread
    BY <1>0, <2>2 DEF To, RunRow
  <2>3. CASE CheckHolds
    <3>1. run.at \notin Idle /\ Current \in Ct \union Vm \union {Host}
      BY <2>3, CurrentTarget DEF CheckHolds, Idle, Target
    <3>2. To("retire") \/ To("launch") \/ (To("apt") /\ Current = Host) \/ Failed
      BY <2>3, <3>1, UpdateAssumption DEF CheckHolds
    <3>3. ASSUME To("apt"), Current = Host
          PROVE  GateFits'
      <4>1. run'.at = "apt" /\ Current' \notin Snapshotted
        BY <2>2, <3>3, UpdateAssumption DEF Place, Current, Snapshotted
      <4> QED BY <4>1 DEF GateFits
    <3>4. To("retire") \/ To("launch") => run'.at \notin {"pool", "apt"}
      BY <2>2 DEF Place
    <3> QED BY <1>1, <2>1, <3>1, <3>2, <3>3, <3>4
  <2>4. CASE Retire
    <3>0. run.at \notin Idle
      BY <2>4 DEF Retire, Idle
    <3>1. ASSUME Current \in NoSnapshot, To("apt")
          PROVE  GateFits'
      <4>1. run'.at = "apt" /\ Current' \notin Snapshotted
        BY <2>2, <3>1 DEF Place, Current, Snapshotted
      <4> QED BY <4>1 DEF GateFits
    <3>2. ASSUME To("pool"), run.dry \/ snap'[Current] = 0
          PROVE  GateFits'
      <4>1. run'.at = "pool" /\ run'.dry = run.dry /\ Current' = Current
        BY <2>2, <3>2 DEF Place, Current
      <4> QED BY <3>2, <4>1 DEF GateFits
    <3>3. ASSUME run' = [run EXCEPT !.at = "pool", !.unread = TRUE]
          PROVE  GateFits'
      <4>1. run'.at = "pool" /\ run'.unread
        BY <1>0, <3>3 DEF RunRow
      <4> QED BY <4>1 DEF GateFits
    <3>4. Current \in Snapshotted => Current \in Ct
      BY DEF Snapshotted
    <3> QED BY <1>0, <2>1, <2>4, <3>0, <3>1, <3>2, <3>3, <3>4 DEF Retire
  <2>5. CASE TakeSnapshot
    <3>0. run.at \notin Idle /\ Current \in Ct
      BY <2>5 DEF TakeSnapshot, Idle, RunInv, StandsAt
    <3>1. ASSUME To("apt"), run.dry \/ snap'[Current] = run.n
          PROVE  GateFits'
      <4>1. run'.at = "apt" /\ run'.dry = run.dry /\ run'.n = run.n /\ Current' = Current
        BY <2>2, <3>1 DEF Place, Current
      <4> QED BY <3>1, <4>1 DEF GateFits
    <3> QED BY <1>0, <2>1, <2>5, <3>0, <3>1 DEF TakeSnapshot
  <2>6. CASE Status \/ CheckPool \/ PollEnds \/ Audit
    <3>1. run.at \notin Idle
      BY <2>6 DEF Status, CheckPool, PollEnds, Audit, Idle
    <3>2. To("holds") \/ To("snapshot") \/ To("audit") => run'.at \notin {"pool", "apt"}
      BY <2>2 DEF Place
    <3> QED BY <1>1, <2>1, <2>6, <3>1, <3>2 DEF Status, CheckPool, PollEnds, Audit
  <2>7. CASE Apt \/ Drop
    <3>1. run.at \notin Idle
      BY <2>7 DEF Apt, Drop, Idle
    <3>2. To("drop") => run'.at \notin {"pool", "apt"}
      BY <2>2 DEF Place
    <3> QED BY <1>1, <2>1, <2>7, <3>1, <3>2 DEF Apt, AptRuns, Drop
  <2>8. CASE Launch \/ PollAgain
    <3>1. run.at \notin Idle
      BY <2>8 DEF Launch, PollAgain, Idle
    <3>2. Polls \/ PollAgain => run'.at \notin {"pool", "apt"}
      BY <1>0 DEF Polls, PollAgain, RunRow
    <3> QED BY <1>1, <2>1, <2>8, <3>1, <3>2 DEF Launch
  <2>9. CASE Trim \/ Report
    <3>1. Trim => \E bad : run' = [run EXCEPT !.at = "report", !.failed = @ \union bad]
      BY DEF Trim
    <3>2. Trim => run'.at = "report"
      BY <1>0, <3>1 DEF RunRow
    <3>3. Report => run'.at = "none"
      BY DEF Report, NoRun
    <3> QED BY <1>1, <2>9, <3>2, <3>3
  <2> QED BY <1>3, <2>3, <2>4, <2>5, <2>6, <2>7, <2>8, <2>9 DEF Step
<1>4. ASSUME NEW dry \in BOOLEAN, Begin(dry)
      PROVE  GateFits'
  BY <1>1, <1>4 DEF Begin, NoRun
<1>5. CASE Timeout \/ PowerOff
  BY <1>1, <1>5 DEF Timeout, PowerOff, CutRun, NoRun
<1>6. CASE (\E u \in units : UnitEnds(u)) \/ Change \/ UNCHANGED updateVars
  BY <1>2, <1>6 DEF UnitEnds, Change, updateVars, guests
<1> QED BY <1>3, <1>4, <1>5, <1>6 DEF UpdateNext

LEMMA GatesInvariant == UpdateSpec => [](RunInv /\ GuestsTyped /\ GateFits)
<1>1. UpdateInit => GateFits
  BY DEF UpdateInit, GateFits, NoRun, At
<1> QED BY <1>1, GatesKept, GuestsInvariant, PTL DEF UpdateSpec

(* A container that a full pool keeps from being updated has no old        *)
(* snapshot that would go on growing, unless the run could not list it     *)
(* (PoolGuardRetires).                                                     *)
THEOREM PoolGuardRetiresFirst == UpdateSpec => PoolGuardRetires
<1>1. GateFits => [At("pool") /\ ~run.dry /\ run'.failed # run.failed =>
                     snap[Current] = 0 \/ run.unread]_updateVars
  BY DEF GateFits
<1> QED BY <1>1, GatesInvariant, PTL DEF PoolGuardRetires

(* Until it ends, a run only adds to what it has done and to its lists. *)
LEMMA StepGrows ==
  ASSUME RunInv, Step
  PROVE  /\ run.at # "none"
         /\ \/ run' = NoRun
            \/ /\ run'.dry = run.dry /\ run'.n = run.n
               /\ run.failed \subseteq run'.failed /\ run.skipped \subseteq run'.skipped
               /\ run.beside \subseteq run'.beside
               /\ Done(run.todo) \subseteq Done(run'.todo)
<1> DEFINE Grows == /\ run'.dry = run.dry /\ run'.n = run.n
                    /\ run.failed \subseteq run'.failed /\ run.skipped \subseteq run'.skipped
                    /\ run.beside \subseteq run'.beside
                    /\ Done(run.todo) \subseteq Done(run'.todo)
<1>0. run \in RunRow
  BY DEF RunInv
<1>1. ASSUME NextTarget \/ Failed \/ Skipped, run.at \notin Idle
      PROVE  Grows
  BY <1>1, MovesOn, TailOnList DEF RunInv, RunRow, Current
<1>2. ASSUME NEW place, To(place)
      PROVE  Grows
  BY <1>0, <1>2 DEF To, RunRow
<1>3. ASSUME \/ Polls
             \/ run' = [run EXCEPT !.polls = @ + 1]
             \/ run' = [run EXCEPT !.at = "pool", !.unread = TRUE]
             \/ \E bad : run' = [run EXCEPT !.at = "report", !.failed = @ \union bad]
      PROVE  Grows
  <2>1. CASE Polls
    BY <1>0, <2>1 DEF Polls, RunRow
  <2>2. CASE run' = [run EXCEPT !.polls = @ + 1]
    BY <1>0, <2>2 DEF RunRow
  <2>3. CASE run' = [run EXCEPT !.at = "pool", !.unread = TRUE]
    BY <1>0, <2>3 DEF RunRow
  <2>4. ASSUME NEW bad, run' = [run EXCEPT !.at = "report", !.failed = @ \union bad]
        PROVE  Grows
    <3>1. /\ run'.dry = run.dry /\ run'.n = run.n /\ run'.skipped = run.skipped
          /\ run'.beside = run.beside /\ run'.todo = run.todo
          /\ run'.failed = run.failed \union bad
      BY <1>0, <2>4 DEF RunRow
    <3> QED BY <3>1
  <2> QED BY <1>3, <2>1, <2>2, <2>3, <2>4
<1> HIDE DEF Grows
<1>4. CASE CheckHolds
  <2>1. run.at \notin Idle /\ Current \in Ct \union Vm \union {Host}
    BY <1>4, CurrentTarget DEF CheckHolds, Idle, Target, At
  <2>2. To("retire") \/ To("launch") \/ To("apt") \/ Failed
    BY <1>4, <2>1, UpdateAssumption DEF CheckHolds
  <2> QED BY <1>1, <1>2, <1>4, <2>1, <2>2 DEF Grows, CheckHolds, At
<1>5. CASE Status \/ Retire \/ CheckPool \/ TakeSnapshot \/ Apt \/ Drop
  <2>1. run.at \notin Idle
    BY <1>5 DEF Status, Retire, CheckPool, TakeSnapshot, Apt, Drop, Idle, At
  <2>2. Grows
    BY <1>1, <1>2, <1>3, <1>5, <2>1 DEF Status, Retire, CheckPool, TakeSnapshot, Apt, AptRuns, Drop
  <2> QED BY <2>1, <2>2 DEF Grows, Idle
<1>6. CASE Launch \/ PollAgain \/ PollEnds \/ Audit
  <2>1. run.at \notin Idle
    BY <1>6 DEF Launch, PollAgain, PollEnds, Audit, Idle, At
  <2>2. Grows
    BY <1>1, <1>2, <1>3, <1>6, <2>1 DEF Launch, PollAgain, PollEnds, Audit
  <2> QED BY <2>1, <2>2 DEF Grows, Idle
<1>7. CASE Trim
  <2>1. \E bad : run' = [run EXCEPT !.at = "report", !.failed = @ \union bad]
    BY <1>7 DEF Trim
  <2> QED BY <1>3, <1>7, <2>1 DEF Trim, Grows, At
<1>8. CASE Report
  BY <1>8 DEF Report, At
<1> QED BY <1>4, <1>5, <1>6, <1>7, <1>8 DEF Step

(* A container that the last run broke is one that this run listed as      *)
(* failed, so no later gate of the same run takes its snapshot away.       *)
RollbackAt(c) ==
  /\ broken[c] # 0 => snap[c] = broken[c] \/ broken[c] < runs
  /\ run.at # "none" /\ ~run.dry /\ broken[c] = runs
       => c \in Done(run.todo) \intersect run.failed

RollbackFits == \A c \in Snapshotted : RollbackAt(c)

LEMMA RollbackStep ==
  ASSUME RunInv, GuestsTyped, GateFits, UpdateNext, Step,
         NEW c \in Snapshotted, RollbackAt(c)
  PROVE  RollbackAt(c)'
<1> USE DEF At
<1>0. /\ c \in Ct /\ c \in Tracked /\ runs \in Nat /\ run \in RunRow /\ runs' = runs
      /\ broken \in [Tracked -> 0..runs] /\ broken[c] \in 0..runs /\ snap \in [Ct -> 0..runs]
      /\ run.at # "none"
  BY StepGrows DEF Snapshotted, Tracked, RunInv, GuestsTyped, Step
<1>1. /\ broken[c] # 0 => snap[c] = broken[c] \/ broken[c] < runs
      /\ ~run.dry /\ broken[c] = runs => c \in Done(run.todo) /\ c \in run.failed
  BY <1>0 DEF RollbackAt
<1>2. \/ run'.at = "none"
      \/ /\ run'.dry = run.dry /\ run.failed \subseteq run'.failed
         /\ Done(run.todo) \subseteq Done(run'.todo)
  BY StepGrows DEF NoRun
<1>3. ASSUME broken'[c] = broken[c], \/ snap'[c] = snap[c]
                                     \/ broken[c] # runs /\ ~run.dry
      PROVE  RollbackAt(c)'
  <2>1. broken'[c] # 0 => snap'[c] = broken'[c] \/ broken'[c] < runs'
    BY <1>0, <1>1, <1>3
  <2>2. run'.at # "none" /\ ~run'.dry /\ broken'[c] = runs' => c \in Done(run'.todo) /\ c \in run'.failed
    BY <1>0, <1>1, <1>2, <1>3
  <2> QED BY <2>1, <2>2 DEF RollbackAt
<1>4. CASE Apt
  <2>0. run.at \notin Idle /\ snap' = snap
    BY <1>4 DEF Apt, Idle
  <2>1. ASSUME ~run.dry, AptWorks(Current, run.n)
        PROVE  RollbackAt(c)'
    <3>1. CASE c = Current
      <4>1. broken'[c] = 0 /\ runs > 0
        BY <1>0, <2>0, <2>1, <3>1 DEF AptWorks, Marked, RunInv
      <4>2. run'.at # "none" /\ ~run'.dry => broken'[c] # runs'
        BY <1>0, <4>1
      <4> QED BY <4>1, <4>2 DEF RollbackAt
    <3>2. CASE c # Current
      <4>1. broken'[c] = broken[c]
        BY <1>0, <2>1, <3>2 DEF AptWorks, Marked
      <4> QED BY <1>3, <2>0, <4>1
    <3> QED BY <3>1, <3>2
  <2>2. ASSUME ~run.dry, AptBreaks(Current, run.n), Failed
        PROVE  RollbackAt(c)'
    <3>1. CASE c = Current
      <4>1. broken'[c] = run.n /\ snap'[c] = run.n
        BY <1>0, <1>4, <2>0, <2>2, <3>1 DEF AptBreaks, Marked, GateFits, Apt
      <4>2. c \in run'.failed /\ c \in Done(run'.todo)
        BY <1>0, <2>0, <2>2, <3>1, MovesOn, TailOnList DEF RunInv, RunRow, Current
      <4> QED BY <4>1, <4>2 DEF RollbackAt
    <3>2. CASE c # Current
      <4>1. broken'[c] = broken[c]
        BY <1>0, <2>2, <3>2 DEF AptBreaks, Marked
      <4> QED BY <1>3, <2>0, <4>1
    <3> QED BY <3>1, <3>2
  <2>3. ASSUME UNCHANGED broken
        PROVE  RollbackAt(c)'
    BY <1>3, <2>0, <2>3
  <2> QED BY <1>4, <2>1, <2>2, <2>3 DEF Apt, AptRuns
<1>5. CASE Retire \/ TakeSnapshot \/ Drop
  <2>0. run.at \notin Idle /\ broken' = broken
    BY <1>5 DEF Retire, TakeSnapshot, Drop, Idle
  <2>1. snap'[c] = snap[c] \/ (c = Current /\ ~run.dry)
    <3>1. \/ snap' = snap
          \/ \E n \in {0, run.n} : snap' = [snap EXCEPT ![Current] = n]
      BY <1>5 DEF Retire, TakeSnapshot, Drop
    <3>2. snap' = snap \/ ~run.dry
      BY SnapshotsStay
    <3> QED BY <1>0, <3>1, <3>2
  <2>2. c = Current /\ ~run.dry => broken[c] # runs
    BY <1>1, <2>0, CurrentTarget
  <2> QED BY <1>3, <2>0, <2>1, <2>2
<1>6. CASE Report
  <2>1. broken' = broken
    BY <1>6 DEF Report
  <2>2. snap' = snap \/ (~run.dry /\ run.failed = {})
    BY <1>6 DEF Report
  <2> QED BY <1>1, <1>3, <2>1, <2>2
<1>7. CASE Status \/ CheckHolds \/ CheckPool \/ PollAgain \/ PollEnds \/ Audit \/ Trim
  BY <1>3, <1>7 DEF Status, CheckHolds, CheckPool, PollAgain, PollEnds, Audit, Trim, guests
<1>8. CASE Launch
  BY <1>3, <1>8 DEF Launch
<1> QED BY <1>4, <1>5, <1>6, <1>7, <1>8 DEF Step

LEMMA RollbackKept ==
  ASSUME RunInv, GuestsTyped, GateFits, RollbackFits, [UpdateNext]_updateVars
  PROVE  RollbackFits'
<1> SUFFICES ASSUME NEW c \in Snapshotted
             PROVE  RollbackAt(c)'
  BY DEF RollbackFits
<1> USE DEF At
<1>0. /\ c \in Ct /\ c \in Tracked /\ c \notin Vm /\ runs \in Nat /\ run \in RunRow
      /\ broken \in [Tracked -> 0..runs] /\ broken[c] \in 0..runs /\ snap \in [Ct -> 0..runs]
      /\ \A u \in units : u[1] # c
  BY UpdateAssumption DEF Snapshotted, Tracked, RunInv, GuestsTyped
<1>1. /\ RollbackAt(c)
      /\ broken[c] # 0 => snap[c] = broken[c] \/ broken[c] < runs
  BY DEF RollbackFits, RollbackAt
<1>2. ASSUME broken'[c] = broken[c], snap' = snap, runs' = runs, run' = run
      PROVE  RollbackAt(c)'
  BY <1>1, <1>2 DEF RollbackAt
<1>3. CASE Step
  <2>1. UpdateNext
    BY <1>3 DEF UpdateNext
  <2> QED BY <1>1, <1>3, <2>1, RollbackStep
<1>4. ASSUME NEW dry \in BOOLEAN, Begin(dry)
      PROVE  RollbackAt(c)'
  <2>1. broken' = broken /\ snap' = snap /\ runs' = (IF dry THEN runs ELSE runs + 1) /\ run'.dry = dry
    BY <1>4 DEF Begin, NoRun
  <2>2. broken[c] < runs' \/ (runs' = runs /\ run'.dry)
    BY <1>0, <2>1
  <2>3. broken'[c] # 0 => snap'[c] = broken'[c] \/ broken'[c] < runs'
    BY <1>0, <1>1, <2>1, <2>2
  <2>4. ~run'.dry => broken'[c] # runs'
    BY <1>0, <2>1, <2>2
  <2> QED BY <2>3, <2>4 DEF RollbackAt
<1>5. ASSUME NEW damage \in [Tracked -> 0..runs], damage[c] = broken[c],
             CutRun(damage), snap' = snap, runs' = runs
      PROVE  RollbackAt(c)'
  <2>1. run'.at = "none"
    BY <1>5 DEF CutRun, NoRun
  <2>2. \/ broken'[c] = broken[c]
        \/ run.at = "apt" /\ ~run.dry /\ c = Current /\ broken'[c] = run.n
    BY <1>0, <1>5 DEF CutRun, Marked
  <2>3. run.at = "apt" /\ ~run.dry /\ c = Current => snap[c] = run.n
    BY DEF GateFits
  <2>4. broken'[c] # 0 => snap'[c] = broken'[c] \/ broken'[c] < runs'
    BY <1>1, <1>5, <2>2, <2>3
  <2> QED BY <2>1, <2>4 DEF RollbackAt
<1>6. CASE Timeout
  BY <1>0, <1>5, <1>6 DEF Timeout
<1>7. CASE PowerOff
  <2> DEFINE damage == [x \in Tracked |->
                          IF \E u \in units : u[1] = x THEN runs ELSE broken[x]]
  <2>1. damage \in [Tracked -> 0..runs] /\ damage[c] = broken[c]
    BY <1>0
  <2>2. CutRun(damage) /\ snap' = snap /\ runs' = runs
    BY <1>7 DEF PowerOff
  <2> HIDE DEF damage
  <2> QED BY <1>5, <2>1, <2>2
<1>8. ASSUME NEW u \in units, UnitEnds(u)
      PROVE  RollbackAt(c)'
  <2>1. broken'[c] = broken[c]
    BY <1>0, <1>8 DEF UnitEnds, AptWorks, AptBreaks, Marked
  <2> QED BY <1>2, <1>8, <2>1 DEF UnitEnds
<1>9. CASE Change \/ UNCHANGED updateVars
  BY <1>2, <1>9 DEF Change, updateVars, guests
<1> QED BY <1>3, <1>4, <1>6, <1>7, <1>8, <1>9 DEF UpdateNext

LEMMA RollbackInvariant == UpdateSpec => [](RunInv /\ GuestsTyped /\ GateFits /\ RollbackFits)
<1>1. UpdateInit => RollbackFits
  BY DEF UpdateInit, RollbackFits, RollbackAt, NoRun, Tracked
<1> QED BY <1>1, RollbackKept, GatesInvariant, PTL DEF UpdateSpec

(* A container whose apt failed or was cut has the snapshot taken before   *)
(* it, until another run begins (RollbackPoint).                           *)
THEOREM FailedAptHasSnapshot == UpdateSpec => []RollbackPoint
<1>1. RunInv /\ GuestsTyped /\ RollbackFits => RollbackPoint
  BY DEF RollbackFits, RollbackAt, RollbackPoint, RunInv, GuestsTyped
<1> QED BY <1>1, RollbackInvariant, PTL

------------------------------------------------------------------------------
(* The report *)

Accounted(v) == v \in run.failed \union run.skipped \union good \union run.beside

(* Every VM the run is done with is on one of its lists or was updated.    *)
(* While it polls, an "ok" in the result file is that of its own unit,     *)
(* unless a unit of an earlier run is at work there and was noted.         *)
ReportFits ==
  run.at # "none" /\ ~run.dry =>
    /\ \A v \in Vm \intersect Done(run.todo) : Accounted(v)
    /\ At("poll") =>
         /\ \A u \in units : u[1] = Current /\ u[2] # runs => Current \in run.beside
         /\ rc[Current] = "ok" => Current \in good \union run.beside
    /\ At("audit") => Current \in good \union run.beside

LEMMA GoodGrows ==
  ASSUME Step
  PROVE  good \subseteq good'
  BY DEF Step, Status, CheckHolds, Retire, CheckPool, TakeSnapshot, Apt, AptRuns, AptWorks, AptBreaks, Drop,
         Launch, PollAgain, PollEnds, Audit, Trim, Report, guests

(* The target of a run is done with when it is on a list or was updated.   *)
LEMMA LeavesAccounted ==
  ASSUME RunInv, Step, run.at \notin Idle, ~run.dry, ReportFits,
         \/ Failed
         \/ Skipped
         \/ NextTarget /\ (Current \in Vm => Current \in good \union run.beside)
  PROVE  ReportFits'
<1>1. /\ run'.todo = Tail(run.todo) /\ run'.beside = run.beside
      /\ run'.at \notin {"poll", "audit"}
      /\ run.failed \subseteq run'.failed /\ run.skipped \subseteq run'.skipped
      /\ \/ Current \in run'.failed \union run'.skipped
         \/ Current \in Vm => Current \in good \union run.beside
  BY MovesOn
<1>2. Done(run'.todo) = Done(run.todo) \union {Current}
  BY <1>1, TailOnList DEF RunInv, RunRow, Current
<1>3. \A v \in Vm \intersect Done(run.todo) : Accounted(v)
  BY DEF ReportFits, Idle
<1>4. \A v \in Vm \intersect Done(run'.todo) : Accounted(v)'
  BY <1>1, <1>2, <1>3, GoodGrows DEF Accounted
<1> QED BY <1>1, <1>4 DEF ReportFits, At

LEMMA ReportStep ==
  ASSUME RunInv, GuestsTyped, Step, ReportFits
  PROVE  ReportFits'
<1> USE DEF At
<1>0. /\ run \in RunRow /\ runs' = runs /\ run.at # "none" /\ good \subseteq good'
      /\ units \subseteq Vm \X (1..runs) /\ rc \in [Vm -> {"ok", "error", NoResult}]
  BY StepGrows, GoodGrows DEF RunInv, GuestsTyped, Step
<1>1. CASE run.dry
  <2>1. run'.at = "none" \/ run'.dry
    <3>1. NoRun.at = "none"
      BY DEF NoRun
    <3> QED BY <1>1, <3>1, StepGrows
  <2> QED BY <2>1 DEF ReportFits
<1>2. ASSUME ~run.dry, run.at \notin Idle,
             \/ Failed
             \/ Skipped
             \/ NextTarget /\ (Current \in Vm => Current \in good \union run.beside)
      PROVE  ReportFits'
  BY <1>0, <1>2, LeavesAccounted
<1>3. ~run.dry => \A v \in Vm \intersect Done(run.todo) : Accounted(v)
  BY <1>0 DEF ReportFits
<1>4. ASSUME run'.todo = run.todo, run.failed \subseteq run'.failed,
             run.skipped \subseteq run'.skipped, run.beside \subseteq run'.beside, ~run.dry
      PROVE  \A v \in Vm \intersect Done(run'.todo) : Accounted(v)'
  BY <1>0, <1>3, <1>4 DEF Accounted
<1>5. ASSUME ~run.dry, NEW place \in Place \ {"poll", "audit"}, To(place)
      PROVE  ReportFits'
  <2>1. /\ run'.todo = run.todo /\ run'.failed = run.failed /\ run'.skipped = run.skipped
        /\ run'.beside = run.beside /\ run'.at = place
    BY <1>0, <1>5 DEF To, RunRow
  <2> QED BY <1>4, <1>5, <2>1 DEF ReportFits
<1>6. CASE ~run.dry /\ Status
  <2>1. run.at \notin Idle /\ "holds" \in Place \ {"poll", "audit"}
    BY <1>6 DEF Status, Idle, Place
  <2> QED BY <1>2, <1>5, <1>6, <2>1 DEF Status
<1>7. CASE ~run.dry /\ CheckHolds
  <2>1. run.at \notin Idle /\ Current \in Ct \union Vm \union {Host}
    BY <1>7, CurrentTarget DEF CheckHolds, Idle, Target
  <2>2. To("retire") \/ To("launch") \/ To("apt") \/ Failed
    BY <1>7, <2>1, UpdateAssumption DEF CheckHolds
  <2> QED BY <1>2, <1>5, <1>7, <2>1, <2>2 DEF Place
<1>8. CASE ~run.dry /\ (Retire \/ CheckPool \/ TakeSnapshot)
  <2>1. run.at \notin Idle /\ {"pool", "snapshot", "apt"} \subseteq Place \ {"poll", "audit"}
    BY <1>8 DEF Retire, CheckPool, TakeSnapshot, Idle, Place
  <2>2. ASSUME run' = [run EXCEPT !.at = "pool", !.unread = TRUE]
        PROVE  ReportFits'
    <3>1. /\ run'.todo = run.todo /\ run'.failed = run.failed /\ run'.skipped = run.skipped
          /\ run'.beside = run.beside /\ run'.at = "pool"
      BY <1>0, <2>2 DEF RunRow
    <3> QED BY <1>4, <1>8, <3>1 DEF ReportFits
  <2> QED BY <1>2, <1>5, <1>8, <2>1, <2>2 DEF Retire, CheckPool, TakeSnapshot
<1>9. CASE ~run.dry /\ (Apt \/ Drop)
  <2>1. /\ run.at \notin Idle /\ "drop" \in Place \ {"poll", "audit"}
        /\ Current \notin Vm
    BY <1>9, UpdateAssumption DEF Apt, Drop, Idle, Place, RunInv, StandsAt
  <2> QED BY <1>2, <1>5, <1>9, <2>1 DEF Apt, AptRuns, Drop
<1>10. CASE ~run.dry /\ Launch
  <2>1. run.at \notin Idle /\ Current \in Vm /\ run.n = runs
    BY <1>10 DEF Launch, Idle, RunInv, StandsAt
  <2>2. CASE /\ Polls
             /\ units' = units \union {<<Current, run.n>>}
             /\ rc' = [rc EXCEPT ![Current] = NoResult]
    <3>1. /\ run'.todo = run.todo /\ run'.failed = run.failed /\ run'.skipped = run.skipped
          /\ run'.beside = run.beside \union {v \in {Current} : \E u \in units : u[1] = v}
          /\ run'.at = "poll" /\ Current' = Current
      BY <1>0, <2>2 DEF Polls, RunRow, Current
    <3>2. rc'[Current] # "ok"
      BY <1>0, <2>1, <2>2 DEF NoResult
    <3>3. ASSUME NEW u \in units', u[1] = Current, u[2] # runs
          PROVE  Current \in run'.beside
      BY <2>1, <2>2, <3>1, <3>3
    <3> QED BY <1>0, <1>4, <1>10, <3>1, <3>2, <3>3 DEF ReportFits
  <2> QED BY <1>2, <1>10, <2>1, <2>2 DEF Launch
<1>11. CASE ~run.dry /\ PollAgain
  <2>1. /\ run'.todo = run.todo /\ run'.failed = run.failed /\ run'.skipped = run.skipped
        /\ run'.beside = run.beside /\ run'.at = "poll" /\ Current' = Current
        /\ UNCHANGED <<units, rc, good>>
    BY <1>0, <1>11 DEF PollAgain, RunRow, guests, Current
  <2>2. run.at = "poll"
    BY <1>11 DEF PollAgain
  <2> QED BY <1>0, <1>4, <1>11, <2>1, <2>2 DEF ReportFits
<1>12. CASE ~run.dry /\ PollEnds
  <2>1. run.at \notin Idle
    BY <1>12 DEF PollEnds, Idle
  <2>2. CASE rc[Current] = "ok" /\ To("audit")
    <3>1. /\ run'.todo = run.todo /\ run'.failed = run.failed /\ run'.skipped = run.skipped
          /\ run'.beside = run.beside /\ run'.at = "audit" /\ Current' = Current
      BY <1>0, <2>2 DEF To, RunRow, Current
    <3>2. Current \in good \union run.beside
      BY <1>0, <1>12, <2>2 DEF PollEnds, ReportFits
    <3> QED BY <1>0, <1>4, <1>12, <3>1, <3>2 DEF ReportFits
  <2> QED BY <1>2, <1>12, <2>1, <2>2 DEF PollEnds
<1>13. CASE ~run.dry /\ Audit
  <2>1. run.at \notin Idle /\ Current \in good \union run.beside
    BY <1>0, <1>13 DEF Audit, Idle, ReportFits
  <2> QED BY <1>2, <1>13, <2>1 DEF Audit
<1>14. CASE ~run.dry /\ Trim
  <2>1. \E bad : run' = [run EXCEPT !.at = "report", !.failed = @ \union bad]
    BY <1>14 DEF Trim
  <2>2. /\ run'.todo = run.todo /\ run.failed \subseteq run'.failed
        /\ run'.skipped = run.skipped /\ run'.beside = run.beside /\ run'.at = "report"
    BY <1>0, <2>1 DEF RunRow
  <2> QED BY <1>4, <1>14, <2>2 DEF ReportFits
<1>15. CASE Report
  BY <1>15 DEF Report, ReportFits, NoRun
<1> QED BY <1>1, <1>6, <1>7, <1>8, <1>9, <1>10, <1>11, <1>12, <1>13, <1>14, <1>15 DEF Step

LEMMA ReportKept ==
  ASSUME RunInv, GuestsTyped, ReportFits, [UpdateNext]_updateVars
  PROVE  ReportFits'
<1> USE DEF At
<1>1. ASSUME run'.at = "none" \/ run'.dry
      PROVE  ReportFits'
  BY <1>1 DEF ReportFits
<1>2. CASE Timeout \/ PowerOff
  BY <1>1, <1>2 DEF Timeout, PowerOff, CutRun, NoRun
<1>3. ASSUME NEW dry \in BOOLEAN, Begin(dry)
      PROVE  ReportFits'
  <2>1. run'.todo = Targets /\ run'.at = "status"
    BY <1>3 DEF Begin, NoRun
  <2>2. Done(Targets) = {}
    BY UpdateAssumption DEF Done
  <2> QED BY <2>1, <2>2 DEF ReportFits
<1>4. ASSUME NEW u \in units, UnitEnds(u)
      PROVE  ReportFits'
  <2>0. /\ run' = run /\ runs' = runs /\ units' \subseteq units /\ Current' = Current
        /\ u[1] \in Vm /\ rc \in [Vm -> {"ok", "error", NoResult}]
    BY <1>4 DEF UnitEnds, GuestsTyped, Current
  <2>1. good \subseteq good'
    BY <1>4 DEF UnitEnds, AptWorks, AptBreaks
  <2>2. ASSUME run.at = "poll", ~run.dry, rc'[Current] = "ok"
        PROVE  Current \in good' \union run.beside
    <3>1. CASE u[1] # Current
      <4>1. Current \in Vm
        BY <2>2 DEF RunInv, StandsAt
      <4>2. rc'[Current] = rc[Current]
        BY <1>4, <2>0, <3>1, <4>1 DEF UnitEnds
      <4> QED BY <2>1, <2>2, <4>2 DEF ReportFits
    <3>2. CASE u[1] = Current
      <4>1. AptWorks(u[1], u[2])
        BY <1>4, <2>0, <2>2, <3>2 DEF UnitEnds
      <4>2. u[2] = runs => Current \in good'
        BY <2>0, <3>2, <4>1 DEF AptWorks
      <4>3. u[2] # runs => Current \in run.beside
        BY <2>2, <3>2 DEF ReportFits
      <4> QED BY <4>2, <4>3
    <3> QED BY <3>1, <3>2
  <2> QED BY <2>0, <2>1, <2>2 DEF ReportFits, Accounted
<1>5. CASE Change \/ UNCHANGED updateVars
  BY <1>5 DEF ReportFits, Accounted, Current, Change, updateVars, guests
<1> QED BY <1>2, <1>3, <1>4, <1>5, ReportStep DEF UpdateNext

LEMMA ReportInvariant == UpdateSpec => [](RunInv /\ GuestsTyped /\ ReportFits)
<1>1. UpdateInit => ReportFits
  BY DEF UpdateInit, ReportFits, NoRun
<1> QED BY <1>1, ReportKept, GuestsInvariant, PTL DEF UpdateSpec

(* A VM that the summary of a run does not name was updated by that run,   *)
(* unless a unit of an earlier run was still at work in it (ReportIsTrue). *)
THEOREM SummaryIsTrue == UpdateSpec => []ReportIsTrue
<1>1. ASSUME RunInv, ReportFits
      PROVE  ReportIsTrue
  <2> SUFFICES ASSUME At("report"), ~run.dry, NEW v \in Vm,
                      NEW i \in DOMAIN Targets, Targets[i] = v
               PROVE  Accounted(v)
    BY DEF ReportIsTrue, Accounted
  <2>1. run.todo = <<>> /\ Len(<<>>) = 0
    <3>1. Len(<<>>) = 0
      BY EmptySeq
    <3> QED BY <1>1, <3>1 DEF RunInv, At, Idle
  <2>2. i \in 1..(Len(Targets) - Len(run.todo))
    BY <2>1, UpdateAssumption
  <2> QED BY <1>1, <2>2 DEF ReportFits, Done, At
<1> QED BY <1>1, ReportInvariant, PTL

------------------------------------------------------------------------------
(* The alert for the thin pool *)

(* What a check has measured and pushed is known before it is written.     *)
AlertInv ==
  /\ AlertTypeOK
  /\ ~cut /\ at \in {"idle", "measured"} => Known(file, told)
  /\ ~cut /\ at = "settled" => Known(level, told)

(* PhoneFollows holds of every behaviour of the check.  AlertInv is needed *)
(* because the file is behind the phone while a check is under way.        *)
THEOREM PhoneFollowed == Spec => []PhoneFollows
<1>1. Init => AlertInv
  <2> SUFFICES ASSUME Init PROVE AlertInv
    OBVIOUS
  <2>1. AlertTypeOK
    <3>1. cut \in BOOLEAN /\ at \in {"idle", "measured", "settled"}
      BY DEF Init
    <3>2. usage \in Level /\ file \in Level /\ told \in Level /\ level \in Level
      BY DEF Init, Level
    <3> QED BY <3>1, <3>2 DEF AlertTypeOK
  <2>2. Known(file, told) /\ at = "idle"
    BY DEF Init, Known
  <2> QED BY <2>1, <2>2 DEF AlertInv
<1>2. ASSUME AlertInv, [Next]_alertVars PROVE AlertInv'
  <2> USE <1>2 DEF AlertInv, AlertTypeOK, Level, Known
  <2>1. CASE PoolMoves BY <2>1 DEF PoolMoves
  <2>2. CASE Measure BY <2>2 DEF Measure
  <2>3. CASE Push BY <2>3 DEF Push, News
  <2>4. CASE NoPush BY <2>4 DEF NoPush, News
  <2>5. CASE Write BY <2>5 DEF Write
  <2>6. CASE Killed
    <3>1. CASE at = "settled"
      <4>1. cut' = TRUE /\ at' = "idle" /\ UNCHANGED <<usage, level, told>>
        BY <2>6, <3>1 DEF Killed
      <4>2. file' \in Level
        BY <2>6 DEF Killed
      <4> QED BY <4>1, <4>2
    <3>2. CASE at # "settled"
      BY <2>6, <3>2 DEF Killed
    <3> QED BY <3>1, <3>2
  <2>7. CASE UNCHANGED alertVars BY <2>7 DEF alertVars
  <2> QED BY <1>2, <2>1, <2>2, <2>3, <2>4, <2>5, <2>6, <2>7 DEF Next
<1>3. AlertInv => PhoneFollows
  BY DEF AlertInv, PhoneFollows
<1> QED BY <1>1, <1>2, <1>3, PTL DEF Spec
==============================================================================
