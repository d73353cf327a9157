----------------------------- MODULE HomelabUpdate -----------------------------
(***************************************************************************)
(* The weekly update of the homelab (homelab-update): containers, then     *)
(* VMs, then the host, one after the other, then trim and one report.      *)
(* A container goes through a chain of gates (running, holds, thin pool,   *)
(* snapshot) before apt; a VM runs apt in a transient unit of its own and  *)
(* leaves the result in a file that the run polls through the guest agent. *)
(*                                                                         *)
(* Every command may fail.  Meanwhile guests stop and start, an operator   *)
(* changes holds, the pool fills, the host is switched off, and systemd    *)
(* cuts a run that takes longer than TimeoutStartSec.                      *)
(***************************************************************************)
EXTENDS Naturals, Sequences, FiniteSets

CONSTANTS
  Ct, Vm, Host,   \* LXC_IDS, VM_IDS and the host
  Targets,        \* the order they are updated in
  NoSnapshot,     \* NO_SNAPSHOT_IDS
  DropSnapshot,   \* DROP_SNAPSHOT_IDS
  KeepSnapshot,   \* KEEP_SNAPSHOT
  MaxPolls,       \* QM_TIMEOUT, in polls
  MaxRuns,        \* bound: how many runs that are not dry
  MaxChanges      \* bound: how often guests, holds or the pool change

Target == Ct \union Vm \union {Host}

(* A container and a VM never share an id, and the arrays name none twice. *)
ASSUME UpdateAssumption ==
  /\ Ct \intersect Vm = {} /\ Host \notin Ct \union Vm
  /\ Targets \in Seq(Target) /\ Len(Targets) > 0
  /\ \A i, k \in 1..Len(Targets) : Targets[i] = Targets[k] => i = k
  /\ NoSnapshot \subseteq Ct /\ DropSnapshot \subseteq Ct
  /\ MaxPolls \in Nat /\ MaxRuns \in Nat /\ MaxChanges \in Nat
  /\ KeepSnapshot \in BOOLEAN

VARIABLES
  running,  \* guests that run
  held,     \* targets with all their EXPECTED_HOLDS
  poolOk,   \* whether the thin pool is below its limits
  snap,     \* snap[c]: the run whose "preupdate" snapshot c has, or 0
  units,    \* transient apt units running in a VM: <<vm, run>>
  rc,       \* rc[v]: the result file in v, or NoResult
  good,     \* VMs on which the unit of the last run begun ended well
  broken,   \* broken[g]: the run whose apt failed or was cut on g, or 0
  touched,  \* <<command, target>>: where the run last begun started apt or trimmed,
            \* and <<"report", Host>> once it replaced the latest report
  run,      \* the run in progress; run.unread: it could not list the snapshots;
            \* run.beside: VMs where it found the unit of an earlier run at work
  runs, changes

world == <<running, held, poolOk>>
guests == <<snap, units, rc, good, broken, touched>>
updateVars == <<world, guests, run, runs, changes>>

NoResult == "none"
Place == {"status", "holds", "retire", "pool", "snapshot", "apt", "drop",
          "launch", "poll", "audit", "trim", "report"}
NoRun == [n |-> 0, dry |-> FALSE, at |-> "none", todo |-> <<>>, polls |-> 0,
          failed |-> {}, skipped |-> {}, unread |-> FALSE, beside |-> {}]

Current == Head(run.todo)
Command == {"apt", "trim", "report"}
Snapshotted == Ct \ NoSnapshot
Tracked == Snapshotted \union Vm  \* where broken is looked at: snapshots, dpkg --audit

UpdateInit ==
  /\ running = Ct \union Vm
  /\ held = Target
  /\ poolOk = TRUE
  /\ snap = [c \in Ct |-> 0]
  /\ units = {}
  /\ rc = [v \in Vm |-> NoResult]
  /\ good = {}
  /\ broken = [x \in Tracked |-> 0]
  /\ touched = {}
  /\ run = NoRun
  /\ runs = 0 /\ changes = 0

At(place) == run.at = place
To(place) == run' = [run EXCEPT !.at = place]
Does(command, targets) == touched' = touched \union ({command} \X targets)

(* The last target left out. *)
Following_Early ==
  [run EXCEPT !.todo = Tail(@), !.polls = 0, !.unread = FALSE,
              !.at = IF Len(run.todo) = 2 THEN "trim" ELSE "status"]

(* The loops over LXC_IDS and VM_IDS and the host after them. *)
Following ==
  [run EXCEPT !.todo = Tail(@), !.polls = 0, !.unread = FALSE,
              !.at = IF Len(run.todo) = 1 THEN "trim" ELSE "status"]
NextTarget == run' = Following
Failed == run' = [Following EXCEPT !.failed = @ \union {Current}]
Skipped == run' = [Following EXCEPT !.skipped = @ \union {Current}]

Begin(dry) ==
  /\ run = NoRun
  /\ dry \/ runs < MaxRuns
  /\ runs' = IF dry THEN runs ELSE runs + 1
  /\ run' = [NoRun EXCEPT !.n = runs', !.dry = dry, !.at = "status", !.todo = Targets]
  /\ good' = IF dry THEN good ELSE {}
  /\ touched' = {}
  /\ UNCHANGED <<world, snap, units, rc, broken, changes>>

(* A target that does not run is skipped, and so is one whose status       *)
(* cannot be read.                                                         *)
Status ==
  /\ At("status")
  /\ \/ Current = Host /\ To("holds")
     \/ Current \in running /\ To("holds")
     \/ Current \in running \intersect Vm /\ Failed
     \/ Current \notin running \union {Host} /\ Skipped
     \/ Current # Host /\ Skipped
  /\ UNCHANGED <<world, guests>>

CheckHolds ==
  /\ At("holds")
  /\ \/ Current \in held /\ To(CASE Current \in Ct -> "retire" [] Current \in Vm -> "launch" [] Current = Host -> "apt")
     \/ Failed
  /\ UNCHANGED <<world, guests>>

(* The pool looked at first: an old snapshot outlives a full pool. *)
Retire_AfterPool ==
  /\ At("retire")
  /\ \/ Current \in NoSnapshot /\ To("apt")
     \/ Current \in Snapshotted /\ poolOk /\ To("pool")
     \/ Current \in Snapshotted /\ Failed
  /\ UNCHANGED <<world, guests>>

(* The old snapshot goes before the pool is looked at.  A listing that     *)
(* fails looks like no snapshot.                                           *)
Retire ==
  /\ At("retire")
  /\ \/ Current \in NoSnapshot /\ To("apt") /\ UNCHANGED snap
     \/ /\ Current \in Snapshotted
        /\ \/ (snap[Current] = 0 \/ run.dry) /\ To("pool")
           \/ run' = [run EXCEPT !.at = "pool", !.unread = TRUE]
        /\ UNCHANGED snap
     \/ /\ Current \in Snapshotted /\ snap[Current] # 0 /\ ~run.dry
        /\ \/ snap' = [snap EXCEPT ![Current] = 0] /\ To("pool")
           \/ Failed /\ UNCHANGED snap
  /\ UNCHANGED <<world, units, rc, good, broken, touched>>

CheckPool ==
  /\ At("pool")
  /\ \/ poolOk /\ To("snapshot")
     \/ Failed
  /\ UNCHANGED <<world, guests>>

(* A snapshot that fails is reported, and apt runs all the same. *)
TakeSnapshot_GoOn ==
  /\ At("snapshot")
  /\ \/ run.dry /\ To("apt") /\ UNCHANGED snap
     \/ /\ ~run.dry /\ snap[Current] = 0
        /\ snap' = [snap EXCEPT ![Current] = run.n]
        /\ To("apt")
     \/ /\ ~run.dry
        /\ run' = [run EXCEPT !.at = "apt", !.failed = @ \union {Current}]
        /\ UNCHANGED snap
  /\ UNCHANGED <<world, units, rc, good, broken, touched>>

TakeSnapshot ==
  /\ At("snapshot")
  /\ \/ run.dry /\ To("apt") /\ UNCHANGED snap
     \/ /\ ~run.dry /\ snap[Current] = 0
        /\ snap' = [snap EXCEPT ![Current] = run.n]
        /\ To("apt")
     \/ ~run.dry /\ Failed /\ UNCHANGED snap
  /\ UNCHANGED <<world, units, rc, good, broken, touched>>

Marked(b, x, n) == [y \in DOMAIN b |-> IF y = x THEN n ELSE b[y]]

AptWorks(x, n) ==
  /\ good' = IF n = runs THEN good \union ({x} \intersect Vm) ELSE good
  /\ broken' = Marked(broken, x, 0)
AptBreaks(x, n) == broken' = Marked(broken, x, n) /\ UNCHANGED good

(* apt in a container or on the host: it works, it breaks off, or nothing  *)
(* is touched because apt-get update failed.                               *)
AptRuns ==
  /\ Does("apt", {Current})
  /\ \/ /\ Current \in running \union {Host}
        /\ AptWorks(Current, run.n)
        /\ IF Current \in DropSnapshot \ NoSnapshot THEN To("drop") ELSE NextTarget
     \/ AptBreaks(Current, run.n) /\ Failed
     \/ Failed /\ UNCHANGED <<good, broken>>

(* An update_host() without a test of DRY of its own. *)
Apt_HostToo ==
  /\ At("apt")
  /\ IF run.dry /\ Current # Host
       THEN NextTarget /\ UNCHANGED <<good, broken, touched>>
       ELSE AptRuns
  /\ UNCHANGED <<world, snap, units, rc>>

(* update_ct() and update_host(). *)
Apt ==
  /\ At("apt")
  /\ IF run.dry
       THEN NextTarget /\ UNCHANGED <<good, broken, touched>>
       ELSE AptRuns
  /\ UNCHANGED <<world, snap, units, rc>>

Drop ==
  /\ At("drop")
  /\ \/ snap' = [snap EXCEPT ![Current] = 0] /\ NextTarget
     \/ Failed /\ UNCHANGED snap
  /\ UNCHANGED <<world, units, rc, good, broken, touched>>

Polls ==
  run' = [run EXCEPT !.at = "poll",
                     !.beside = @ \union {v \in {Current} : \E u \in units : u[1] = v}]

(* The result of an earlier update is left in place. *)
Launch_KeepResult ==
  /\ At("launch")
  /\ IF run.dry
       THEN NextTarget /\ UNCHANGED <<units, touched>>
       ELSE \/ /\ units' = units \union {<<Current, run.n>>}
               /\ Does("apt", {Current})
               /\ Polls \/ Failed
            \/ Failed /\ UNCHANGED <<units, touched>>
  /\ UNCHANGED <<world, snap, rc, good, broken>>

(* The result file is removed and apt starts in a unit of its own; either  *)
(* may fail, and the agent's answer may be lost on the way.                *)
Launch ==
  /\ At("launch")
  /\ IF run.dry
       THEN NextTarget /\ UNCHANGED <<units, rc, touched>>
       ELSE \/ /\ rc' = [rc EXCEPT ![Current] = NoResult]
               /\ units' = units \union {<<Current, run.n>>}
               /\ Does("apt", {Current})
               /\ Polls \/ Failed
            \/ /\ Failed
               /\ rc' \in {rc, [rc EXCEPT ![Current] = NoResult]}
               /\ UNCHANGED <<units, touched>>
  /\ UNCHANGED <<world, snap, good, broken>>

(* A loop without the deadline. *)
PollAgain_Forever ==
  /\ At("poll")
  /\ UNCHANGED <<world, guests, run>>

(* A poll finds no file, or the agent does not answer. *)
PollAgain ==
  /\ At("poll")
  /\ run.polls < MaxPolls
  /\ run' = [run EXCEPT !.polls = @ + 1]
  /\ UNCHANGED <<world, guests>>

PollEnds ==
  /\ At("poll")
  /\ \/ run.polls < MaxPolls /\ rc[Current] = "ok" /\ To("audit")
     \/ run.polls < MaxPolls /\ rc[Current] = "error" /\ Failed
     \/ run.polls = MaxPolls /\ Failed
  /\ UNCHANGED <<world, guests>>

(* dpkg --audit: clean, unless an apt run broke off or is under way. *)
Audit ==
  /\ At("audit")
  /\ \/ broken[Current] = 0 /\ NextTarget
     \/ Failed
  /\ UNCHANGED <<world, guests>>

(* The unit ends by itself, whether or not the run still waits for it.     *)
(* Apt that finds another one at work stops at dpkg's lock.                *)
UnitEnds(u) ==
  /\ u \in units
  /\ units' = units \ {u}
  /\ \/ AptWorks(u[1], u[2]) /\ rc' = [rc EXCEPT ![u[1]] = "ok"]
     \/ AptBreaks(u[1], u[2]) /\ rc' = [rc EXCEPT ![u[1]] = "error"]
     \/ UNCHANGED <<good, broken>> /\ rc' = [rc EXCEPT ![u[1]] = "error"]
  /\ UNCHANGED <<world, snap, touched, run, runs, changes>>

(* trim_cts(): a container whose status cannot be read is left out. *)
Trim ==
  /\ At("trim")
  /\ \E tried \in SUBSET IF run.dry THEN {} ELSE running \intersect Ct :
       /\ Does("trim", tried)
       /\ \E bad \in SUBSET tried :
            run' = [run EXCEPT !.at = "report", !.failed = @ \union bad]
  /\ UNCHANGED <<world, snap, units, rc, good, broken>>

(* The summary, the removals of KEEP_SNAPSHOT=false, whose errors are      *)
(* ignored, and latest.md and the push, but for a dry run.                 *)
Report ==
  /\ At("report")
  /\ \/ UNCHANGED snap
     \/ /\ ~run.dry /\ run.failed = {} /\ ~KeepSnapshot
        /\ \E kept \in SUBSET Ct : snap' = [c \in Ct |-> IF c \in kept THEN snap[c] ELSE 0]
  /\ Does("report", IF run.dry THEN {} ELSE {Host})
  /\ run' = NoRun
  /\ UNCHANGED <<world, units, rc, good, broken>>

Step ==
  /\ \/ Status \/ CheckHolds \/ Retire \/ CheckPool \/ TakeSnapshot \/ Apt \/ Drop
     \/ Launch \/ PollAgain \/ PollEnds \/ Audit
     \/ Trim \/ Report
  /\ UNCHANGED <<runs, changes>>

(* Apt on the host or in a container may break off with the run. *)
CutRun(damage) ==
  /\ run' = NoRun
  /\ \/ broken' = damage /\ UNCHANGED touched
     \/ /\ At("apt") /\ ~run.dry
        /\ Does("apt", {Current})
        /\ broken' = Marked(damage, Current, run.n)

(* TimeoutStartSec: systemd stops the run, but not the unit in a VM. *)
Timeout ==
  /\ run # NoRun
  /\ CutRun(broken)
  /\ UNCHANGED <<world, snap, units, rc, good, runs, changes>>

(* The 23:00 power-off cuts the units in the VMs too. *)
PowerOff ==
  /\ run # NoRun \/ units # {}
  /\ CutRun([x \in Tracked |->
              IF \E u \in units : u[1] = x THEN runs ELSE broken[x]])
  /\ units' = {}
  /\ UNCHANGED <<world, snap, rc, good, runs, changes>>

Change ==
  /\ changes < MaxChanges
  /\ changes' = changes + 1
  /\ \/ \E x \in (Ct \union Vm) \ {u[1] : u \in units} :
          running' = (running \union {x}) \ (running \intersect {x}) /\ UNCHANGED <<held, poolOk>>
     \/ \E x \in Target :
          held' = (held \union {x}) \ (held \intersect {x}) /\ UNCHANGED <<running, poolOk>>
     \/ poolOk' = ~poolOk /\ UNCHANGED <<running, held>>
  /\ UNCHANGED <<guests, run, runs>>

UpdateNext ==
  \/ \E dry \in BOOLEAN : Begin(dry)
  \/ Step
  \/ \E u \in units : UnitEnds(u)
  \/ Timeout \/ PowerOff
  \/ Change

UpdateSpec == UpdateInit /\ [][UpdateNext]_updateVars
UpdateFair == UpdateSpec /\ WF_updateVars(Step)

------------------------------------------------------------------------------
(* Properties *)

(* A run stands at one of its places before one of its targets, snapshots, *)
(* results and units are those of runs that began, and no unit belongs to  *)
(* a run that is still to come.                                            *)
UpdateTypeOK ==
  /\ running \subseteq Ct \union Vm /\ held \subseteq Target /\ poolOk \in BOOLEAN
  /\ snap \in [Ct -> 0..runs]
  /\ units \subseteq Vm \X (1..runs)
  /\ rc \in [Vm -> {"ok", "error", NoResult}]
  /\ good \subseteq Vm /\ run.beside \subseteq Vm /\ broken \in [Tracked -> 0..runs]
  /\ touched \subseteq Command \X Target
  /\ run.at \in Place \union {"none"}
  /\ run.todo = <<>> <=> run.at \in {"trim", "report", "none"}
  /\ run.polls \in 0..MaxPolls
  /\ run.failed \intersect run.skipped \subseteq Ct

(* "no snapshot means no apt" (process_ct) and "On a FAILED update it is   *)
(* kept as the rollback point" (DROP_SNAPSHOT_IDS): a container whose apt  *)
(* failed or was cut has the snapshot taken before it, until another run.  *)
RollbackPoint ==
  \A c \in Snapshotted :
    broken[c] # 0 => snap[c] = broken[c] \/ runs > broken[c]

(* "Retire last week's snapshot BEFORE the pool check" (process_ct): a     *)
(* container that a full pool keeps from being updated has no old snapshot *)
(* that would go on growing, except one that the run could not list.       *)
PoolGuardRetires ==
  [][At("pool") /\ ~run.dry /\ run'.failed # run.failed =>
       snap[Current] = 0 \/ run.unread]_updateVars

(* A VM that the summary does not list as failed or not running was        *)
(* updated in this run: the result read was that of its unit, which ended  *)
(* well.  The result file has one name for all runs, so this holds only    *)
(* where no unit of an earlier run was still at work.                      *)
ReportIsTrue ==
  At("report") /\ ~run.dry =>
    \A v \in Vm : (\E i \in DOMAIN Targets : Targets[i] = v) =>
      v \in run.failed \union run.skipped \union good \union run.beside

(* "show what would be touched, change nothing (no snapshots, no apt, no   *)
(* ntfy push, latest.md untouched)" (homelab-update:9): no step of a dry   *)
(* run takes or removes a snapshot, starts apt in a container, in a VM or  *)
(* on the host, trims, replaces the latest report, or removes a result.    *)
DryRunTouchesNothing ==
  [][run.dry /\ run' # run =>
       /\ UNCHANGED <<snap, rc, good, touched>>
       /\ units' \subseteq units]_updateVars

(* Whatever a unit or the guest agent does, a run comes to its report. *)
RunEnds == run # NoRun ~> run = NoRun
==============================================================================
