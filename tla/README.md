# Formal models of the homelab automation

This directory holds TLA+ models of the programs this repository keeps for the
homelab, the TLC instances that check them, and proofs checked by TLAPS. The
most important program is the **responder** (`src/configs/responder`): it turns
Checkmk alerts into diagnoses and, after a tap on the phone or by a remembered
approval, runs a write verb on a host. What it must never do is run something
twice, without an approval, on the wrong host, or after it was told not to;
what it must not do quietly is forget a problem. Both depend on the order of
small database statements issued by many threads, which tests hardly reach.

## Inventory

| Component | State | Operations | Talks to | Hard behaviour | What makes it correct |
|---|---|---|---|---|---|
| Job store (`store.py`) | `jobs` and `alerts` rows in SQLite | intake_alert, propose, claim, auto_approve, start_execution, close, recover, expire_due, interrupted | called by every thread of the service | statements of many threads interleave; a deadline; restarts | one session per problem, one authorised run per job, outcomes are final |
| Remembered approvals (`grants.py`) | `grants`, `auto_runs`, `revoke_links` | record, check_auto, start/finish_auto_run, revoke | job handlers, the Revoke button | check-then-act, revocation during a run | grants are earned, budgets hold, an ended grant stops |
| Registry and proposal filter (`registry.py`, `diagnose.py`) | a file read at startup | is_write, is_protected, validate_proposal, run | job handlers, grants | none (pure), but guards everything else | only registered verbs of the alerting host; protected hosts always ask |
| Service (`app.py`) | HTTP threads, one handler per job, sweeper, diagnosis semaphore | alert, recovery, tap, revoke, handle_new_job, handle_approved, sweeper, main | all of the above, executor, journal, ntfy | interleaving, nightly power-off, threads that die, lost pushes | no row without its thread, decisions carried through, proposals resolve |
| Executor (`executor.py`) | the place in its poll loop | gate, _active, _http_ok, verify, execute | rgate over ssh, a health URL | a deadline around calls with timeouts of their own, a restart that outlives its call | "ok" means this restart ended well and one poll then found the unit active and its URL answering; nothing healthy is given up on |
| Journal (`journal.py`) | a git clone, a lock, background threads | record, publish | GitHub, ntfy | retries, rebase, auth failures, order of sections | what was committed is published once or stays queued |
| Notifications (`notify.py`, `ntfy-notify.py`) | none (Checkmk keeps what is deferred) | publish, one POST per notification | ntfy | outages of ntfy, refusals | every outage reaches the phone |
| Checkmk plugin (`responder-notify.py`) | none | one POST | the service | no retry while the service is off; lost recoveries | nothing is restarted for an outage that is over |
| rgate (`deploy/rgate`) | none | forced command with verbs | sshd, systemd | none | modes and verbs |
| Weekly update runner (`homelab-update`) | LVM snapshots, a result file in each VM, a report | process_ct, update_vm, update_host, trim, notify | Proxmox, apt, ntfy | partial failure, gates, detached units, polling | every gate fails closed, failures are reported |
| attest (`attest.py`) | baseline, findings, standing alerts | run, capture, compare, fresh_alerts, mark_standing | Sentry over ssh, ntfy | crash between push and mark, quiet runs | an alert is announced, and once while it stands |
| Thin pool alert | one level in a file | one check | lvm, ntfy | a failed push, a check cut between push and write | the phone knows what the file says |
| DNSBL bridge | an open FIFO, an open log, a pidfile | start, stop, read the FIFO, append | unbound, newsyslog, logger.py, the Wazuh agent | signals in blocking calls, rotation under the writer, a FIFO that is replaced | one reader; blocks reach the log the agent reads; it comes back after a restart of unbound |
| Wazuh rules, write-ups, journal pages | declarative or prose | - | - | - | - |

`PROJECT.json` lists every component with its status, and under `hazards` the
places in the code where something hard to test can go wrong.

## Modules

| Module | What it models |
|---|---|
| `ResponderBase` | jobs, problems, verbs and the clock, shared by the rest |
| `ApprovalContract` | abstract: what the service promises about each job (authorise, refuse, run once) |
| `JobStore` | the jobs table, one action per statement of `store.py` |
| `JobStoreProofs` | theorems about `JobStore` |
| `Registry` | the registry's questions and the filter on proposals |
| `Grants` | the tables and statements of `grants.py` |
| `AutoRunLimits` | handlers racing through check_auto and start_auto_run |
| `AutoRunLimitsProofs` | theorems about `AutoRunLimits` |
| `Responder` | the service: every thread of `app.py` over the tables above, crashes and dying threads |
| `ResponderProofs` | theorems about `Responder`, its refinement of `JobStore` among them |
| `Journal` | the publisher threads of `journal.py`, the clone they share, and `main` |
| `JournalProofs` | theorems about `Journal` |
| `Attest` | the runs of `attest.py`, its baseline and its standing alerts |
| `AttestProofs` | theorems about `Attest` |
| `HomelabUpdate` | a weekly run of `homelab-update` over containers, VMs and the host |
| `Executor` | one restart on its target: the ssh call, the restart itself, the polls that verify it |
| `RepairLoop` | composes `Executor` with Checkmk's two plugins, ntfy, the phone and a session of the service |
| `RepairLoopProofs` | theorems about `Executor` inside `RepairLoop` |
| `DnsblBridge` | the bridge under rc.d, with unbound, newsyslog, logger.py and the agent around it |
| `DnsblBridgeProofs` | theorems about `DnsblBridge` |
| `ThinpoolAlert` | a check of the thin pool alert |
| `HostProofs` | theorems about the two programs of the Proxmox host, `HomelabUpdate` and `ThinpoolAlert` |
| `MC*` | instances for TLC: constants, bounds, symmetry |

### How state and actions correspond to the code

* `jobs[j]` is the row of id `j`; a row that does not exist has state
  `"absent"`. `authority` and `runs` are history variables: who moved the row to
  `approved` (the log line of the tap or the grant) and how often
  `start_execution()` returned True.
* An action of `JobStore` is one committed statement, with the `WHERE` clause
  as its guard. Statements that come in a group (`claim`, `recover`,
  `expire_due`) are separate actions; what an earlier SELECT read is kept in a
  variable of the thread in `Responder` (`taps`, `recov`, `sweep`).
* A statement that finds no row is a step of the caller that leaves the table
  as it is; which branch the caller then takes follows the code.
* `handler[j]` is the thread of `handle_new_job` or `handle_approved` for job
  `j`; its place names the next statement it will execute. Calls that touch no
  modelled state (journal, push, logging) happen within a step. The journal
  publishes on a thread of its own, so it delays nobody.
* `buttons` holds the jobs whose notification reached the phone. Only they can
  be tapped, since the token exists nowhere else. A push may be lost.
* `Crash` is the nightly power-off, a service stop or a power cut: every thread
  is gone, committed rows remain (SQLite in WAL mode commits durably).
  `Restart` is `main()`, with `store.interrupted()`.
* `ThreadDies` is any exception a handler, a tap, a recovery or the sweeper
  does not handle where it happens.
* Abstractions: a job id is one of a finite set; the alerts table, tokens,
  wording and the Claude session are left out (a diagnosis answers any
  proposal, or none); one clock unit stands for any number of seconds; the unit
  of a grant is given by its host, as in the registry; reading the clock and
  executing the single statement that uses it is one step (in `claim` the clock
  is read before the SELECT and used by the UPDATE, and that is kept).

In the modules beside the responder:

* **Journal.** `publisher` is the thread that holds the lock, and its place is
  the next git call of `_publish()`. `clone.root` is the tip that the last
  successful rebase put the clone on (the history of a clone made and fetched
  with `--depth 1` starts there), `clone.tip` what the clone last saw of `main`
  (origin/main), and `clone.own` the commits on top. `Rebased(tip)` is what
  `git rebase origin/main` leaves. The return code of the fetch in the retry loop
  is not looked at: after one that failed, the rebase goes onto the old tip
  (`Unreachable`). If `main` ends in one of the
  clone's own commits the histories are related and nothing is replayed twice.
  Otherwise git sees two unrelated histories and replays the whole tree at the
  old root: it conflicts with any file that `main` now holds in a newer version,
  and it re-creates files that others deleted. This is the behaviour of git
  2.39 on such clones, hence `external` in the map. `dirty` and `staged` are
  what a publish that was cut short leaves in the work tree. A push that times
  out may have landed (`Fail`).
* **Attest.** A run goes through probe, compare, push and mark, each a step of
  its own since each commits or sends something. `standing` is the table
  `attest_standing`; `told` (pushed since a loud run last found it cleared) and
  `repeated` (pushed while told) are history variables the properties read. A
  quiet run ends after the comparison. `Killed` ends a run anywhere.
* **HomelabUpdate.** `run.at` is the gate the current target (the head of
  `run.todo`) stands before, and each gate may fail for any reason. `snap[c]`,
  `broken[g]` and `units` carry the number of the run they stem from; `good` is
  a history variable, the VMs whose unit ended well in the run last begun.
  `touched` records which commands that run gave to which target (apt, whether in a
  container, on the host or as a unit in a VM, and trim) and whether it replaced the
  latest report, so that a dry run can be told from a real one at each of them.
  `Timeout` is systemd's `TimeoutStartSec`, which does not reach the transient
  units in the VMs; `PowerOff` does. `run.beside` remembers the VMs in which a
  run found a unit of an earlier one at work.
* **Executor.** `exec.at` is the call `execute()` waits for and `exec.verdict`
  what it returned. The clock is reduced to what `verify()` asks of it: whether
  the deadline has passed at the top of its loop (`late`), which may happen in
  any place of it. The unit changes at any moment; systemd and the health URL may
  disagree about it either way (`active`, `answering`). `restart` is the restart of
  this execution on the target, `stray` one whose call was given up. `seen` and
  `steady` are history variables about the unit's health. Of rgate only the
  verbs the executor sends are here.
* **RepairLoop.** `posts` are the runs of `responder-notify.py` not yet answered,
  oldest first, since Checkmk runs them one after the other; each is answered
  once or lost. `pushes` are the
  runs of `ntfy-notify.py`: exit 1 leaves one deferred in Checkmk, exit 2 (a 4xx of
  ntfy, or a token or URL it cannot read) ends it. The session stands for what `Responder` models in detail, seen from
  outside: "live" covers everything before an action, `recover()` is one step
  here (its two statements are in `Responder`), and the row left by an exception
  in the executor stays "executing" until `Restart`. `Executor` has
  no specification of its own: its steps run only inside this loop.
* **DnsblBridge.** FIFOs and logs are numbered as they are created, so that what a
  process has open can differ from what has the name. `proc[p].at` names the
  system call `main()` is in, and a stop may come in any of them. unbound attaches
  to a FIFO only when it has a reader, and breaks off with it (the behaviour the
  comments of the bridge describe). `block` is one record followed from unbound
  to the agent; `disturbed` is a history variable that says whether something
  happened that may cost the agent the record.
* **ThinpoolAlert.** A check is measure, push, write; it may be killed in each.

## What the runs check

| Run | Instance | Shows |
|---|---|---|
| `store` | three jobs of one problem, clock to 2, any statement at any time | types, `RunsAuthorised`, `SessionsSpaced`, `ClosedIsFinal`, and that the table implements `ApprovalContract` |
| `budget` | five handlers on two hosts, two at a time between check and count | `TupleOvershoot`, `HourOvershoot`: each limit is exceeded by at most one run; `EndedStopsRuns` |
| `service_faults` | two jobs of one problem, two taps, one crash, one dying thread | `OneRunPerProblem`, `EveryRowHasItsThread`, and that the service writes the jobs table only as `JobStore` does |
| `service_hosts` | two problems on a learnable host and one on a host protected by name | `GrantsAreEarned`, `AutoRunsAreCounted`, `ActionsStayOnTheirHost` |
| `service_live` | fair threads, one crash, one dying thread | `ProposalsResolve`, `SlotIsPassedOn`, and `DecisionsClose` in behaviours without a crash or a dying thread |
| `late_tap_wedges` (violation) | one job, fair threads, no fault | `ExpiredIsClosed` fails |
| `journal` | three sections, two of one job; one commit of others, of any kind; one failing call; one crash | `CommittedIsKept`, `SectionOnce`, `GaveUpForCause`, `PublishEnds` |
| `journal_wedged` (violation) | the same, no fault | `AnsweredPublishPushes` fails |
| `attest` | a block list with an exempt entry and a field that must not change, loud and quiet runs, one failed probe or killed run | `StandingWasAnnounced`, `AnnouncedOnce`, `LastingChangeIsAnnounced` |
| `update` | a container without snapshots, one with, a VM and the host; two runs, the second also beside a unit of the first, and any number of dry ones; one change of a guest, a hold or the pool | `RollbackPoint`, `ReportIsTrue`, `PoolGuardRetires`, `DryRunTouchesNothing`, `RunEnds` |
| `repair` | one unit with or without a health URL, two posts under way, any number of failures of the unit, ntfy, the service and each call | `VerdictIsEarned`, `OverdueIsUnhealthy`, `ActsOnStandingOutage`, `PhoneHearsOutage` |
| `bridge` | two processes, three FIFOs, two rotations, logger.py on and off, an error or a stop anywhere | `OneReader`, `BlockIsRead`, `ReadsAgain` |

### Findings

1. **A late tap wedges its problem.** `claim()` marks the row `expired` and
   nobody closes it: the sweeper looks only for `pending`. The job stays live
   until a recovery of its problem is reported, and every alert up to then attaches
   to it.
2. **The journal wedges on a commit of somebody else.** Once a journal file was
   appended to by a second publish, or others changed a file, the next commit on
   `main` that is not the responder's makes every rebase conflict; it is
   aborted, each push is rejected, and so is every later one.
   `GaveUpForCause` delimits it: nothing else makes an answered publish give up,
   short of three commits of others racing its three attempts.

### Observations

Divergences met while modelling that follow from a line or two of code, or that
a property of a passing run already delimits, so no run of their own is spent on
them:

* `recover()` selects, then closes row by row with a `close()` that excludes
  only `closed` (`store.py:231`). A job that starts in between is closed as
  `recovered` while its action runs, against the comment at `store.py:227`, and a
  new alert then opens a second session for the same problem. `OneRunPerProblem`
  excepts exactly this case, and shows that it is the only way in which two runs
  against one problem overlap.
* The result file of a VM update has one name for all runs (`homelab-update:231`).
  A run that starts while the unit of an earlier one still works (given up after
  `QM_TIMEOUT`, or left behind by systemd's timeout) can read that unit's exit
  code and report the VM as updated. `ReportIsTrue` excepts exactly this case.
* `responder-notify.py` does not try again. A recovery lost while the service is
  off or unreachable leaves the proposal open, and a tap then restarts a
  service that is healthy; `ActsOnStandingOutage` excepts lost and late
  recoveries and shows that there is no other way.
* `ntfy-notify.py` takes every 4xx for permanent, a rate limit (429) included: such
  an alert is dropped without a retry, and so is one for which it could not read its
  token or URL. `PhoneHearsOutage` excepts these two.
* A call to rgate that exceeds its minute is reported as failed while the restart
  goes on at the target; it may still succeed, or cut down the unit after a later
  execution verified it.
* The log of the DNSBL bridge is rotated without a signal
  (`newsyslog-unbound-dnsbl.conf`, flags `CJ` and no pid file). The bridge keeps
  the file it opened until unbound closes the FIFO: what it writes after a
  rotation goes to a file the agent no longer reads, and the space is not freed
  ("so it cannot fill /var"). `BlockIsRead` excepts a rotation under an open log.
* A bridge that waits in `open()` for a FIFO that unbound replaces meanwhile waits
  until it is stopped. `ReadsAgain` excepts exactly this place.
* A check of the thin pool that is killed between its push and its write (or whose
  write fails) may leave a level in the file that the phone was told is over: if
  the pool rises to it again, nothing is pushed. `PhoneFollows` excepts this.
* A recovery between `auto_approve()` and `start_execution()` makes
  `run_execution()` answer False, which `finish_auto_run()` takes for a failed
  verification: the grant is demoted though nothing ran.
* `check_auto()` and `start_auto_run()` are separate statements, so "a third
  auto-run inside 24 h falls back to a manual approval" (`grants.py`) can be
  exceeded; `TupleOvershoot` and `HourOvershoot` say by how much. The gap is a
  few statements long and diagnoses are serialised before it.
* A clone that GitHub refuses drops the section, while the phone is told that
  records are queued (`journal.py`, `_auth_problem`).
* A replay brings back files that others deleted on `main` (`Restored`).
* `compare()` measures removals against the first baseline only, so an entry
  added to a block list later and then removed is not announced; and the changed
  value of a field without a policy raises nothing (both against the policy at
  the top of `attest.py`).
* `pct status` and `qm status` are read with errors discarded: a query that
  fails is reported as "not running".

### Bounds, and why they are enough

Every interaction the properties speak of involves two jobs at most: two
sessions of one problem, two first approvals of one action, one job that earns
a grant and one that uses it. `store` has a third job so that spacing is checked
across a closed session. The clock needs one unit to pass a deadline (`Ttl = 1`)
and one to pass a dedupe window or an hour; `MaxTime` of 1 or 2 leaves room for
both in either order. `Tick` goes on beyond `MaxTime` while a proposal is
pending, so no liveness property holds or fails because the clock stopped.
`MaxCrashes` and `MaxFaults` of 1 are where the code's recovery is
exercised; `JobsPerHour` is 1 where the rate limit matters and 2 where it would
hide the second job. The budget runs keep the code's `PER_TUPLE_24H = 2` and
shrink the hourly limit so that two hosts can reach it. The `journal` run has
two sections of one job and one of another, which is what a collision takes;
one foreign commit reaches every branch of `Rebased`, and three attempts are
the code's own number. In `attest` two fields suffice because alerts of
different fields never meet except in the sets; one fault puts a kill between
any two steps. `update` has one target for each way through the gates, two runs
because rollback points and results cross at most from one run to the next,
and one poll, since only "not yet", "there" and "too late" differ. `repair` needs no bound but `MaxPosts`: two posts are
an alert and its recovery under way together, and with more the oldest are lost
or answered in the same order. In `bridge` two processes are an old one and its
successor, three FIFOs two restarts of unbound, and two rotations one before
and one after the bridge reopens its log. Symmetry (job ids, tap
threads) is used only in runs without liveness. Deadlock is checked in every
run but `budget` and the journal runs, whose finite sets of handlers and
sections end.

### Fairness

`FairSpec` assumes that a thread inside a handler, a tap or a recovery goes on:
every subprocess, ssh, HTTP and SQLite call in the code has a timeout. The
sweeper loops for ever, and catches what it meets. systemd starts the service at
boot and after a failure (`deploy/responder.service`). Time passes. No fairness
is assumed of alerts, recoveries, taps or revocations. Fairness of a handler is
per job, on the disjunction of its steps.

`JournalFair`: a publish goes on, because `_git` gives every call a timeout, and a
thread that waits for the lock gets it some time. `AttestFair`: a run goes on,
since ssh and ntfy have timeouts, and loud runs are started again and again
(strongly fair: runs started by hand do not keep the daily timer from firing).
`UpdateFair`: a run goes on; whether units end or guests answer is left open.

`FairSpec` of `RepairLoop`: ntfy comes back after an outage, and Checkmk runs a deferred
notification again until it goes through (strongly fair, since ntfy may fail
again in between). Nothing is assumed of the service, the unit or the posts.
`FairSpec` of `DnsblBridge`: `main()` goes on wherever its call can return; unbound,
once stopped, comes up again and tries its FIFO (every ten seconds, as the header
of the bridge says); the agent reads its file. Nothing is assumed of stops,
rotations, errors or `logger.py`.

## What is proved

`JobStoreProofs` proves, for every set of jobs, problems and verbs and every
window and approval time (assuming only `VocabularyAssumption` and
`StoreAssumption`):

* `StoreTyped`: `StoreTypeOK` is inductive.
* `StoreRunsAuthorised`: `RunsAuthorised` is not inductive (a row with state
  `approved` and one run would break it), so the invariant is
  `RunsFollowState`: the state column alone determines whether the action was
  started, except in a closed row, and an approved row has an authority.
* `StoreClosedIsFinal`: from `StatementsKeepRows`, which says what no statement
  but the INSERT may do to any row (`Keeps`).
* `StoreSessionsSpaced`: the invariant `SessionsStamped` adds that rows are
  stamped no later than the clock and belong to a problem from their INSERT on.
  `OpenJobSpaced` reads the spacing off the SELECT of `intake_alert`;
  `KeptRowsSpaced` shows that no other statement can undo it, because of any
  two sessions the earlier one is closed and closed rows keep.
* `StoreImplementsContract`: a refinement. Each statement changes one job
  (`OneJobSteps`) and maps to Authorise, Refuse, Run or a stutter;
  `CloseInterrupted` and `Tick` are stutters.

`ResponderProofs` proves, for any jobs, problems, hosts, verbs and taps, any number
of crashes and dying threads, and every window, limit and protected set:

* `ServiceImplementsStore` (`ImplementsStore`): the service is a refinement of
  `JobStore`. Each step of a thread is one statement of `store.py` or leaves the
  table alone. `StepsStore` needs the invariant for one reason: the proposal a
  handler writes must be of a verb that exists, and so must what it is approved for.
  With it everything `JobStoreProofs` shows carries over, `ApprovalContract`
  included (`ServiceKeepsStorePromises`).
* The inductive invariant `ServiceInv` adds to the types and to what `JobStoreProofs`
  shows of the table (`SessionsStamped`, `RunsFollowState`) three views of each job:
  its row (`RowFits`), its handler (`HandlerFits`: what the place of a thread implies
  about the row it works on, e.g. a thread between `start_execution()` and the close
  has a row that is executing or was recovered meanwhile) and what the other threads
  hold of it (`OthersFit`: a deny under way, the rows the sweeper expired, the rows a
  recovery selected), with `DownInv` for the time the service is down.
  No two of them suffice: what a thread will write depends on the row it read, and
  rows change under it (a recovery, the sweeper, another tap).
* `ServiceOneRunPerProblem`, `ServiceActionsStay`, `ServiceAutoRunsCounted`: from
  `ServiceInv`, which also settles why the runs of one problem cannot overlap: the
  earlier session is closed, so its run has ended, or was recovered under way.
* `ServiceGrantsEarned`: the invariant `GrantFits` ties each active grant to a job
  that was tapped and verified on the grant's own host. `ServiceRowsHaveThreads`:
  `HasItsThread`, by cases on who may be holding the row.
* `ServiceTyped`: `TypeOK`.

`JournalProofs` proves, for any sections and files and any number of commits of
others, failing calls and crashes:

* The invariant `HistoryInv` is the shape of the two histories: `main` and the clone
  agree up to the clone's root; from there `main` has `Taken(k)`, the first k of the
  clone's own commits in their order, and after them only commits of others.
  `RelatedIff` and `LandedIs` then say what git sees: a push is accepted, and a
  rebase keeps the old tree, while `main` got no more than those k; and a replay
  drops exactly k.
* `RebaseKeeps`: a rebase keeps that shape, and the new branch is the old one with
  commits that hold no section put in at one place (`Spread`). With `PushKeeps`,
  `OthersKeep` and `CloneKeeps`, only `Commit` puts sections on the branch.
* `CommittedStays` (`CommittedIsKept`) follows from `Spread` and from `MainIsBehind`
  (all sections of `main` are on the branch). `SectionAppearsOnce` (`SectionOnce`)
  needs `SectionsInv` besides: what is in the work tree is on no branch, and what a
  publish has still to append is in neither.
* `GivesUpForCause` (`GaveUpForCause`): as long as none of the causes holds, `Clean`
  says that no rebase is refused and that each rejected push stands for one more
  commit of others on `main`. `RebaseGoesThrough` is the step that needs it; a cause
  stays one (`CauseStays`).
* `JournalTyped` (`JournalTypeOK`).

`HostProofs` proves, for any containers, VMs, order of targets and settings (from
`UpdateAssumption`; that a container and a VM share no id, and that no target is
listed twice, is so in Proxmox and in the literals at the top of the script):

* `SummaryIsTrue` (`ReportIsTrue`), from `ReportFits`: every VM the run is done with
  is named in the report, or its apt ended well (`good`), or it stood beside a unit
  of an earlier run; `Accounted` says which targets a run is done with.
* `FailedAptHasSnapshot` (`RollbackPoint`), from `RollbackFits`: a container that a
  run broke keeps that run's snapshot at least until a later run, because the run
  is done with it and counts it as failed, so none of its later gates takes the
  snapshot away.
* `PoolGuardRetiresFirst` (`PoolGuardRetires`), from `GateFits`: what the gates
  passed so far imply at the place of the run.
* `DryRunsTouchNothing` (`DryRunTouchesNothing`): no step of a dry run takes or removes
  a snapshot, starts apt in a container, in a VM or on the host, trims, replaces the
  latest report or removes a result. From `RunInv`, since a dry run never stands
  where a snapshot is dropped after apt; everywhere else the step has a test of its
  own.
* `UpdateTyped` (`UpdateTypeOK`), from `RunInv` (a run stands before one of its
  targets, and no target twice) and `GuestsTyped`.
* `PhoneFollowed` (`PhoneFollows` of `ThinpoolAlert`, which has no parameters, few
  states and therefore no run): `AlertInv` follows the level through a check,
  since the file is behind the phone while one is under way.

`AttestProofs` proves, for any fields, policies, values and modes:

* `StandingAnnounced` and `AlertsAnnouncedOnce`, from `AnnouncedInv`, which follows
  the alerts of a run: after the comparison it holds exactly those that are not
  standing (`Trimmed`), after the push all of them are told (`Told`), and without a
  fault nothing else is told than what stands (`Undisturbed`). Neither property
  is inductive without these, since both speak of states between runs.
* `AttestTyped`: `AttestTypeOK`.

`AutoRunLimitsProofs` proves, for every number `Concurrent` of handlers between
`check_auto()` and `start_auto_run()`, every limit and every span (from
`GrantsAssumption` and `ConcurrentAssumption`):

* `OvershootBounded` (`TupleOvershoot` and `HourOvershoot`) and `EndedRunsStop`
  (`EndedStopsRuns`). None of the three is inductive: a handler that was let
  through will be counted whatever the limits say by then. `TupleInv`, `HourInv`
  and `EndedInv` therefore bound the counted runs together with the handlers in
  the gap. A step lets one handler through (`AdmitKeeps`: there was room), counts
  one run (`CountKeeps`: one handler less, at most one run more), or does neither
  (`QuietKeeps`); `StepsAreFew` sorts the steps. `PastIsPast` carries a bound
  to moments that are over.
* `HourLimitBounded`: the second half of `OvershootBounded`, by itself.
* `LimitsTyped`: `LimitsTypeOK`, used by the above and not part of a run.

`RepairLoopProofs` proves, for any number of posts:

* `VerdictsEarned` and `OverdueVerdictsFair`, whose inductive invariants follow the
  unit's history through the places of the poll loop: past `GateAnswers` the
  restart of this execution has ended well; a URL is asked only after systemd said
  active in the same poll; and an answer that verifies finds the URL answering at
  that moment. Each is kept by the host, by the executor
  and by everything else, one lemma each.
* `ActionsHaveOutages` (`ActsOnStandingOutage`): not inductive, since it says nothing
  of a session before it acts. `OutageInv` adds that the newest unanswered post says
  what Checkmk holds (`NewestHolds`), so that a session which is live without an
  outage still has the recovery ahead of it.
* `RepairTyped`: `RepairTypeOK`.

`DnsblBridgeProofs` proves, for any set of processes and any number of FIFOs and
rotations:

* `BridgeReadsAlone` (`OneReader`): the pidfile names every process there is
  (`KnownInv`), because a stop ends the process it names in whatever call it is;
  this is where the exception raised in `_stop` is needed.
* `BridgeTyped`: `BridgeTypeOK`.

With these, every invariant and every action property that a passing run checks
is a theorem. Only model-checked are the liveness properties (`ProposalsResolve`,
`SlotIsPassedOn`, `DecisionsClose`, `PublishEnds`, `LastingChangeIsAnnounced`,
`RunEnds`, `PhoneHearsOutage`, `BlockIsRead`, `ReadsAgain`): they rest on fairness
and ENABLED, which TLAPS does not reason about here. The runs also say that the
theorems are not about nothing: they fire every action, and each property is
broken by a change of the code it is about.

## Plan

Done: the core (`JobStore`, `Grants`, `Registry`, `Responder`), `Journal`,
`Attest`, `HomelabUpdate`, the loop from Checkmk to the phone and back (`Executor`,
`RepairLoop`), `DnsblBridge`, `ThinpoolAlert`, and the theorems above. Next, in
this order:

1. Steps towards the liveness properties that are safety: that no reachable state
   leaves a live thread without a step (what the runs check as the absence of
   deadlock), for every value of the constants.
2. An abstract specification of the journal (a set of sections, each queued, then
   published) that `Journal` implements, from `CommittedStays` and
   `SectionAppearsOnce`.
3. The bridge: what a record needs to reach the log the agent reads, as an
   invariant of `block`.

## Not modelled, and why

Prompt building and the Claude session (any answer is allowed), transcripts,
HTML/markdown wording, request parsing and authentication (a request that fails
them changes nothing), what rgate refuses (it keeps no state, and a refusal
changes nothing), the fields of a DNSBL record, the Wazuh rules (evaluated by
Wazuh), the write-ups.
