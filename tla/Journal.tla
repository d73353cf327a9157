-------------------------------- MODULE Journal --------------------------------
(***************************************************************************)
(* The journal publisher of the responder (journal.py).  record() starts a *)
(* thread for each section; under a lock the thread makes the clone if     *)
(* there is none, rebases it onto main, appends the section to the file of *)
(* its job, commits, and tries to push three times.  Other people commit   *)
(* to the same branch meanwhile, and the host is switched off every night. *)
(*                                                                         *)
(* git is modelled by what it does to a clone that is fetched with         *)
(* --depth 1.  A fetch makes the tip of main the root of the history the   *)
(* clone knows.  If that tip is not one of the clone's own commits, git    *)
(* sees two unrelated histories, and the rebase replays everything the     *)
(* clone has on top of the tip, starting with the whole tree at the old    *)
(* root (git 2.39).                                                        *)
(***************************************************************************)
EXTENDS Naturals, FiniteSets, SequencesExt

CONSTANTS
  Section,     \* sections the service records in a run
  FileOf,      \* FileOf[s]: the file of the section's job
  NoSection,
  Foreign,     \* what commits of others may do to existing files
  MaxForeign,  \* bound: how many commits others make
  MaxFaults,   \* bound: how many git calls fail
  MaxCrashes   \* bound: how often the host goes down

ASSUME JournalAssumption ==
  /\ NoSection \notin Section
  /\ DOMAIN FileOf = Section
  /\ Foreign \subseteq {"adds", "modifies", "deletes"}
  /\ MaxForeign \in Nat /\ MaxFaults \in Nat /\ MaxCrashes \in Nat

VARIABLES
  remote,     \* commits on main since before the clone, oldest first
  clone,      \* the clone: main up to commit root, then the commits in own;
              \* it last saw main at commit tip (origin/main)
  dirty,      \* sections appended to their files but not staged
  staged,     \* sections staged but not committed
  publisher,  \* the thread that holds the lock, and its place
  status,     \* status[s]: how far the thread of section s got
  faults, crashes

disk == <<clone, dirty, staged>>
journalVars == <<remote, disk, publisher, status, faults, crashes>>

NoPublisher == [sec |-> NoSection, at |-> "none", pushes |-> 0, fetched |-> TRUE]
Place == {"clone", "sync", "append", "add", "commit", "push", "resync"}
Ended == {"pushed", "gaveUp", "unreachable", "failed", "killed"}

By(what, secs) == [what |-> what, secs |-> secs]
Commits(branch) == {branch[i] : i \in DOMAIN branch}
SectionsOn(branch) == UNION {c.secs : c \in Commits(branch)}
Files(secs) == {FileOf[s] : s \in secs}

Base == SubSeq(remote, 1, clone.root)
New(tip) == SubSeq(remote, clone.root + 1, tip)  \* what main has got since, as of tip
Branch == Base \o clone.own

JournalInit ==
  /\ remote = <<>>
  /\ clone = [made |-> FALSE, root |-> 0, tip |-> 0, own |-> <<>>]
  /\ dirty = {} /\ staged = {}
  /\ publisher = NoPublisher
  /\ status = [s \in Section |-> "unrecorded"]
  /\ faults = 0 /\ crashes = 0

Goes(place) == publisher' = [publisher EXCEPT !.at = place]
Ends(how) ==
  /\ publisher' = NoPublisher
  /\ status' = [status EXCEPT ![publisher.sec] = how]

(* record(): a thread of its own, so nothing waits for it. *)
Record(s) ==
  /\ status[s] = "unrecorded"
  /\ status' = [status EXCEPT ![s] = "waiting"]
  /\ UNCHANGED <<remote, disk, publisher, faults, crashes>>

(* "with _lock": any waiting thread may be next. *)
TakeLock(s) ==
  /\ publisher = NoPublisher
  /\ status[s] = "waiting"
  /\ status' = [status EXCEPT ![s] = "publishing"]
  /\ publisher' = [NoPublisher EXCEPT !.sec = s, !.at = "clone"]
  /\ UNCHANGED <<remote, disk, faults, crashes>>

EnsureClone ==
  /\ publisher.at = "clone"
  /\ clone' = IF clone.made THEN clone
              ELSE [made |-> TRUE, root |-> Len(remote), tip |-> Len(remote), own |-> <<>>]
  /\ Goes("sync")
  /\ UNCHANGED <<remote, dirty, staged, status, faults, crashes>>

(* Changed files, or a staged section: git refuses to start a rebase. *)
RebaseRefused ==
  \/ staged # {}
  \/ Files(dirty) \intersect Files(SectionsOn(Branch)) # {}

(* Main, as of tip, ends in one of the clone's own commits. *)
Related(tip) == IsPrefix(New(tip), clone.own)

(* Replaying the old tree conflicts with every file of it that main holds  *)
(* in a newer version: one that others changed, or one of our own files    *)
(* that a pushed section was appended to.                                  *)
ReplayConflicts(tip) ==
  \/ \E c \in Commits(New(tip)) : c.what = "modifies"
  \/ \E i \in DOMAIN New(tip) :
       Files(New(tip)[i].secs) \intersect Files(SectionsOn(Base \o SubSeq(New(tip), 1, i - 1))) # {}

(* Commits that main already has are dropped from the replay. *)
Landed(tip) == Len(LongestCommonPrefix({New(tip), clone.own}))
Unlanded(tip) == SubSeq(clone.own, Landed(tip) + 1, Len(clone.own))

(* The old tree also brings back the files that others deleted. *)
Restored(tip) == IF \E c \in Commits(New(tip)) : c.what = "deletes"
                   THEN <<By("restores", {})>> ELSE <<>>

(* A sync that throws the clone's own commits away. *)
Rebased_Reset(tip) == [clone EXCEPT !.root = tip, !.tip = tip, !.own = <<>>]

(* A replay that does not notice what main already has. *)
Rebased_AllOwn(tip) == [clone EXCEPT !.root = tip, !.tip = tip]

(* git rebase onto main as of tip, and git rebase --abort if it conflicts. *)
Rebased(tip) ==
  IF RebaseRefused \/ (~Related(tip) /\ ReplayConflicts(tip))
    THEN [clone EXCEPT !.tip = tip]
    ELSE [clone EXCEPT !.root = tip, !.tip = tip,
                       !.own = IF Related(tip) THEN SubSeq(@, Len(New(tip)) + 1, Len(@))
                                               ELSE Restored(tip) \o Unlanded(tip)]

(* An off-by-one in the number of attempts. *)
AfterSync_OneMore ==
  IF publisher.at = "sync"
    THEN Goes("append") /\ UNCHANGED status
    ELSE IF publisher.pushes <= 3
           THEN Goes("push") /\ UNCHANGED status
           ELSE Ends(IF publisher.fetched THEN "gaveUp" ELSE "failed")

(* The sync after a rejected push: the third one is followed by giving up. *)
AfterSync ==
  IF publisher.at = "sync"
    THEN Goes("append") /\ UNCHANGED status
    ELSE IF publisher.pushes < 3
           THEN Goes("push") /\ UNCHANGED status
           ELSE Ends(IF publisher.fetched THEN "gaveUp" ELSE "failed")

(* git fetch --depth 1, and the rebase onto what it fetched. *)
Sync ==
  /\ publisher.at \in {"sync", "resync"}
  /\ clone' = Rebased(Len(remote))
  /\ AfterSync
  /\ UNCHANGED <<remote, dirty, staged, faults, crashes>>

AppendSection ==
  /\ publisher.at = "append"
  /\ dirty' = dirty \union {publisher.sec}
  /\ Goes("add")
  /\ UNCHANGED <<remote, clone, staged, status, faults, crashes>>

(* git add of one file stages whatever an earlier publish left in it. *)
Add ==
  /\ publisher.at = "add"
  /\ LET found == {s \in dirty : FileOf[s] = FileOf[publisher.sec]} IN
       /\ staged' = staged \union found
       /\ dirty' = dirty \ found
  /\ Goes("commit")
  /\ UNCHANGED <<remote, clone, status, faults, crashes>>

Commit ==
  /\ publisher.at = "commit"
  /\ clone' = [clone EXCEPT !.own = Append(@, By("sections", staged))]
  /\ staged' = {}
  /\ Goes("push")
  /\ UNCHANGED <<remote, dirty, status, faults, crashes>>

(* Main takes the branch, and the clone knows. *)
Accepted == remote' = Branch /\ clone' = [clone EXCEPT !.tip = Len(Branch)]

(* A loop that tries until the push is accepted. *)
Push_Forever ==
  /\ publisher.at = "push"
  /\ IF Related(Len(remote))
       THEN Accepted /\ Ends("pushed")
       ELSE Goes("resync") /\ UNCHANGED <<remote, clone, status>>
  /\ UNCHANGED <<dirty, staged, faults, crashes>>

(* A rejected push that is tried again without fetching what it was        *)
(* rejected for.                                                           *)
Push_SameAgain ==
  /\ publisher.at = "push"
  /\ IF Related(Len(remote))
       THEN Accepted /\ Ends("pushed")
       ELSE /\ publisher' = [publisher EXCEPT !.pushes = @ + 1,
                               !.at = IF publisher.pushes < 2 THEN "push" ELSE "resync"]
            /\ UNCHANGED <<remote, clone, status>>
  /\ UNCHANGED <<dirty, staged, faults, crashes>>

Push ==
  /\ publisher.at = "push"
  /\ IF Related(Len(remote))
       THEN Accepted /\ Ends("pushed")
       ELSE /\ publisher' = [publisher EXCEPT !.at = "resync", !.pushes = @ + 1]
            /\ UNCHANGED <<remote, clone, status>>
  /\ UNCHANGED <<dirty, staged, faults, crashes>>

(* GitHub cannot be reached or rejects the key: the clone or the push ends *)
(* the publish.  A fetch that fails is passed over, and what it did not    *)
(* bring is missing: the first sync goes without a rebase, a later one     *)
(* rebases onto what main was.                                             *)
Unreachable ==
  /\ faults < MaxFaults
  /\ faults' = faults + 1
  /\ \/ /\ (publisher.at = "clone" /\ ~clone.made) \/ publisher.at = "push"
        /\ Ends("unreachable")
        /\ UNCHANGED clone
     \/ /\ publisher.at = "sync"
        /\ publisher' = [publisher EXCEPT !.at = "append", !.fetched = FALSE]
        /\ UNCHANGED <<clone, status>>
     \/ /\ publisher.at = "resync"
        /\ clone' = Rebased(clone.tip)
        /\ IF publisher.pushes < 3
             THEN /\ publisher' = [publisher EXCEPT !.at = "push", !.fetched = FALSE]
                  /\ UNCHANGED status
             ELSE Ends("failed")
  /\ UNCHANGED <<remote, dirty, staged, crashes>>

(* A git call hits its timeout or fails locally: _safe_publish logs it.    *)
(* A push that timed out may have reached main.                            *)
Fail ==
  /\ faults < MaxFaults
  /\ faults' = faults + 1
  /\ publisher.at \in Place
  /\ Ends("failed")
  /\ remote' \in {remote} \union
       (IF publisher.at = "push" /\ Related(Len(remote)) THEN {Branch} ELSE {})
  /\ UNCHANGED <<disk, crashes>>

(* The nightly power-off, or a stop of the service: the threads are        *)
(* daemons, what they wrote stays.                                         *)
Crash ==
  /\ crashes < MaxCrashes
  /\ crashes' = crashes + 1
  /\ publisher' = NoPublisher
  /\ status' = [s \in Section |-> IF status[s] \in {"waiting", "publishing"}
                                    THEN "killed" ELSE status[s]]
  /\ UNCHANGED <<remote, disk, faults>>

OthersCommit(what) ==
  /\ Cardinality({i \in DOMAIN remote : remote[i].what \in Foreign}) < MaxForeign
  /\ remote' = Append(remote, By(what, {}))
  /\ UNCHANGED <<disk, publisher, status, faults, crashes>>

Publish ==
  EnsureClone \/ Sync \/ AppendSection \/ Add \/ Commit \/ Push

JournalNext ==
  \/ \E s \in Section : Record(s) \/ TakeLock(s)
  \/ Publish
  \/ Unreachable \/ Fail \/ Crash
  \/ \E what \in Foreign : OthersCommit(what)

JournalSpec == JournalInit /\ [][JournalNext]_journalVars

(* Every git call has a timeout, and a waiting thread gets the lock.       *)
JournalFair ==
  /\ JournalSpec
  /\ WF_journalVars(Publish)
  /\ \A s \in Section : WF_journalVars(TakeLock(s))

------------------------------------------------------------------------------
(* Properties *)

(* Commits name sections, the clone's root is a commit of main, and the    *)
(* lock is held by a thread that is publishing.                            *)
JournalTypeOK ==
  LET Commit_ == [what : {"sections", "restores"} \union Foreign, secs : SUBSET Section]
  IN /\ remote \in Seq(Commit_)
     /\ clone \in [made : BOOLEAN, root : 0..clone.tip, tip : 0..Len(remote), own : Seq(Commit_)]
     /\ dirty \subseteq Section /\ staged \subseteq Section
     /\ publisher \in [sec : Section, at : Place, pushes : 0..3, fetched : BOOLEAN]
                        \union {NoPublisher}
     /\ \A s \in Section : status[s] = "publishing" <=> s = publisher.sec

(* A section appears once: no push that landed without an answer, no       *)
(* replay and no file added twice makes main, or the branch that goes out  *)
(* next, hold it in two commits.                                           *)
SectionOnce ==
  \A branch \in {remote, Branch} : \A i, j \in DOMAIN branch :
    i # j => branch[i].secs \intersect branch[j].secs = {}

(* "commits that failed to push earlier ... stay queued" (_publish): what  *)
(* was committed is on main or in the clone from then on, whatever fails.  *)
Kept == SectionsOn(remote) \union SectionsOn(Branch)
CommittedIsKept == [][Kept \subseteq Kept']_journalVars

(* "... and go out with the next successful push" (_publish): a publish    *)
(* that GitHub answered at every call ends with main holding all that was  *)
(* queued, since each rejected push is rebased before the next.            *)
AnsweredPublishPushes == \A s \in Section : status[s] # "gaveUp"

(* What remains of it: a publish answered at every call gives up only when *)
(* a commit of main collides with the replay of the clone's old tree, when *)
(* a publish cut short left files behind that stop every rebase, or when   *)
(* others push before each of its three attempts.                          *)
GaveUpForCause ==
  (\E s \in Section : status[s] = "gaveUp") =>
    \/ \E c \in Commits(remote) : c.what = "modifies"
    \/ \E i, j \in DOMAIN remote :
         i # j /\ Files(remote[i].secs) \intersect Files(remote[j].secs) # {}
    \/ \E s \in Section : status[s] \in {"killed", "failed"}
    \/ Cardinality({i \in DOMAIN remote : remote[i].what \in Foreign}) >= 3

(* A thread that waits for the lock or publishes comes to an end, however  *)
(* often GitHub fails or rejects it, so the sections after it get theirs.  *)
PublishEnds ==
  \A s \in Section : status[s] \in {"waiting", "publishing"} ~> status[s] \in Ended
==============================================================================
