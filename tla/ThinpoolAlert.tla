---------------------------- MODULE ThinpoolAlert ----------------------------
(***************************************************************************)
(* The thin pool check (thinpool-alert), run by a timer: it pushes when    *)
(* the pool's level differs from the one in its state file, and writes the *)
(* file afterwards.  Levels are 0, 1 (WARN) and 2 (URGENT).  A check may   *)
(* fail or be killed (the nightly power-off) at any point.                 *)
(***************************************************************************)
EXTENDS Naturals

VARIABLES
  usage,  \* the level the pool is at
  file,   \* the level in the state file
  at,     \* where a check is: "idle", "measured" or "settled" (pushed, or no need to)
  level,  \* the level the last check measured
  told,   \* the level of the last push that went through
  cut     \* history: a check ended between its push and the end of its write

alertVars == <<usage, file, at, level, told, cut>>

Level == 0..2

Init ==
  /\ usage \in Level
  /\ file = 0 /\ at = "idle" /\ level = 0 /\ told = 0 /\ cut = FALSE

PoolMoves ==
  /\ usage' \in Level
  /\ UNCHANGED <<file, at, level, told, cut>>

(* An lvs that cannot be read pushes a message of its own and ends the check. *)
Measure ==
  /\ at = "idle"
  /\ at' = "measured" /\ level' = usage
  /\ UNCHANGED <<usage, file, told, cut>>

(* A level above the one in the file, or back below WARN. *)
News == level > file \/ (level = 0 /\ file > 0)

Push ==
  /\ at = "measured" /\ News
  /\ \/ /\ at' = "settled"
        /\ told' = level
     \/ /\ at' = "idle"      \* || exit 1
        /\ UNCHANGED told
  /\ UNCHANGED <<usage, file, level, cut>>

NoPush ==
  /\ at = "measured" /\ ~News
  /\ at' = "settled"
  /\ UNCHANGED <<usage, file, level, told, cut>>

Write ==
  /\ at = "settled"
  /\ file' = level
  /\ at' = "idle"
  /\ UNCHANGED <<usage, level, told, cut>>

(* Also while it writes: the file is emptied first, and an empty one reads *)
(* as 0.  A disk that is full does the same.                               *)
Killed ==
  /\ at # "idle"
  /\ cut' = (cut \/ at = "settled")
  /\ at' = "idle"
  /\ \/ UNCHANGED file
     \/ at = "settled" /\ file' = 0
  /\ UNCHANGED <<usage, level, told>>

Next == PoolMoves \/ Measure \/ Push \/ NoPush \/ Write \/ Killed

Spec == Init /\ [][Next]_alertVars

------------------------------------------------------------------------------

AlertTypeOK ==
  /\ usage \in Level /\ file \in Level /\ told \in Level /\ cut \in BOOLEAN
  /\ at \in {"idle", "measured", "settled"} /\ level \in Level

(* Level l is no news to a phone last told t: not above it, and 0 only     *)
(* with 0.                                                                 *)
Known(l, t) == l <= t /\ (l = 0 <=> t = 0)

(* "so a full pool never looks like a quiet one" (thinpool-alert): between *)
(* checks the phone was told of at least the level in the file, and of a   *)
(* recovery exactly when there was one, however many pushes failed.  A     *)
(* check that ends between its push and its write voids this: a pool that  *)
(* recovers, and rises again to the level still in the file, is silent.    *)
PhoneFollows == at = "idle" /\ ~cut => Known(file, told)
==============================================================================
