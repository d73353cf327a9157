------------------------------ MODULE RepairLoop ------------------------------
(***************************************************************************)
(* From a broken unit to the phone and back: Checkmk notices, its two      *)
(* notification plugins report (ntfy-notify.py to the phone and            *)
(* responder-notify.py to the service), a session of the service decides,  *)
(* and Executor restarts the unit.  The session stands for what Responder  *)
(* models in detail; here the service may be off, and posts to it get lost.*)
(***************************************************************************)
EXTENDS Executor, Sequences, SequencesExt

CONSTANT MaxPosts  \* bound: posts of responder-notify.py not yet answered

ASSUME RepairAssumption == MaxPosts \in Nat \ {0}

VARIABLES
  problem,  \* whether Checkmk holds the unit's service for broken
  posts,    \* what responder-notify.py was run for and has not been answered
  pushes,   \* pushes[n]: "none", "due" or "deferred" for ntfy-notify.py to send
  ntfyUp,
  phone,    \* the last outage noticed: "unaware", "aware", "refused" by ntfy, "unsent"
  session,  \* of the service: "none", "live" (anything before the action) or "executing"
  up,       \* whether the service runs
  missed    \* history: a recovery was lost while the session was live

checkmkVars == <<problem, posts, pushes, ntfyUp, phone>>
serviceVars == <<session, up, missed>>
repairVars == <<executorVars, checkmkVars, serviceVars>>

Notification == {"PROBLEM", "RECOVERY"}

Init ==
  /\ ExecutorInit
  /\ problem = FALSE /\ posts = <<>> /\ ntfyUp = TRUE /\ phone = "aware"
  /\ pushes = [n \in Notification |-> "none"]
  /\ session = "none" /\ up = TRUE /\ missed = FALSE

------------------------------------------------------------------------------
(* Checkmk: two rules, so each notification runs both plugins. *)

Notice ==
  /\ problem # (unit # "serving")
  /\ Len(posts) < MaxPosts
  /\ problem' = ~problem
  /\ LET n == IF problem THEN "RECOVERY" ELSE "PROBLEM" IN
       /\ posts' = Append(posts, n)
       /\ pushes' = [pushes EXCEPT ![n] = "due"]
       /\ phone' = IF n = "PROBLEM" THEN "unaware" ELSE phone
  /\ UNCHANGED <<executorVars, serviceVars, ntfyUp>>

(* ntfy-notify.py *)

Sent(n, outcome) ==
  /\ pushes' = [pushes EXCEPT ![n] = "none"]
  /\ phone' = IF n = "PROBLEM" THEN outcome ELSE phone
  /\ UNCHANGED <<executorVars, serviceVars, problem, posts, ntfyUp>>

(* HTTP 200 *)
PushArrives(n) == pushes[n] # "none" /\ ntfyUp /\ Sent(n, "aware")

(* HTTP 4xx: exit 2, no retry.  A limit that ntfy imposes (429) is one of these. *)
PushRefused(n) == pushes[n] # "none" /\ ntfyUp /\ Sent(n, "refused")

(* The token or the URL cannot be read: exit 2, no retry, nothing sent. *)
PushUnsent(n) == pushes[n] # "none" /\ Sent(n, "unsent")

(* A plugin that treats every error as permanent. *)
PushFails_Drop(n) ==
  /\ pushes[n] # "none" /\ ~ntfyUp
  /\ pushes' = [pushes EXCEPT ![n] = "none"]
  /\ UNCHANGED <<executorVars, serviceVars, problem, posts, ntfyUp, phone>>

(* HTTP 5xx or no connection: exit 1, Checkmk retries. *)
PushFails(n) ==
  /\ pushes[n] = "due" /\ ~ntfyUp
  /\ pushes' = [pushes EXCEPT ![n] = "deferred"]
  /\ UNCHANGED <<executorVars, serviceVars, problem, posts, ntfyUp, phone>>

NtfyFails == ntfyUp /\ ntfyUp' = FALSE
NtfyReturns == ~ntfyUp /\ ntfyUp' = TRUE
NtfyChanges ==
  /\ NtfyFails \/ NtfyReturns
  /\ UNCHANGED <<executorVars, serviceVars, problem, posts, pushes, phone>>

(* responder-notify.py: exit 2 whatever went wrong. *)
PostLost ==
  /\ posts # <<>>
  /\ missed' = (missed \/ (Head(posts) = "RECOVERY" /\ session = "live"))
  /\ posts' = Tail(posts)
  /\ UNCHANGED <<executorVars, problem, pushes, ntfyUp, phone, session, up>>

------------------------------------------------------------------------------
(* The service *)

SessionIs(s) == session' = s /\ missed' = FALSE

(* A recovery that leaves a session alone once it is approved or pending. *)
PostArrives_KeepSession ==
  /\ up /\ posts # <<>>
  /\ posts' = Tail(posts)
  /\ \/ Head(posts) = "PROBLEM" /\ session = "none" /\ SessionIs("live")
     \/ UNCHANGED <<session, missed>>
  /\ UNCHANGED <<executorVars, problem, pushes, ntfyUp, phone, up>>

(* POST /alert: a problem opens a session or attaches to one, open or just *)
(* closed; a recovery closes whatever has not begun to execute.            *)
PostArrives ==
  /\ up /\ posts # <<>>
  /\ posts' = Tail(posts)
  /\ \/ /\ Head(posts) = "PROBLEM" /\ session = "none"
        /\ SessionIs("live")
     \/ Head(posts) = "PROBLEM" /\ UNCHANGED <<session, missed>>
     \/ /\ Head(posts) = "RECOVERY"
        /\ IF session = "live" THEN SessionIs("none") ELSE UNCHANGED <<session, missed>>
  /\ UNCHANGED <<executorVars, problem, pushes, ntfyUp, phone, up>>

(* A tap or a grant: run_execution(). *)
Act ==
  /\ up /\ session = "live"
  /\ session' = "executing"
  /\ Execute
  /\ UNCHANGED <<checkmkVars, up, missed>>

(* A denial, or the window closed.  Without a proposal the session stays live. *)
EndUnacted ==
  /\ up /\ session = "live"
  /\ SessionIs("none")
  /\ UNCHANGED <<executorVars, checkmkVars, up>>

(* The job is closed with the verdict; a raised one leaves it to interrupted(). *)
Conclude ==
  /\ up /\ session = "executing" /\ exec.at = "idle"
  /\ exec.verdict \in {"ok", "refused", "overdue"}
  /\ SessionIs("none")
  /\ UNCHANGED <<executorVars, checkmkVars, up>>

(* The ssh client dies with the service, the restart on the target does not. *)
Crash ==
  /\ up
  /\ up' = FALSE
  /\ exec' = [exec EXCEPT !.at = "idle"]
  /\ stray' = (stray \/ restart = "running")
  /\ restart' = IF restart = "running" THEN "none" ELSE restart
  /\ UNCHANGED <<hasUrl, unit, seen, steady, checkmkVars, session, missed>>

(* main(): interrupted() closes what was executing. *)
Restart ==
  /\ ~up
  /\ up' = TRUE
  /\ IF session = "executing" THEN SessionIs("none") ELSE UNCHANGED <<session, missed>>
  /\ UNCHANGED <<executorVars, checkmkVars>>

Next ==
  \/ (ExecutorSteps \/ HostSteps) /\ UNCHANGED <<checkmkVars, serviceVars>>
  \/ Notice \/ NtfyChanges \/ PostLost \/ PostArrives
  \/ \E n \in Notification : PushArrives(n) \/ PushRefused(n) \/ PushUnsent(n) \/ PushFails(n)
  \/ Act \/ EndUnacted \/ Conclude \/ Crash \/ Restart

Spec == Init /\ [][Next]_repairVars

(* ntfy comes back, and Checkmk tries a deferred notification again then. *)
FairSpec ==
  /\ Spec
  /\ WF_repairVars(NtfyReturns /\ NtfyChanges)
  /\ \A n \in Notification : SF_repairVars(PushArrives(n))

------------------------------------------------------------------------------
(* Properties *)

(* Types of the composed state. *)
RepairTypeOK ==
  /\ ExecutorTypeOK
  /\ problem \in BOOLEAN /\ ntfyUp \in BOOLEAN /\ up \in BOOLEAN /\ missed \in BOOLEAN
  /\ pushes \in [Notification -> {"none", "due", "deferred"}]
  /\ phone \in {"unaware", "aware", "refused", "unsent"}
  /\ session \in {"none", "live", "executing"}
  /\ posts \in Seq(Notification) /\ Len(posts) <= MaxPosts

(* "if the responder is down, the phone still gets the alert"              *)
(* (responder-notify.py): every outage Checkmk notices reaches the phone,  *)
(* in spite of outages of ntfy and whatever becomes of the service, unless *)
(* ntfy itself refuses the push or the plugin cannot read its token or     *)
(* URL, both of which it gives up on for good.                             *)
PhoneHearsOutage == phone = "unaware" ~> phone # "unaware"

(* Nothing is restarted for an outage that is over: when an action begins, *)
(* Checkmk holds the unit for broken, or its recovery is still on the way, *)
(* or was lost, because responder-notify.py does not try again.            *)
ActsOnStandingOutage ==
  [][session # "executing" /\ session' = "executing" =>
       problem \/ Contains(posts, "RECOVERY") \/ missed]_repairVars
==============================================================================
