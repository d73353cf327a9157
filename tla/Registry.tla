------------------------------- MODULE Registry -------------------------------
(***************************************************************************)
(* The host registry (registry.py over registry.toml) and the filter a     *)
(* diagnosis passes before anything acts on it (diagnose.run).  The file   *)
(* is read once at startup, so the registry is a constant of the system.   *)
(***************************************************************************)
EXTENDS ResponderBase

CONSTANTS
  Host,            \* keys of [hosts]
  NoHost,          \* "no registry key": an alert from a host that is not onboarded
  CheckmkName,     \* host names as Checkmk reports them
  NameOf,          \* NameOf[h]: hosts.h.checkmk_name
  AlertingName,    \* AlertingName[p]: the Checkmk host of problem p
  WriteVerbs,      \* WriteVerbs[h]: hosts.h.write_verbs
  Flagged,         \* hosts with protected = true
  ProtectedNames,  \* protected.checkmk_names
  UnitProtected    \* hosts whose unit is in protected.units

ASSUME RegistryAssumption ==
  /\ NoHost \notin Host
  /\ NameOf \in [Host -> CheckmkName]
  /\ AlertingName \in [Problem -> CheckmkName]
  /\ WriteVerbs \in [Host -> SUBSET Verb]
  /\ Flagged \subseteq Host /\ UnitProtected \subseteq Host
  /\ ProtectedNames \subseteq CheckmkName

HostOrNone == Host \union {NoHost}

ByCheckmkName(name) ==
  IF \E h \in Host : NameOf[h] = name
    THEN CHOOSE h \in Host : NameOf[h] = name
    ELSE NoHost

IsWrite(h, v) == h \in Host /\ v \in WriteVerbs[h]

(* A registry that trusts hosts it does not know. *)
IsProtected_FlagOnly(h) == h \in Flagged

IsProtected(h) ==
  \/ h \notin Host
  \/ h \in Flagged
  \/ NameOf[h] \in ProtectedNames
  \/ h \in UnitProtected

(* What the model may name: any host and verb, or no action at all. *)
RawProposal == [host : HostOrNone, verb : VerbOrNone]

(* The filter without its last step: a valid action on any registered host. *)
Accepted_AnyHost(p, raw) == IF IsWrite(raw.host, raw.verb) THEN raw.verb ELSE NoVerb

(* The verb that survives: a registered write verb of the alerting host itself. *)
Accepted(p, raw) ==
  IF IsWrite(raw.host, raw.verb) /\ ByCheckmkName(AlertingName[p]) = raw.host
    THEN raw.verb
    ELSE NoVerb
==============================================================================
