---------------------------- MODULE ResponderBase ----------------------------
(***************************************************************************)
(* Vocabulary shared by the modules of the responder service               *)
(* (src/configs/responder): the jobs it opens, the problems Checkmk reports *)
(* to it, the verbs it may run, and the wall clock its rows are stamped     *)
(* with (int(time.time()), one model unit standing for any step of it).    *)
(***************************************************************************)
EXTENDS Integers, FiniteSets

CONSTANTS
  Job,        \* ids a new row may get: secrets.token_hex(6), never reused
  Problem,    \* dedupe keys: one (Checkmk host, service) pair each
  NoProblem,  \* the key of a row that does not exist yet
  Verb,       \* verbs a diagnosis may name
  NoVerb,     \* "no action proposed"
  MaxTime     \* bound: the clock stops here, unless a proposal is still open

ASSUME VocabularyAssumption ==
  /\ NoProblem \notin Problem
  /\ NoVerb \notin Verb
  /\ MaxTime \in Nat

VARIABLE now  \* the clock every statement reads

VerbOrNone == Verb \union {NoVerb}
==============================================================================
