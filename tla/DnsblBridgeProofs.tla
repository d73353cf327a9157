-------------------------- MODULE DnsblBridgeProofs --------------------------
(***************************************************************************)
(* One reader of the FIFO, for any processes, restarts and rotations.      *)
(***************************************************************************)
EXTENDS DnsblBridge, TLAPS

(* rc.d knows of every process that exists: OneReader needs it because a   *)
(* start looks at the pidfile only.                                        *)
KnownInv ==
  /\ DOMAIN proc = Proc
  /\ proc = [p \in Proc |-> proc[p]]
  /\ \A p \in Proc : proc[p].at # "off" => pidfile = p

(* What everything but a start and a stop does: no process appears.        *)
NobodyNew ==
  /\ UNCHANGED pidfile
  /\ DOMAIN proc' = Proc /\ proc' = [p \in Proc |-> proc'[p]]
  /\ \A p \in Proc : proc'[p].at # "off" => proc[p].at # "off"

LEMMA MainNobodyNew ==
  ASSUME KnownInv, NEW p \in Proc, Main(p) \/ BridgeError(p)
  PROVE  NobodyNew
<1> USE DEF KnownInv, NobodyNew
<1>1. CASE Look(p)
  BY <1>1 DEF Look, Goes
<1>2. CASE OpenFifo(p)
  BY <1>2 DEF OpenFifo
<1>3. CASE OpenLog(p)
  BY <1>3 DEF OpenLog
<1>4. CASE ReadBlock(p)
  BY <1>4 DEF ReadBlock
<1>5. CASE Emit(p)
  BY <1>5 DEF Emit
<1>6. CASE Eof(p)
  BY <1>6 DEF Eof, Goes
<1>7. CASE Wake(p)
  BY <1>7 DEF Wake, Goes
<1>8. CASE BridgeError(p)
  BY <1>8 DEF BridgeError, Goes
<1> QED BY <1>1, <1>2, <1>3, <1>4, <1>5, <1>6, <1>7, <1>8 DEF Main

LEMMA OthersNobodyNew ==
  ASSUME KnownInv,
         \/ UnboundAttaches \/ UnboundBlocks \/ UnboundStops \/ WriterBreaks
         \/ FifoRemoved \/ FifoCreated \/ LoggerChanges \/ LoggerReads
         \/ Rotate \/ AgentReads \/ UNCHANGED bridgeVars
  PROVE  NobodyNew
<1> USE DEF KnownInv, NobodyNew
<1>1. CASE UnboundAttaches
  BY <1>1 DEF UnboundAttaches
<1>2. CASE ~UnboundAttaches
  BY <1>2 DEF UnboundBlocks, UnboundStops, WriterBreaks, FifoRemoved, FifoCreated, LoggerChanges,
              LoggerReads, Rotate, AgentReads, bridgeSide, bridgeVars
<1> QED BY <1>1, <1>2

(* A stop ends the process the pidfile names, wherever its main() is, and  *)
(* a start needs an empty pidfile: so no two processes hold the FIFO.      *)
THEOREM BridgeReadsAlone == Spec => []OneReader
<1>1. Init => KnownInv
  BY DEF Init, KnownInv, Off
<1>2. ASSUME KnownInv, [Next]_bridgeVars PROVE KnownInv'
  <2> USE DEF KnownInv
  <2>1. ASSUME NEW p \in Proc, Start(p) PROVE KnownInv'
    <3>1. \A q \in Proc : proc[q].at = "off"
      BY <1>2, <2>1, BridgeAssumption DEF Start
    <3> QED BY <1>2, <2>1, <3>1 DEF Start, Goes
  <2>2. ASSUME NEW p \in Proc, Stop(p) PROVE KnownInv'
    <3>1. \A q \in Proc \ {p} : proc[q].at = "off"
      BY <1>2, <2>2 DEF Stop
    <3> QED BY <1>2, <2>2, <3>1 DEF Stop, Off
  <2>3. CASE NobodyNew
    BY <1>2, <2>3 DEF NobodyNew
  <2> QED BY <1>2, <2>1, <2>2, <2>3, MainNobodyNew, OthersNobodyNew DEF Next
<1>3. KnownInv => OneReader
  BY DEF KnownInv, OneReader, Attached
<1> QED BY <1>1, <1>2, <1>3, PTL DEF Spec

------------------------------------------------------------------------------
(* Types *)

LEMMA MainTyped ==
  ASSUME BridgeTypeOK, NEW p \in Proc, Main(p) \/ BridgeError(p)
  PROVE  BridgeTypeOK'
<1> USE BridgeAssumption DEF BridgeTypeOK, Place, fifoVars, historyVars
<1>1. CASE Look(p)
  BY <1>1 DEF Look, Goes
<1>2. CASE OpenFifo(p)
  <2> DEFINE place == IF writer = fifo THEN "opened" ELSE "opening"
             row == IF fifo = 0 THEN [proc[p] EXCEPT !.at = "pausing"]
                    ELSE [proc[p] EXCEPT !.at = place, !.fifo = fifo]
  <2>1. proc' = [proc EXCEPT ![p] = row]
    BY <1>2 DEF OpenFifo
  <2>2. place \in Place
    OBVIOUS
  <2> HIDE DEF place
  <2>3. row \in [at : Place, fifo : Nat, out : Nat]
    <3>1. proc[p] \in [at : Place, fifo : Nat, out : Nat]
      OBVIOUS
    <3>2. [proc[p] EXCEPT !.at = "pausing"] \in [at : Place, fifo : Nat, out : Nat]
      BY <3>1
    <3>3. [proc[p] EXCEPT !.at = place, !.fifo = fifo] \in [at : Place, fifo : Nat, out : Nat]
      BY <2>2, <3>1
    <3> QED BY <3>2, <3>3
  <2> HIDE DEF row
  <2>4. proc' \in [Proc -> [at : Place, fifo : Nat, out : Nat]]
    BY <2>1, <2>3
  <2> QED BY <1>2, <2>4 DEF OpenFifo
<1>3. CASE OpenLog(p)
  <2>1. proc' = [proc EXCEPT ![p] = [@ EXCEPT !.at = "reading", !.out = log]]
    BY <1>3 DEF OpenLog
  <2>2. [proc[p] EXCEPT !.at = "reading", !.out = log] \in [at : Place, fifo : Nat, out : Nat]
    OBVIOUS
  <2>3. proc' \in [Proc -> [at : Place, fifo : Nat, out : Nat]]
    BY <2>1, <2>2
  <2> QED BY <1>3, <2>3 DEF OpenLog
<1>4. CASE ReadBlock(p)
  BY <1>4 DEF ReadBlock
<1>5. CASE Emit(p)
  BY <1>5 DEF Emit, Disturbs
<1>6. CASE Eof(p)
  BY <1>6 DEF Eof, Goes
<1>7. CASE Wake(p)
  BY <1>7 DEF Wake, Goes
<1>8. CASE BridgeError(p)
  BY <1>8 DEF BridgeError, Goes, LosesBuffer, Disturbs, BlockIs
<1> QED BY <1>1, <1>2, <1>3, <1>4, <1>5, <1>6, <1>7, <1>8 DEF Main

(* The types of BridgeTypeOK are kept by every step.                       *)
THEOREM BridgeTyped == Spec => []BridgeTypeOK
<1> USE BridgeAssumption DEF BridgeTypeOK, Place, fifoVars, historyVars, bridgeSide
<1>1. Init => BridgeTypeOK
  <2> SUFFICES ASSUME Init PROVE BridgeTypeOK
    OBVIOUS
  <2>1. proc \in [Proc -> [at : Place, fifo : Nat, out : Nat]]
    BY DEF Init, Off
  <2>2. 0 \in Nat /\ 1 \in Nat
    OBVIOUS
  <2>3. block \in [at : {"unseen", "dropped", "pipe", "buffer", "log", "read", "lost"},
                   in : Nat, by : Proc \union {NoProc}]
    BY <2>2 DEF Init
  <2>4. unbound \in BOOLEAN /\ logger \in BOOLEAN /\ disturbed \in BOOLEAN /\ rotated \subseteq Proc
    BY DEF Init
  <2> QED BY <2>1, <2>2, <2>3, <2>4 DEF Init
<1>2. ASSUME BridgeTypeOK, [Next]_bridgeVars PROVE BridgeTypeOK'
  <2> USE <1>2
  <2>1. ASSUME NEW p \in Proc, Start(p) PROVE BridgeTypeOK'
    BY <2>1 DEF Start, Goes
  <2>2. ASSUME NEW p \in Proc, Stop(p) PROVE BridgeTypeOK'
    BY <2>2 DEF Stop, Off, LosesBuffer, Disturbs, BlockIs
  <2>3. CASE UnboundAttaches BY <2>3 DEF UnboundAttaches
  <2>4. CASE UnboundBlocks BY <2>4 DEF UnboundBlocks, Disturbs
  <2>5. CASE UnboundStops BY <2>5 DEF UnboundStops
  <2>6. CASE WriterBreaks BY <2>6 DEF WriterBreaks, BlockIs
  <2>7. CASE FifoRemoved BY <2>7 DEF FifoRemoved
  <2>8. CASE FifoCreated BY <2>8 DEF FifoCreated
  <2>9. CASE LoggerChanges BY <2>9 DEF LoggerChanges, Disturbs
  <2>10. CASE LoggerReads BY <2>10 DEF LoggerReads, BlockIs
  <2>11. CASE Rotate BY <2>11 DEF Rotate, Disturbs
  <2>12. CASE AgentReads BY <2>12 DEF AgentReads, BlockIs
  <2>13. CASE UNCHANGED bridgeVars BY <2>13 DEF bridgeVars
  <2> QED BY <2>1, <2>2, <2>3, <2>4, <2>5, <2>6, <2>7, <2>8, <2>9, <2>10, <2>11, <2>12, <2>13,
             MainTyped DEF Next
<1> QED BY <1>1, <1>2, PTL DEF Spec
==============================================================================
