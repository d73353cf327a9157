----------------------------- MODULE DnsblBridge -----------------------------
(***************************************************************************)
(* The bridge from Unbound's FIFO to the log the Wazuh agent reads         *)
(* (unbound-dnsbl-wazuh.py), started and stopped by rc.d, between three    *)
(* parties that know nothing of it: unbound, which recreates the FIFO,     *)
(* newsyslog, which rotates the log without a signal, and logger.py, which *)
(* may read the same FIFO.                                                 *)
(*                                                                         *)
(* Files are numbered as they are created: a process holds the number it   *)
(* opened, whatever has that name now.  One block is followed through the  *)
(* system; the other lines only move things along.                         *)
(***************************************************************************)
EXTENDS Naturals, FiniteSets

CONSTANTS
  Proc,         \* processes of the bridge that can exist at once
  NoProc,
  MaxFifos,     \* bound: FIFOs unbound creates
  MaxRotations  \* bound: rotations of the log

ASSUME BridgeAssumption == NoProc \notin Proc /\ MaxFifos \in Nat \ {0} /\ MaxRotations \in Nat

VARIABLES
  proc,       \* proc[p]: where main() of p is, and the FIFO and log file it holds
  pidfile,    \* the process rc.d believes to run, or NoProc
  unbound,    \* whether unbound runs
  fifo,       \* the FIFO that has the path now, 0 while there is none
  fifos,      \* FIFOs created so far
  writer,     \* the FIFO unbound writes to, 0 when it has none open
  logger,     \* whether logger.py reads the FIFO
  log,        \* the file that has the log's path now
  block,      \* where the followed block is: "unseen", "dropped" by unbound, "pipe",
              \* "buffer" of block.by, "log" number block.in, "read" by the agent, "lost"
  rotated,    \* history: processes under whose open log newsyslog put a new file
  disturbed   \* history: something happened that may cost the agent the block

fifoVars == <<unbound, fifo, fifos, writer, logger>>
historyVars == <<rotated, disturbed>>
bridgeVars == <<proc, pidfile, fifoVars, log, block, historyVars>>

Place == {"off", "looking", "found", "opening", "opened", "reading", "pausing"}
Off == [at |-> "off", fifo |-> 0, out |-> 0]

Goes(p, place) == proc' = [proc EXCEPT ![p].at = place]
Fifo(p) == proc[p].fifo
InPipe(f) == block.at = "pipe" /\ block.in = f
InBuffer(p) == block.at = "buffer" /\ block.by = p
InFlight == block.at \in {"pipe", "buffer"}
Disturbs(condition) == disturbed' = (disturbed \/ condition)
BlockIs(where) == block' = [block EXCEPT !.at = where]

(* A process has FIFO f open, or waits in open() for a writer of it. *)
Attached(p, f) == proc[p].at \in {"opening", "opened", "reading"} /\ Fifo(p) = f

Init ==
  /\ proc = [p \in Proc |-> Off] /\ pidfile = NoProc
  /\ unbound = TRUE /\ fifo = 1 /\ fifos = 1 /\ writer = 0 /\ logger = FALSE
  /\ log = 1
  /\ block = [at |-> "unseen", in |-> 0, by |-> NoProc]
  /\ rotated = {} /\ disturbed = FALSE

------------------------------------------------------------------------------
(* rc.d and main() *)

(* logger_py_running(): a ps that fails looks like no logger.py. *)
LoggerPyRunning(psWorks) == psWorks /\ logger

(* rc.subr refuses a second start; main() refuses to fight a logger.py it sees. *)
Start(p) ==
  /\ pidfile = NoProc /\ proc[p].at = "off"
  /\ \E psWorks \in BOOLEAN : ~LoggerPyRunning(psWorks)
  /\ pidfile' = p
  /\ Goes(p, "looking")
  /\ UNCHANGED <<fifoVars, log, block, historyVars>>

(* What a process had read and not yet written goes with it. *)
LosesBuffer(p) ==
  /\ Disturbs(InFlight)
  /\ IF InBuffer(p) THEN BlockIs("lost") ELSE UNCHANGED block

(* A handler that only clears _running: open() and read() are retried (PEP 475). *)
Stop_FlagOnly(p) ==
  /\ pidfile = p
  /\ pidfile' = NoProc
  /\ Disturbs(InFlight)
  /\ UNCHANGED <<proc, fifoVars, log, block, rotated>>

(* SIGTERM raises SystemExit wherever main() is; stop_postcmd removes the pidfile. *)
Stop(p) ==
  /\ pidfile = p
  /\ pidfile' = NoProc
  /\ proc' = [proc EXCEPT ![p] = Off]
  /\ LosesBuffer(p)
  /\ UNCHANGED <<fifoVars, log, rotated>>

(* A bridge that dies of a missing FIFO. *)
Look_Dies(p) ==
  /\ proc[p].at = "looking"
  /\ IF fifo = 0 THEN proc' = [proc EXCEPT ![p] = Off] ELSE Goes(p, "found")
  /\ UNCHANGED <<pidfile, fifoVars, log, block, historyVars>>

Look(p) ==
  /\ proc[p].at = "looking"
  /\ Goes(p, IF fifo = 0 THEN "pausing" ELSE "found")
  /\ UNCHANGED <<pidfile, fifoVars, log, block, historyVars>>

(* open() of a FIFO returns once it has, or had, a writer since. *)
OpenFifo(p) ==
  /\ proc[p].at = "found"
  /\ proc' = [proc EXCEPT ![p] =
       IF fifo = 0 THEN [@ EXCEPT !.at = "pausing"]
       ELSE [@ EXCEPT !.at = IF writer = fifo THEN "opened" ELSE "opening", !.fifo = fifo]]
  /\ UNCHANGED <<pidfile, fifoVars, log, block, historyVars>>

(* A main() that opens the log once for all FIFOs. *)
OpenLog_Once(p) ==
  /\ proc[p].at = "opened"
  /\ proc' = [proc EXCEPT ![p].at = "reading", ![p].out = IF @ = 0 THEN log ELSE @]
  /\ rotated' = rotated \ {p}
  /\ UNCHANGED <<pidfile, fifoVars, log, block, disturbed>>

OpenLog(p) ==
  /\ proc[p].at = "opened"
  /\ proc' = [proc EXCEPT ![p].at = "reading", ![p].out = log]
  /\ rotated' = rotated \ {p}
  /\ UNCHANGED <<pidfile, fifoVars, log, block, disturbed>>

ReadBlock(p) ==
  /\ proc[p].at = "reading" /\ InPipe(Fifo(p))
  /\ block' = [block EXCEPT !.at = "buffer", !.by = p]
  /\ UNCHANGED <<proc, pidfile, fifoVars, log, historyVars>>

Emit(p) ==
  /\ proc[p].at = "reading" /\ InBuffer(p)
  /\ block' = [block EXCEPT !.at = "log", !.in = proc[p].out]
  /\ Disturbs(p \in rotated)
  /\ UNCHANGED <<proc, pidfile, fifoVars, log, rotated>>

(* EOF comes after what was in the pipe. *)
Eof(p) ==
  /\ proc[p].at = "reading" /\ writer # Fifo(p)
  /\ ~InPipe(Fifo(p)) /\ ~InBuffer(p)
  /\ Goes(p, "looking")
  /\ UNCHANGED <<pidfile, fifoVars, log, block, historyVars>>

(* A line that is no UTF-8, a full disk: the rest of the buffer goes. *)
BridgeError(p) ==
  /\ proc[p].at = "reading"
  /\ Goes(p, "pausing")
  /\ LosesBuffer(p)
  /\ UNCHANGED <<pidfile, fifoVars, log, rotated>>

Wake(p) ==
  /\ proc[p].at = "pausing"
  /\ Goes(p, "looking")
  /\ UNCHANGED <<pidfile, fifoVars, log, block, historyVars>>

Main(p) ==
  Look(p) \/ OpenFifo(p) \/ OpenLog(p) \/ ReadBlock(p) \/ Emit(p) \/ Eof(p) \/ Wake(p)

------------------------------------------------------------------------------
(* unbound, newsyslog, logger.py and the agent *)

bridgeSide == <<proc, pidfile, logger, log, historyVars>>

HasReader(f) == logger \/ \E p \in Proc : Attached(p, f)

(* log_entry() opens the FIFO without blocking, which takes a reader; a     *)
(* reader that waits in open() is woken.                                   *)
UnboundAttaches ==
  /\ unbound /\ writer = 0
  /\ HasReader(fifo)
  /\ writer' = fifo
  /\ proc' = [p \in Proc |-> IF Attached(p, fifo) /\ proc[p].at = "opening"
                             THEN [proc[p] EXCEPT !.at = "opened"] ELSE proc[p]]
  /\ UNCHANGED <<pidfile, logger, log, historyVars, unbound, fifo, fifos, block>>

UnboundBlocks ==
  /\ unbound /\ block.at = "unseen"
  /\ block' = IF writer # 0 /\ HasReader(writer)
              THEN [block EXCEPT !.at = "pipe", !.in = writer]
              ELSE [block EXCEPT !.at = "dropped"]
  /\ Disturbs(logger)
  /\ UNCHANGED <<proc, pidfile, fifoVars, log, rotated>>

(* Nobody reads any more: EPIPE, and what was in the pipe is gone. *)
WriterBreaks ==
  /\ writer # 0 /\ ~HasReader(writer)
  /\ writer' = 0
  /\ IF InPipe(writer) THEN BlockIs("lost") ELSE UNCHANGED block
  /\ UNCHANGED <<bridgeSide, unbound, fifo, fifos>>

UnboundStops ==
  /\ unbound /\ fifos < MaxFifos
  /\ unbound' = FALSE /\ writer' = 0
  /\ UNCHANGED <<bridgeSide, fifo, fifos, block>>

(* A start of unbound removes the FIFO and creates it anew. *)
FifoRemoved ==
  /\ ~unbound /\ fifo # 0
  /\ fifo' = 0
  /\ UNCHANGED <<bridgeSide, unbound, fifos, writer, block>>

FifoCreated ==
  /\ ~unbound /\ fifo = 0
  /\ fifo' = fifos + 1 /\ fifos' = fifos + 1 /\ unbound' = TRUE
  /\ UNCHANGED <<bridgeSide, writer, block>>

LoggerChanges ==
  /\ logger' = ~logger
  /\ Disturbs(InFlight)
  /\ UNCHANGED <<rotated, proc, pidfile, unbound, fifo, fifos, writer, log, block>>

LoggerReads ==
  /\ logger /\ InPipe(writer)
  /\ BlockIs("lost")
  /\ UNCHANGED <<bridgeSide, unbound, fifo, fifos, writer>>

(* newsyslog has no pid file to signal: who has the log open keeps the old file. *)
Rotate ==
  /\ log <= MaxRotations
  /\ log' = log + 1
  /\ rotated' = rotated \union {p \in Proc : proc[p].at = "reading"}
  /\ Disturbs(block.at = "log")
  /\ UNCHANGED <<proc, pidfile, fifoVars, block>>

AgentReads ==
  /\ block.at = "log" /\ block.in = log
  /\ BlockIs("read")
  /\ UNCHANGED <<proc, pidfile, fifoVars, log, historyVars>>

Next ==
  \/ \E p \in Proc : Start(p) \/ Stop(p) \/ Main(p) \/ BridgeError(p)
  \/ UnboundAttaches \/ UnboundBlocks \/ UnboundStops \/ WriterBreaks
  \/ FifoRemoved \/ FifoCreated
  \/ LoggerChanges \/ LoggerReads \/ Rotate \/ AgentReads

Spec == Init /\ [][Next]_bridgeVars

(* main() goes on; unbound starts again once stopped and tries its FIFO    *)
(* every ten seconds; the agent reads what the path holds.  No fairness of *)
(* stops, rotations, errors or logger.py.                                  *)
FairSpec ==
  /\ Spec
  /\ \A p \in Proc : WF_bridgeVars(Main(p))
  /\ WF_bridgeVars(UnboundAttaches) /\ WF_bridgeVars(FifoRemoved \/ FifoCreated)
  /\ WF_bridgeVars(AgentReads)

------------------------------------------------------------------------------
(* Properties *)

(* Types of the processes, of the files and of the block. *)
BridgeTypeOK ==
  /\ proc \in [Proc -> [at : Place, fifo : Nat, out : Nat]]
  /\ pidfile \in Proc \union {NoProc}
  /\ unbound \in BOOLEAN /\ logger \in BOOLEAN /\ disturbed \in BOOLEAN
  /\ fifos \in Nat /\ fifo \in Nat /\ writer \in Nat /\ log \in Nat
  /\ rotated \subseteq Proc
  /\ block \in [at : {"unseen", "dropped", "pipe", "buffer", "log", "read", "lost"},
               in : Nat, by : Proc \union {NoProc}]

(* "a subsequent start would leave two readers splitting the FIFO between  *)
(* them" (_stop): whatever was stopped and started, and wherever main()    *)
(* was when it was stopped, at most one bridge reads.                      *)
OneReader == \A p, q \in Proc : Attached(p, Fifo(p)) /\ Attached(q, Fifo(q)) => p = q

(* A block that unbound could write reaches the agent, also across a       *)
(* restart of unbound (what was in the FIFO is read before its end), and   *)
(* across rotations while the bridge waits for unbound.  It may be missed  *)
(* only after a stop, an error, a logger.py, or a rotation under an open   *)
(* log.                                                                    *)
BlockIsRead == block.at = "pipe" ~> (block.at = "read" \/ disturbed)

(* "unbound recreates the FIFO on restart; wait for it rather than dying"  *)
(* (main): a bridge that rc.d believes to run reads again after a restart  *)
(* of unbound, unless it waits in open() for a FIFO that was replaced      *)
(* under it: from there only a stop gets it out.                           *)
ReadsAgain ==
  \A p \in Proc : pidfile = p ~>
    (pidfile # p \/ proc[p].at = "reading" \/ (proc[p].at = "opening" /\ Fifo(p) # fifo))
==============================================================================
