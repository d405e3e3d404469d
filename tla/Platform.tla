------------------------------- MODULE Platform -------------------------------
(***************************************************************************)
(* The process: SensorCollect with main, TcpServer and the logger's file   *)
(* (LogFile, which Logger implements).  The three threads share no data    *)
(* but they live in one process, which ends for all of them when main or   *)
(* a wild pointer ends it, and take their descriptors from one table.      *)
(* Children of the server are processes of their own.                      *)
(***************************************************************************)
EXTENDS SensorCollect, FiniteSets

CONSTANTS
  Clients,
  Commands,
  Descriptors    \* room of the table, 1024 by default

\* Standard input, output and error.
Standard == 3

ASSUME Room ==
  /\ IsFiniteSet(Clients)
  /\ Descriptors \in Nat /\ Descriptors >= Standard

\* Nothing in src calls handle_log_shell_cmd.
ASSUME NoShell == Commands = {}

VARIABLES server, listening, conn, fid, turn

Tcp == INSTANCE TcpServer
Log == INSTANCE LogFile

tcp  == <<server, listening, conn>>
file == <<fid, turn>>
allVars == <<vars, tcp, file>>

\* What is open, in any of the threads.
One(b)   == IF b THEN 1 ELSE 0
InUse ==
  Standard + Cardinality(opened) + One(listening) + Cardinality(Tcp!Held)
  + One(fid = "open")

\* What is not for clients: with two devices, one serial port, the listening
\* socket and a file.
Others == Standard + 5

Full == InUse >= Descriptors

------------------------------------------------------------------------------
SensorStep ==
  /\ \/ \E t \in Threads : CreateThread(t) \/ Begin(t)
     \/ Startup \/ Loop \/ Signal
  /\ UNCHANGED <<tcp, file>>

ServerStep ==
  /\ ~down /\ "tcp" \in running
  /\ Tcp!Serve
  /\ UNCHANGED <<vars, file>>

\* Clients, and the children that serve them.
ClientStep ==
  /\ \E c \in Clients :
       \/ ~down /\ Tcp!Connect(c)
       \/ Tcp!ChildEnd(c)
  /\ UNCHANGED <<vars, file>>

\* The file system is there: a file is not opened only if the table is full.
LogStep ==
  /\ ~down /\ "logger" \in running
  /\ \/ Log!Open /\ (fid' = "NULL" => Full)
     \/ Log!Rotate \/ Log!Stop
  /\ UNCHANGED <<vars, tcp>>

\* fclose of a null pointer ends the process, and so may what is done to a
\* closed file.
LogMisuse ==
  /\ ~down /\ "logger" \in running
  /\ Log!Misuse
  /\ \/ down' = TRUE
     \/ fid = "closed" /\ UNCHANGED down
  /\ UNCHANGED <<created, running, pc, devices, sem, cnt, sent, ticks, loops, tcp>>

PlatformInit == Init /\ Tcp!Init /\ Log!Init

\* What needs a descriptor succeeds only if there is one.
PlatformNext ==
  /\ SensorStep \/ ServerStep \/ ClientStep \/ LogStep \/ LogMisuse
  /\ InUse' <= Descriptors

\* The sensor thread and the server are scheduled in the end; the reads of the
\* first return, as in SensorCollect.
PlatformSpec ==
  /\ PlatformInit /\ [][PlatformNext]_allVars
  /\ WF_allVars(Loop /\ UNCHANGED <<tcp, file>>)
  /\ WF_allVars(ServerStep /\ InUse' <= Descriptors)

------------------------------------------------------------------------------
(* Properties                                                               *)

\* Every variable holds a value of its kind.
PlatformTypeOK ==
  /\ TypeOK
  /\ server \in {"socket", "bind", "listen", "accept", "fork", "returned"}
  /\ listening \in BOOLEAN
  /\ conn \in [Clients -> Tcp!States]
  /\ fid \in {"NULL", "open", "closed"}
  /\ turn \in {"open", "write", "lost"}
  /\ InUse <= Descriptors

\* Signals add up and topics keep their rates, whatever the other threads do.
RoundsKept == TicksKept /\ RatesKept

\* The logger is left without a file only by clients: all else that the threads
\* open, also when their start-up fails half way, leaves room for it.
FileOutlastsOthers ==
  fid = "NULL" /\ turn # "open" =>
    Cardinality(Tcp!Held) + Others > Descriptors

\* A client that has connected is accepted and has a child forked for it, how
\* many there are and however long they stay; unless the table was full, or the
\* server or the process came to an end.
ClientsServed ==
  \A c \in Clients :
    conn[c] = "queued" ~> conn[c] \in {"served", "unserved"} \/ Full \/ down
==============================================================================
