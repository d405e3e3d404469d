------------------------------- MODULE TcpServer ------------------------------
(***************************************************************************)
(* tcp_server_func of framework/tcp/server.c: it listens on a port, and    *)
(* for each client it accepts it forks a child that prints what the client *)
(* sends until the client hangs up.                                        *)
(***************************************************************************)
CONSTANTS
  Clients     \* connections that may be made

VARIABLES
  server,     \* where tcp_server_func stands
  listening,  \* iSocketServer is open
  conn        \* how far each connection has come

States == {"away",      \* not made yet
           "queued",    \* made, and in the backlog of the listening socket
           "accepted",  \* iSocketClient
           "unserved",  \* fork failed
           "served",    \* a child reads it
           "ended"}     \* its child has exited

Init == server = "socket" /\ listening = FALSE /\ conn = [c \in Clients |-> "away"]

\* The connections whose descriptor the server has: it never closes one.
Held == {c \in Clients : conn[c] \notin {"away", "queued"}}

To(c, from, to) == conn[c] = from /\ conn' = [conn EXCEPT ![c] = to]

Socket ==
  /\ server = "socket"
  /\ \/ server' = "bind" /\ listening' = TRUE
     \/ server' = "returned" /\ UNCHANGED listening
  /\ UNCHANGED conn

\* When bind or listen fails the socket is left open.
Bind ==
  /\ server = "bind"
  /\ server' \in {"listen", "returned"}
  /\ UNCHANGED <<listening, conn>>

Listen ==
  /\ server = "listen"
  /\ server' \in {"accept", "returned"}
  /\ UNCHANGED <<listening, conn>>

\* accept, which blocks until a client has come.  When it fails it is called
\* again.
Accept(c) ==
  /\ server = "accept"
  /\ To(c, "queued", "accepted")
  /\ server' = "fork"
  /\ UNCHANGED listening

\* Slip: the server reads the client itself.
ForkNot(c) ==
  /\ server = "fork"
  /\ \/ To(c, "accepted", "served") /\ UNCHANGED server
     \/ conn[c] = "ended" /\ server' = "accept" /\ UNCHANGED conn
  /\ UNCHANGED listening

\* fork, and the server goes on to accept in any case.
Fork(c) ==
  /\ server = "fork"
  /\ To(c, "accepted", "served") \/ To(c, "accepted", "unserved")
  /\ server' = "accept"
  /\ UNCHANGED listening

\* A client connects, once the port is bound and listened on.
Connect(c) ==
  /\ server \in {"accept", "fork"}
  /\ To(c, "away", "queued")
  /\ UNCHANGED <<server, listening>>

\* In the child recv returns 0 or fails, and the child exits.
ChildEnd(c) ==
  /\ To(c, "served", "ended")
  /\ UNCHANGED <<server, listening>>

Serve == Socket \/ Bind \/ Listen \/ \E c \in Clients : Accept(c) \/ Fork(c)

Next == Serve \/ \E c \in Clients : Connect(c) \/ ChildEnd(c)
==============================================================================
