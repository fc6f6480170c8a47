--------------------------- MODULE ErsatzSocketpair ---------------------------
(***************************************************************************)
(* evutil_ersatz_socketpair_ (evutil.c): a socketpair() made from TCP over *)
(* the loopback interface.  It opens a listener on a port the kernel       *)
(* chooses, connects a second socket to it, accepts the connection and    *)
(* then checks that the accepted peer is its own connector by comparing   *)
(* addresses.  Each system call may fail; every failure goes to           *)
(* tidy_up_and_fail, which closes whatever of listener, connector and     *)
(* acceptor is not -1.                                                     *)
(*                                                                         *)
(* Any other local process can connect to the listener while it listens.  *)
(* The model has such a foreign process, which connects from its own      *)
(* address.  Addresses are [host, port]: every socket here is on the       *)
(* loopback host, and the kernel gives each socket a port no other socket *)
(* uses.  The accept queue of listen(listener, 1) holds Backlog           *)
(* connections; a connect() to a full queue times out.                    *)
(***************************************************************************)
EXTENDS Integers, Sequences, FiniteSets

CONSTANTS
    Ports,      \* the ports the kernel can give out
    Backlog,    \* capacity of the listener's accept queue
    Families,   \* the family arguments a caller passes
    Protocols   \* the protocol arguments a caller passes

AF_INET == "AF_INET"
AF_UNIX == "AF_UNIX"
LOOPBACK == "127.0.0.1"
Slots == {"listener", "connector", "acceptor"}
NoAddr == [host |-> "none", port |-> 0]


VARIABLES
    pc,         \* the next step of the call
    made,       \* the slots of listener, connector, acceptor that are not -1
    opened,     \* the slots whose socket is open
    addr,       \* local address of each slot's socket
    peer,       \* remote address of each slot's socket
    queue,      \* the listener's accept queue: the connecting addresses
    used,       \* ports in use
    listenAddr, \* the local listen_addr, reused for accept()'s peer
    connectAddr,\* the local connect_addr
    result,     \* the call's return value
    fd          \* fd[0] and fd[1] on success

vars == <<pc, made, opened, addr, peer, queue, used, listenAddr, connectAddr,
          result, fd>>

Addr == [host : {LOOPBACK, "none"}, port : Ports \cup {0}]

\* A port the kernel can bind a new socket to.
FreePort == Ports \ used

-----------------------------------------------------------------------------
(* The steps of evutil_ersatz_socketpair_.                                *)

\* Mutant of TidyUpAndFail: the acceptor is not closed.
TidyUpKeepAcceptor ==
    /\ opened' = opened \ (made \ {"acceptor"})
    /\ result' = -1
    /\ pc' = "done"
    /\ UNCHANGED <<made, addr, peer, queue, used, listenAddr, connectAddr, fd>>

\* tidy_up_and_fail: close listener, connector and acceptor where they are
\* not -1, and return -1.
TidyUpAndFail ==
    /\ opened' = opened \ made
    /\ result' = -1
    /\ pc' = "done"
    /\ UNCHANGED <<made, addr, peer, queue, used, listenAddr, connectAddr, fd>>

\* Step to the next system call, or fail: an action of the call.
Step(from, to, effect) ==
    /\ pc = from
    /\ \/ /\ effect
          /\ pc' = to
       \/ TidyUpAndFail

\* Mutant of Begin: the error code is returned instead of being put in
\* errno.
BeginReturnsErrno ==
    /\ pc = "idle"
    /\ \E family \in Families, protocol \in Protocols, fdNull \in BOOLEAN :
         IF protocol # 0 \/ family \notin {AF_INET, AF_UNIX} \/ fdNull
         THEN /\ result' = 97 /\ pc' = "done"
              /\ UNCHANGED <<made, opened, addr, peer, queue, used,
                             listenAddr, connectAddr, fd>>
         ELSE /\ pc' = "socket_listener"
              /\ UNCHANGED <<made, opened, addr, peer, queue, used,
                             listenAddr, connectAddr, result, fd>>

\* The argument checks: only AF_INET (or AF_UNIX), protocol 0 and a
\* non-NULL fd array.
Begin ==
    /\ pc = "idle"
    /\ \E family \in Families, protocol \in Protocols, fdNull \in BOOLEAN :
         IF protocol # 0 \/ family \notin {AF_INET, AF_UNIX} \/ fdNull
         THEN /\ result' = -1 /\ pc' = "done"
              /\ UNCHANGED <<made, opened, addr, peer, queue, used,
                             listenAddr, connectAddr, fd>>
         ELSE /\ pc' = "socket_listener"
              /\ UNCHANGED <<made, opened, addr, peer, queue, used,
                             listenAddr, connectAddr, result, fd>>

\* listener = socket(AF_INET, type, 0); a failure returns -1 directly.
SocketListener ==
    /\ pc = "socket_listener"
    /\ \/ /\ made' = made \cup {"listener"}
          /\ opened' = opened \cup {"listener"}
          /\ pc' = "bind"
          /\ UNCHANGED result
       \/ /\ result' = -1 /\ pc' = "done" /\ UNCHANGED <<made, opened>>
    /\ UNCHANGED <<addr, peer, queue, used, listenAddr, connectAddr, fd>>

\* bind(listener, 127.0.0.1:0): the kernel picks a free port.
Bind ==
    Step("bind", "listen",
         \E p \in FreePort :
            /\ addr' = [addr EXCEPT !["listener"] = [host |-> LOOPBACK, port |-> p]]
            /\ used' = used \cup {p}
            /\ UNCHANGED <<made, opened, peer, queue, listenAddr, connectAddr,
                           result, fd>>)

\* listen(listener, 1)
Listen ==
    Step("listen", "socket_connector",
         UNCHANGED <<made, opened, addr, peer, queue, used, listenAddr,
                     connectAddr, result, fd>>)

\* connector = socket(AF_INET, type, 0)
SocketConnector ==
    Step("socket_connector", "getsockname_listener",
         /\ made' = made \cup {"connector"}
         /\ opened' = opened \cup {"connector"}
         /\ UNCHANGED <<addr, peer, queue, used, listenAddr, connectAddr,
                        result, fd>>)

\* getsockname(listener, &connect_addr): the port to connect to.
GetsocknameListener ==
    Step("getsockname_listener", "connect",
         /\ connectAddr' = addr["listener"]
         /\ UNCHANGED <<made, opened, addr, peer, queue, used, listenAddr,
                        result, fd>>)

\* connect(connector, &connect_addr): the kernel gives the connector a
\* port and queues the connection on the listener; a full queue makes
\* the blocking connect() time out.
Connect ==
    Step("connect", "accept",
         /\ Len(queue) < Backlog
         /\ \E p \in FreePort :
              /\ addr' = [addr EXCEPT !["connector"] = [host |-> LOOPBACK, port |-> p]]
              /\ peer' = [peer EXCEPT !["connector"] = connectAddr]
              /\ used' = used \cup {p}
              /\ queue' = Append(queue, [host |-> LOOPBACK, port |-> p])
         /\ UNCHANGED <<made, opened, listenAddr, connectAddr, result, fd>>)

\* acceptor = accept(listener, &listen_addr): the first queued connection,
\* whoever made it; listen_addr receives its remote address.
Accept ==
    Step("accept", "getsockname_connector",
         /\ queue # <<>>
         /\ made' = made \cup {"acceptor"}
         /\ opened' = opened \cup {"acceptor"}
         /\ addr' = [addr EXCEPT !["acceptor"] = addr["listener"]]
         /\ peer' = [peer EXCEPT !["acceptor"] = Head(queue)]
         /\ listenAddr' = Head(queue)
         /\ queue' = Tail(queue)
         /\ UNCHANGED <<used, connectAddr, result, fd>>)

\* Mutant of SameEndpoint: the ports are not compared.
SameHost(a, b) == a.host = b.host

\* The check that "we are talking to ourself": family, address and port.
SameEndpoint(a, b) == a.host = b.host /\ a.port = b.port

\* getsockname(connector, &connect_addr) and the comparison with the
\* accepted peer: on a match the listener is closed and fd[0], fd[1] are
\* connector and acceptor.  A failed getsockname() goes to
\* tidy_up_and_fail, a mismatch to abort_tidy_up_and_fail (ECONNABORTED).
Check ==
    /\ pc = "getsockname_connector"
    /\ \/ /\ SameEndpoint(listenAddr, addr["connector"])
          /\ connectAddr' = addr["connector"]
          /\ opened' = opened \ {"listener"}
          /\ fd' = <<"connector", "acceptor">>
          /\ result' = 0
          /\ pc' = "done"
          /\ UNCHANGED <<made, addr, peer, queue, used, listenAddr>>
       \/ TidyUpAndFail

-----------------------------------------------------------------------------
(* The foreign process.                                                    *)

\* It connects to the listener's port from a port of its own while the
\* listener is open and listening and its queue has room.
ForeignConnect ==
    /\ "listener" \in opened
    /\ pc \notin {"idle", "socket_listener", "bind", "listen"}
    /\ Len(queue) < Backlog
    /\ \E p \in FreePort :
         /\ queue' = Append(queue, [host |-> LOOPBACK, port |-> p])
         /\ used' = used \cup {p}
    /\ UNCHANGED <<pc, made, opened, addr, peer, listenAddr, connectAddr,
                   result, fd>>

Init ==
    /\ pc = "idle"
    /\ made = {}
    /\ opened = {}
    /\ addr = [s \in Slots |-> NoAddr]
    /\ peer = [s \in Slots |-> NoAddr]
    /\ queue = <<>>
    /\ used = {}
    /\ listenAddr = NoAddr
    /\ connectAddr = NoAddr
    /\ result = 0
    /\ fd = <<>>

Next ==
    \/ Begin \/ SocketListener \/ Bind \/ Listen \/ SocketConnector
    \/ GetsocknameListener \/ Connect \/ Accept \/ Check
    \/ ForeignConnect

Spec == Init /\ [][Next]_vars

-----------------------------------------------------------------------------
(* Properties.                                                             *)

TypeOK ==
    /\ pc \in {"idle", "socket_listener", "bind", "listen", "socket_connector",
              "getsockname_listener", "connect", "accept",
              "getsockname_connector", "done"}
    /\ made \subseteq Slots /\ opened \subseteq made
    /\ addr \in [Slots -> Addr] /\ peer \in [Slots -> Addr]
    /\ queue \in Seq(Addr) /\ Len(queue) <= Backlog
    /\ used \subseteq Ports
    /\ listenAddr \in Addr /\ connectAddr \in Addr
    /\ result \in {0, -1}
    /\ fd \in Seq(Slots)

\* What the function is for: when it returns 0, fd[0] and fd[1] are the
\* two ends of one connection, each the other's peer, even when another
\* process connected to the listener first.
PairIsConnected ==
    pc = "done" /\ result = 0 =>
        /\ peer[fd[2]] = addr[fd[1]]
        /\ peer[fd[1]] = addr[fd[2]]

\* On return only fd[0] and fd[1] remain open, and on failure nothing the
\* call opened: the listener is closed on both paths.
NoSocketLeak ==
    pc = "done" => opened = IF result = 0 THEN {fd[1], fd[2]} ELSE {}

=============================================================================
