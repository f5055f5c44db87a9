----------------------------- MODULE TcpSlowPath -----------------------------
(***************************************************************************)
(* How TCP connections come and go: the slow path of two microkernels      *)
(* (micro_kernel/tcp.cc), the socket calls of the applications             *)
(* (lib/socket.cc) and the network between them.  The threads of an        *)
(* application on the "client" connect to one port of the "server", where  *)
(* other threads listen and accept.                                        *)
(*                                                                         *)
(* A microkernel is one thread, control_loop(): the commands, the packets, *)
(* the handshake list and the timers are handled one after the other.  A   *)
(* call of the library sends a command and waits for its events; a thread  *)
(* has one call at a time.  A flow is named by the client's port, the rest *)
(* of the 4-tuple being fixed.  Sequence numbers, options and the data     *)
(* path are left out.                                                      *)
(***************************************************************************)
EXTENDS Integers, Sequences, FiniteSets, SequencesExt

CONSTANTS Clients,       \* sockets that connect, one thread each
          Listeners,     \* sockets that listen, one thread each
          NrAccepts,     \* bound: calls of accept() of a listener
          NrPorts,       \* ephemeral ports of the client, 59001
          MAX_TCP_FLOWS, \* cc indexes of a microkernel, 65536
          MAX_NR_CONN,   \* 65536
          MaxAttempts,   \* 3, the SYNs that are retransmitted
          MaxBacklog,    \* the backlog given to listen()
          ReusePort,     \* the listeners have SO_REUSEPORT
          NonBlock,      \* the listeners have O_NONBLOCK
          MaxNet,        \* bound: packets on the wire, others are lost
          MayExit,       \* bound: the hosts whose application may exit
          None

Hosts == {"client", "server"}
Accepts == Listeners \X (1 .. NrAccepts)
Socks == Clients \cup Listeners \cup Accepts
Threads == Clients \cup Listeners
Ports == 1 .. NrPorts
NoIdx == -1

HostOf(s) == IF s \in Clients THEN "client" ELSE "server"
Peer(h) == IF h = "client" THEN "server" ELSE "client"
Thread(s) == IF s \in Accepts THEN s[1] ELSE s

VARIABLES
  conn,    \* the tcp_connection of a socket
  table,   \* tcp_connections of a host
  ebpf,    \* the connections that the fast path knows, with their cc_idx
  cc,      \* _avail_cc_idxs
  ports,   \* available_ports of the client
  bound,   \* the port of the listeners is taken
  hs,      \* tcp_handshake_list
  lists,   \* tcp_listeners: the listeners of the port
  lst,     \* backlog and pending_conn of a listener
  leaving, \* the application of a host has exited and is being cleaned up
  net,     \* packets on the wire
  call,    \* the call in which a thread waits
  cmd,     \* its command is in the channel to the microkernel
  evq,     \* events on their way to a thread
  lib,     \* status of a socket in the library
  epollin  \* EPOLLIN of a listening socket

kernel == <<conn, table, ebpf, cc, ports, bound, hs, lists, lst, leaving>>
library == <<call, cmd, lib, epollin>>
vars == <<conn, table, ebpf, cc, ports, bound, hs, lists, lst, leaving, net,
          call, cmd, evq, lib, epollin>>

Idle == [op |-> "none", s |-> None]
NoConn == [st |-> "none", port |-> 0, att |-> 0, timer |-> FALSE]
Freed == [NoConn EXCEPT !.st = "freed"]

Init ==
  /\ conn = [s \in Socks |-> NoConn]
  /\ table = [h \in Hosts |-> [p \in Ports |-> None]]
  /\ ebpf = [h \in Hosts |-> [p \in Ports |-> NoIdx]]
  /\ cc = [h \in Hosts |-> [i \in 1 .. MAX_TCP_FLOWS |-> i - 1]]
  /\ ports = [i \in 1 .. NrPorts |-> i]
  /\ bound = FALSE
  /\ hs = [h \in Hosts |-> <<>>]
  /\ lists = <<>>
  /\ lst = [l \in Listeners |-> [backlog |-> <<>>, pending |-> None]]
  /\ leaving = [h \in Hosts |-> FALSE]
  /\ net = {}
  /\ call = [t \in Threads |-> Idle]
  /\ cmd = [t \in Threads |-> FALSE]
  /\ evq = [t \in Threads |-> <<>>]
  /\ lib = [s \in Socks |-> "init"]
  /\ epollin = [l \in Listeners |-> FALSE]

-----------------------------------------------------------------------------
(* Packets, events and the tables                                          *)

SYN == {"SYN", "ECE", "CWR"}
SYNACK == {"SYN", "ACK", "ECE"}
RST == {"RST"}

\* The wire with one more packet.
Sent(wire, to, p, flags) ==
  LET with == wire \cup {[to |-> to, port |-> p, flags |-> flags]} IN
  IF Cardinality(with) <= MaxNet THEN with ELSE wire

\* lrpc_send() of an event to the thread of a socket.
Notify(s, type, status) ==
  evq' = [evq EXCEPT ![Thread(s)] =
            Append(@, [type |-> type, s |-> s, status |-> status, more |-> FALSE])]

\* find_tcp_conn_slowpath(): the connection created for this socket.
Found(s) == \/ conn[s].st = "FAKE"
            \/ \E p \in Ports : table[HostOf(s)][p] = s

NrConns(h) == Cardinality({p \in Ports : table[h][p] # None})
              + Cardinality({s \in Socks : HostOf(s) = h /\ conn[s].st = "FAKE"})

free_port(p) == ports' = IF p \in ToSet(ports) THEN ports ELSE Append(ports, p)

\* Mutant: the index stays on the free list.
reg_tcp_conn_ebpfKeeps(h, p) ==
  /\ ebpf' = [ebpf EXCEPT ![h][p] = Head(cc[h])]
  /\ UNCHANGED cc

\* reg_tcp_conn_ebpf() with an index at hand; an entry is overwritten.
reg_tcp_conn_ebpf(h, p) ==
  /\ ebpf' = [ebpf EXCEPT ![h][p] = Head(cc[h])]
  /\ cc' = [cc EXCEPT ![h] = Tail(@)]

\* Mutant: the entry of the map is not deleted.
unreg_tcp_conn_ebpfKeeps(h, p) ==
  /\ cc' = [cc EXCEPT ![h] = Append(@, IF ebpf[h][p] = NoIdx THEN 0 ELSE ebpf[h][p])]
  /\ UNCHANGED ebpf

\* Without an entry the index read is 0.
unreg_tcp_conn_ebpf(h, p) ==
  /\ cc' = [cc EXCEPT ![h] = Append(@, IF ebpf[h][p] = NoIdx THEN 0 ELSE ebpf[h][p])]
  /\ ebpf' = [ebpf EXCEPT ![h][p] = NoIdx]

\* tcp_conn_put() of the only reference: _tcp_connection_close(), which
\* leaves the handshake list alone.  wire is what else happens to the wire.
tcp_conn_put(s, wire) ==
  LET h == HostOf(s)
      p == conn[s].port IN
  /\ conn' = [conn EXCEPT ![s] = IF s \in ToSet(hs[h]) THEN [Freed EXCEPT !.port = p] ELSE Freed]
  /\ UNCHANGED <<hs, lists, lst, leaving>>
  /\ IF conn[s].st = "FAKE"
     THEN /\ bound' = FALSE
          /\ net' = wire
          /\ UNCHANGED <<table, ebpf, cc, ports>>
     ELSE /\ table' = [table EXCEPT ![h] = [q \in Ports |-> IF @[q] = s THEN None ELSE @[q]]]
          /\ IF conn[s].st \in {"OPEN", "WAIT_TX_SYNACK"}
             THEN unreg_tcp_conn_ebpf(h, p)
             ELSE UNCHANGED <<ebpf, cc>>
          /\ IF s \in Clients THEN free_port(p) ELSE UNCHANGED ports
          /\ net' = Sent(wire, Peer(h), p, RST)
          /\ UNCHANGED bound

-----------------------------------------------------------------------------
(* The commands of the applications: process_tcp_cmd()                     *)

Command(t, op) == /\ ~leaving[HostOf(t)]
                  /\ cmd[t] /\ call[t].op = op
                  /\ cmd' = [cmd EXCEPT ![t] = FALSE]
                  /\ UNCHANGED <<call, lib, epollin>>

tcp_open(k) ==
  /\ Command(k, "connect")
  /\ IF ports = <<>>
     THEN Notify(k, "open", -1) /\ UNCHANGED kernel
     ELSE /\ ports' = Tail(ports)
          /\ conn' = [conn EXCEPT ![k] = [NoConn EXCEPT !.st = "WAIT_TX_SYN", !.port = Head(ports)]]
          /\ table' = [table EXCEPT !["client"][Head(ports)] = IF @ = None THEN k ELSE @]
          /\ hs' = [hs EXCEPT !["client"] = Append(@, k)]
          /\ Notify(k, "open", 0)
          /\ UNCHANGED <<ebpf, cc, bound, lists, lst, leaving>>
  /\ UNCHANGED net

tcp_bind(l) ==
  /\ Command(l, "bind")
  /\ IF bound /\ ~ReusePort
     THEN Notify(l, "bind", -1) /\ UNCHANGED kernel
     ELSE /\ bound' = TRUE
          /\ conn' = [conn EXCEPT ![l] = [NoConn EXCEPT !.st = "FAKE"]]
          /\ Notify(l, "bind", 0)
          /\ UNCHANGED <<table, ebpf, cc, ports, hs, lists, lst, leaving>>
  /\ UNCHANGED net

tcp_listen(l) ==
  /\ Command(l, "listen")
  /\ lists' = Append(lists, l)
  /\ Notify(l, "listen", 0)
  /\ UNCHANGED <<conn, table, ebpf, cc, ports, bound, hs, lst, leaving, net>>

\* tcp_listener_accept() with pending_conn a and a backlog that is not empty.
tcp_listener_accept(l, backlog, a) ==
  LET p == Head(backlog) IN
  /\ IF cc["server"] = <<>>
     THEN /\ lst' = [lst EXCEPT ![l] = [backlog |-> Tail(backlog), pending |-> a]]
          /\ conn' = [conn EXCEPT ![a] = [NoConn EXCEPT !.st = "WAIT_RX_SYN"]]
          /\ UNCHANGED <<ebpf, cc, table, hs>>
     ELSE /\ lst' = [lst EXCEPT ![l] = [backlog |-> Tail(backlog), pending |-> None]]
          /\ conn' = [conn EXCEPT ![a] = [NoConn EXCEPT !.st = "WAIT_TX_SYNACK", !.port = p]]
          /\ reg_tcp_conn_ebpf("server", p)
          /\ table' = [table EXCEPT !["server"][p] = IF @ = None THEN a ELSE @]
          /\ hs' = [hs EXCEPT !["server"] = Append(@, a)]
  /\ UNCHANGED <<ports, bound, lists, leaving>>

\* Mutant: a SYN that waits already is not looked at.
tcp_acceptSleeps(l) ==
  /\ Command(l, "accept")
  /\ IF lst[l].pending # None \/ NrConns("server") > MAX_NR_CONN
     THEN Notify(call[l].s, "accept", -1) /\ UNCHANGED kernel
     ELSE /\ lst' = [lst EXCEPT ![l].pending = call[l].s]
          /\ conn' = [conn EXCEPT ![call[l].s] = [NoConn EXCEPT !.st = "WAIT_RX_SYN"]]
          /\ UNCHANGED <<table, ebpf, cc, ports, bound, hs, lists, leaving, evq>>
  /\ UNCHANGED net

tcp_accept(l) ==
  LET a == call[l].s IN
  /\ Command(l, "accept")
  /\ IF lst[l].pending # None \/ NrConns("server") > MAX_NR_CONN
     THEN Notify(a, "accept", -1) /\ UNCHANGED kernel
     ELSE /\ UNCHANGED evq
          /\ IF lst[l].backlog # <<>>
             THEN tcp_listener_accept(l, lst[l].backlog, a)
             ELSE /\ lst' = [lst EXCEPT ![l].pending = a]
                  /\ conn' = [conn EXCEPT ![a] = [NoConn EXCEPT !.st = "WAIT_RX_SYN"]]
                  /\ UNCHANGED <<table, ebpf, cc, ports, bound, hs, lists, leaving>>
  /\ UNCHANGED net

\* Mutant: a connection that is gone already is not answered.
tcp_closeSilent(t) ==
  /\ Command(t, "close")
  /\ IF Found(call[t].s)
     THEN tcp_conn_put(call[t].s, net) /\ Notify(call[t].s, "close", 1)
     ELSE UNCHANGED <<kernel, net, evq>>

tcp_close(t) ==
  LET s == call[t].s IN
  /\ Command(t, "close")
  /\ IF Found(s)
     THEN tcp_conn_put(s, net) /\ Notify(s, "close", 1)
     ELSE Notify(s, "close", -1) /\ UNCHANGED <<kernel, net>>

process_tcp_cmd(t) ==
  \/ t \in Clients /\ tcp_open(t)
  \/ t \in Listeners /\ (tcp_bind(t) \/ tcp_listen(t) \/ tcp_accept(t))
  \/ tcp_close(t)

-----------------------------------------------------------------------------
(* The packets: tcp_packet()                                               *)

\* In CONN_WAIT_RX_SYNACK.  The timer is stopped, or armed again.
tcp_synack_pkt(k, flags, wire) ==
  /\ IF {"SYN", "ACK"} \subseteq flags /\ cc["client"] # <<>>
     THEN /\ reg_tcp_conn_ebpf("client", conn[k].port)
          /\ conn' = [conn EXCEPT ![k].st = "OPEN", ![k].timer = FALSE]
          /\ Notify(k, "open", 1)
     ELSE /\ conn' = [conn EXCEPT ![k].timer = TRUE]
          /\ UNCHANGED <<ebpf, cc, evq>>
  /\ net' = wire
  /\ UNCHANGED <<table, ports, bound, hs, lists, lst, leaving>>

\* Mutant: the application does not hear of a reset.
tcp_connection_pktSilent(s, flags, wire) ==
  \/ conn[s].st = "WAIT_RX_SYNACK" /\ tcp_synack_pkt(s, flags, wire)
  \/ conn[s].st = "OPEN" /\ flags = RST /\ tcp_conn_put(s, wire) /\ UNCHANGED evq

\* A SYN for an open connection is answered again if it has no other flag,
\* which those of tcp.cc:1170 always have.
tcp_connection_pkt(s, flags, wire) ==
  \/ /\ conn[s].st = "WAIT_RX_SYNACK"
     /\ tcp_synack_pkt(s, flags, wire)
  \/ /\ conn[s].st = "OPEN" /\ flags = RST
     /\ Notify(s, "close", 0)
     /\ tcp_conn_put(s, wire)
  \/ /\ conn[s].st # "WAIT_RX_SYNACK" /\ ~(conn[s].st = "OPEN" /\ flags = RST)
     /\ net' = IF conn[s].st = "OPEN" /\ flags = {"SYN"}
               THEN Sent(wire, Peer(HostOf(s)), conn[s].port, SYNACK) ELSE wire
     /\ UNCHANGED <<kernel, evq>>

\* The hash of the 4-tuple chooses one of the listeners of the port.
tcp_listener_lookup(p) == lists[(p % Len(lists)) + 1]

tcp_listener_pkt(l, p, flags, wire) ==
  /\ net' = wire
  /\ IF \/ flags \ {"ECE", "CWR"} # {"SYN"}
        \/ Len(lst[l].backlog) >= MaxBacklog
        \/ p \in ToSet(lst[l].backlog)
     THEN UNCHANGED <<kernel, evq>>
     ELSE /\ Notify(l, "newconn", 0)
          /\ IF lst[l].pending # None
             THEN tcp_listener_accept(l, Append(lst[l].backlog, p), lst[l].pending)
             ELSE /\ lst' = [lst EXCEPT ![l].backlog = Append(@, p)]
                  /\ UNCHANGED <<conn, table, ebpf, cc, ports, bound, hs, lists, leaving>>

tcp_packet(h, p, flags, wire) ==
  IF table[h][p] # None
  THEN tcp_connection_pkt(table[h][p], flags, wire)
  ELSE IF h = "server" /\ lists # <<>>
  THEN tcp_listener_pkt(tcp_listener_lookup(p), p, flags, wire)
  ELSE /\ net' = IF flags = RST THEN wire ELSE Sent(wire, Peer(h), p, RST)
       /\ UNCHANGED <<kernel, evq>>

\* poll_network(); the network may deliver a packet again.
Deliver ==
  \E pkt \in net : \E wire \in {net, net \ {pkt}} :
    /\ ~leaving[pkt.to]
    /\ tcp_packet(pkt.to, pkt.port, pkt.flags, wire)
    /\ UNCHANGED library

\* The network, or a transmit ring without room, loses a packet.
Lose == /\ \E pkt \in net : net' = net \ {pkt}
        /\ UNCHANGED <<kernel, library, evq>>

-----------------------------------------------------------------------------
(* The handshake list, the timers and the end of an application            *)

\* One entry of poll_tcp_handshake_events().  A connection freed meanwhile is
\* read all the same: as it was, or as whatever its memory holds now.
Handshake(h) ==
  /\ hs[h] # <<>> /\ ~leaving[h]
  /\ hs' = [hs EXCEPT ![h] = Tail(@)]
  /\ LET s == Head(hs[h])
         p == conn[s].port IN
     \/ /\ conn[s].st = "WAIT_TX_SYN"
        /\ conn' = [conn EXCEPT ![s].st = "WAIT_RX_SYNACK", ![s].timer = TRUE]
        /\ net' = Sent(net, "server", p, SYN)
        /\ UNCHANGED evq
     \/ /\ conn[s].st = "WAIT_TX_SYNACK"
        /\ conn' = [conn EXCEPT ![s].st = "OPEN"]
        /\ net' = Sent(net, "client", p, SYNACK)
        /\ evq' = [evq EXCEPT ![Thread(s)] =
                     Append(@, [type |-> "accept", s |-> s, status |-> 0,
                                more |-> lst[Thread(s)].backlog # <<>>])]
     \/ /\ conn[s].st = "freed"
        /\ net' \in {net, Sent(net, "server", p, SYN)}
        /\ conn' = [conn EXCEPT ![s] = Freed]
        /\ UNCHANGED evq
  /\ UNCHANGED <<table, ebpf, cc, ports, bound, lists, lst, leaving, library>>

\* The list is emptied between the packets and the timers, so that only
\* retransmissions are on it when timers and applications are looked at.
OnlyRetries(h) ==
  \A s \in ToSet(hs[h]) : conn[s].st = "freed" \/ (conn[s].st = "WAIT_TX_SYN" /\ conn[s].att > 0)

\* Mutant: the attempts are not counted.
HandshakeTimeoutUncounted(k) ==
  /\ ~leaving["client"] /\ OnlyRetries("client")
  /\ conn[k].timer /\ conn[k].st = "WAIT_RX_SYNACK"
  /\ conn' = [conn EXCEPT ![k].st = "WAIT_TX_SYN", ![k].att = 1]
  /\ hs' = [hs EXCEPT !["client"] = Append(@, k)]
  /\ UNCHANGED <<table, ebpf, cc, ports, bound, lists, lst, leaving, net, library, evq>>

\* Mutant: a connection that is given up is listed once more.
HandshakeTimeoutListed(k) ==
  /\ ~leaving["client"] /\ OnlyRetries("client")
  /\ conn[k].timer /\ conn[k].st = "WAIT_RX_SYNACK"
  /\ hs' = [hs EXCEPT !["client"] = Append(@, k)]
  /\ IF conn[k].att <= MaxAttempts
     THEN conn' = [conn EXCEPT ![k].st = "WAIT_TX_SYN", ![k].att = @ + 1]
     ELSE conn' = [conn EXCEPT ![k] = Freed]
  /\ UNCHANGED <<table, ebpf, cc, ports, bound, lists, lst, leaving, net, library, evq>>

\* poll_tcp_cc_to(), for a connection whose timer has expired.
HandshakeTimeout(k) ==
  /\ ~leaving["client"] /\ OnlyRetries("client")
  /\ conn[k].timer /\ conn[k].st = "WAIT_RX_SYNACK"
  /\ IF conn[k].att <= MaxAttempts
     THEN /\ conn' = [conn EXCEPT ![k].st = "WAIT_TX_SYN", ![k].att = @ + 1]
          /\ hs' = [hs EXCEPT !["client"] = Append(@, k)]
          /\ UNCHANGED <<table, ebpf, cc, ports, bound, lists, lst, leaving, net>>
     ELSE tcp_conn_put(k, net)
  /\ UNCHANGED <<library, evq>>

\* poll_uds() sees that the application has exited.
AppExit(h) ==
  /\ h \in MayExit /\ ~leaving[h] /\ OnlyRetries(h)
  /\ \E t \in Threads : HostOf(t) = h /\ (call[t] # Idle \/ lib[t] # "init")
  /\ leaving' = [leaving EXCEPT ![h] = TRUE]
  /\ lib' = [s \in Socks |-> IF HostOf(s) = h /\ (lib[s] # "init" \/ call[Thread(s)].s = s)
                             THEN "gone" ELSE lib[s]]
  /\ call' = [t \in Threads |-> IF HostOf(t) = h THEN Idle ELSE call[t]]
  /\ cmd' = [t \in Threads |-> IF HostOf(t) = h THEN FALSE ELSE cmd[t]]
  /\ evq' = [t \in Threads |-> IF HostOf(t) = h THEN <<>> ELSE evq[t]]
  /\ epollin' = [l \in Listeners |-> IF h = "server" THEN FALSE ELSE epollin[l]]
  /\ UNCHANGED <<conn, table, ebpf, cc, ports, bound, hs, lists, lst, net>>

\* free_connections(), one connection after the other.
free_connections(h) ==
  /\ leaving[h]
  /\ \E s \in Socks : HostOf(s) = h /\ Found(s) /\ tcp_conn_put(s, net)
  /\ UNCHANGED <<library, evq>>

\* free_listeners(), with the connections that wait in accept(), and the
\* ports that are left; another application may then register.
free_listeners(h) ==
  /\ leaving[h] /\ \A s \in Socks : HostOf(s) = h => ~Found(s)
  /\ leaving' = [leaving EXCEPT ![h] = FALSE]
  /\ IF h = "server"
     THEN /\ lists' = <<>> /\ bound' = FALSE
          /\ lst' = [l \in Listeners |-> [backlog |-> <<>>, pending |-> None]]
          /\ conn' = [s \in Socks |-> IF \E l \in Listeners : lst[l].pending = s
                                      THEN Freed ELSE conn[s]]
     ELSE UNCHANGED <<lists, bound, lst, conn>>
  /\ UNCHANGED <<table, ebpf, cc, ports, hs, net, library, evq>>

-----------------------------------------------------------------------------
(* The socket calls                                                        *)

Enter(t, op, s) ==
  /\ call[t] = Idle /\ ~leaving[HostOf(t)]
  /\ call' = [call EXCEPT ![t] = [op |-> op, s |-> s]]
  /\ cmd' = [cmd EXCEPT ![t] = TRUE]
  /\ UNCHANGED <<kernel, net, evq, epollin>>

eTran_connect(k) == lib[k] = "init" /\ Enter(k, "connect", k) /\ UNCHANGED lib

eTran_bind(l) == lib[l] = "init" /\ Enter(l, "bind", l) /\ UNCHANGED lib

eTran_listen(l) == lib[l] = "bound" /\ Enter(l, "listen", l) /\ UNCHANGED lib

eTran_accept(l) ==
  /\ lib[l] = "listening"
  /\ \E n \in 1 .. NrAccepts :
       /\ lib[<<l, n>>] = "init" /\ \A m \in 1 .. n - 1 : lib[<<l, m>>] # "init"
       /\ Enter(l, "accept", <<l, n>>)
       /\ lib' = [lib EXCEPT ![<<l, n>>] = "requested"]

eTran_close(s) ==
  /\ lib[s] \in {"connected", "closed", "bound", "listening"}
  /\ Enter(Thread(s), "close", s)
  /\ UNCHANGED lib

\* What socket_tcp_poll() makes of an event: the socket must still have the
\* connection of the event, which an accepted one gets only when accept()
\* returns.
OnEvent(L, e) ==
  LET to(st) == [L EXCEPT ![e.s] = st] IN
  CASE L[e.s] = "gone"    -> L
    [] e.type = "open"    -> to(CASE e.status = -1 -> "closed"
                                  [] e.status = 0 -> "connecting"
                                  [] e.status = 1 -> "connected")
    [] e.type = "bind"    -> to(IF e.status = -1 THEN "closed" ELSE "bound")
    [] e.type = "listen"  -> to("listening")
    [] e.type = "newconn" -> L
    [] e.type = "accept"  -> to(IF e.status = 0 THEN "accepted" ELSE "refused")
    [] e.type = "close"   -> IF L[e.s] \in {"requested", "accepted", "refused"}
                             THEN L ELSE to("closed")

\* Mutant: accept() clears EPOLLIN whatever is left.
OnEpollClears(on, e) == CASE e.type = "newconn" -> TRUE
                          [] e.type = "accept"  -> FALSE
                          [] OTHER              -> on

\* EPOLLIN of the listening socket: set by a new connection, cleared when
\* accept() has taken the last one.
OnEpoll(on, e) == CASE e.type = "newconn" -> TRUE
                    [] e.type = "accept"  -> on /\ e.more
                    [] OTHER              -> on

\* The status with which the call of a thread leaves its socket, given the
\* one after the events.
Returned(op, st) ==
  CASE op \in {"connect", "bind", "close"} /\ st = "closed" -> "gone"
    [] op = "accept" /\ st = "accepted" -> "connected"
    [] op = "accept" /\ st = "refused" /\ NonBlock -> "gone"
    [] OTHER -> st

Returns(op, st) ==
  CASE op = "connect" -> st \in {"connected", "closed"}
    [] op = "bind"    -> st # "init"
    [] op = "listen"  -> st # "bound"
    [] op = "close"   -> st = "closed"
    [] op = "accept"  -> st = "accepted" \/ (st = "refused" /\ NonBlock)
    [] OTHER          -> FALSE

\* A thread polls, in its call or in epoll_wait(), takes all events and looks
\* at its socket.
Poll(t) ==
  LET after == FoldLeft(OnEvent, lib, evq[t])
      op == call[t].op
      s == call[t].s IN
  /\ evq[t] # <<>>
  /\ evq' = [evq EXCEPT ![t] = <<>>]
  /\ IF t \in Listeners
     THEN epollin' = [epollin EXCEPT ![t] = FoldLeft(OnEpoll, @, evq[t])]
     ELSE UNCHANGED epollin
  /\ IF call[t] # Idle /\ Returns(op, after[s])
     THEN /\ lib' = [after EXCEPT ![s] = Returned(op, @)]
          /\ call' = [call EXCEPT ![t] = Idle]
     ELSE lib' = after /\ UNCHANGED call
  /\ UNCHANGED <<kernel, net, cmd>>

-----------------------------------------------------------------------------
Calls == \/ \E k \in Clients : eTran_connect(k)
         \/ \E l \in Listeners : eTran_bind(l) \/ eTran_listen(l) \/ eTran_accept(l)
         \/ \E s \in Socks : eTran_close(s)

Next == \/ Calls
        \/ \E t \in Threads : Poll(t) \/ process_tcp_cmd(t)
        \/ Deliver \/ Lose
        \/ \E k \in Clients : HandshakeTimeout(k)
        \/ \E h \in Hosts : Handshake(h) \/ AppExit(h) \/ free_connections(h) \/ free_listeners(h)

Spec == Init /\ [][Next]_vars

\* The control loop runs for ever and threads that wait in a call poll; an
\* armed timer expires.  Calls, exits and the network owe nothing.
FairSpec == /\ Spec
            /\ \A t \in Threads : WF_vars(Poll(t)) /\ WF_vars(process_tcp_cmd(t))
            /\ \A k \in Clients : WF_vars(HandshakeTimeout(k))
            /\ \A h \in Hosts : /\ WF_vars(Handshake(h))
                                /\ WF_vars(free_connections(h)) /\ WF_vars(free_listeners(h))

-----------------------------------------------------------------------------
Status == {"none", "freed", "FAKE", "WAIT_TX_SYN", "WAIT_RX_SYNACK", "WAIT_RX_SYN",
           "WAIT_TX_SYNACK", "OPEN"}

Events == [type : {"open", "bind", "listen", "newconn", "accept", "close"}, s : Socks,
           status : {-1, 0, 1}, more : BOOLEAN]

\* Types; a SYN is retransmitted no more often than MaxAttempts + 1 times, a
\* backlog never exceeds what listen() asked for, and an accept() in progress
\* is the pending one.
TypeOK ==
  /\ conn \in [Socks -> [st : Status, port : 0 .. NrPorts, att : 0 .. MaxAttempts + 1, timer : BOOLEAN]]
  /\ table \in [Hosts -> [Ports -> Socks \cup {None}]]
  /\ ebpf \in [Hosts -> [Ports -> -1 .. MAX_TCP_FLOWS - 1]]
  /\ \A h \in Hosts : cc[h] \in Seq(0 .. MAX_TCP_FLOWS - 1) /\ hs[h] \in Seq(Socks)
  /\ ports \in Seq(Ports) /\ bound \in BOOLEAN /\ lists \in Seq(Listeners)
  /\ \A l \in Listeners :
       /\ lst[l].backlog \in Seq(Ports) /\ Len(lst[l].backlog) <= MaxBacklog
       /\ \/ lst[l].pending = None \/ leaving["server"]
          \/ call[l] = [op |-> "accept", s |-> lst[l].pending]
  /\ leaving \in [Hosts -> BOOLEAN]
  /\ net \subseteq [to : Hosts, port : Ports, flags : {SYN, SYNACK, RST}]
  /\ \A t \in Threads : evq[t] \in Seq(Events)
  /\ lib \in [Socks -> {"init", "connecting", "connected", "closed", "gone", "bound", "listening",
                        "requested", "accepted", "refused"}]
  /\ epollin \in [Listeners -> BOOLEAN] /\ cmd \in [Threads -> BOOLEAN]

InUse(h) == {s \in Socks : HostOf(s) = h /\ conn[s].st \in {"OPEN", "WAIT_TX_SYNACK"}}

InTable(h) == {s \in Socks : HostOf(s) = h
                 /\ conn[s].st \in {"WAIT_TX_SYN", "WAIT_RX_SYNACK", "WAIT_TX_SYNACK", "OPEN"}}

\* The fast path knows a flow exactly while the slow path has a connection
\* open or about to be (tcp.cc:202), and tcp_connections has exactly the
\* connections with a flow: what one handler registers another one removes.
TablesAgree ==
  \A h \in Hosts, p \in Ports :
    /\ ebpf[h][p] # NoIdx <=> \E s \in InUse(h) : conn[s].port = p
    /\ {s \in InTable(h) : conn[s].port = p} = {table[h][p]} \ {None}

\* A cc index is free or belongs to one flow of the fast path, whatever
\* order handshakes, resets, closes and exits come in: none is lost and no
\* two connections count in the same entry (alloc_cc_idx(), tcp.cc:37).
CcIdxExact ==
  \A h \in Hosts :
    LET used == {p \in Ports : ebpf[h][p] # NoIdx} IN
    /\ Len(cc[h]) + Cardinality(used) = MAX_TCP_FLOWS
    /\ ToSet(cc[h]) \cup {ebpf[h][p] : p \in used} = 0 .. MAX_TCP_FLOWS - 1

\* A port of the client is free or has one connection (alloc_port(),
\* control_plane.cc:205).
PortsExact ==
  /\ Len(ports) = Cardinality(ToSet(ports))
  /\ \A p \in Ports :
       /\ p \in ToSet(ports) <=> \A s \in InTable("client") : conn[s].port # p
       /\ Cardinality({s \in InTable("client") : conn[s].port = p}) <= 1

\* accept() and a SYN never wait for each other: where a connection waits for
\* a SYN the backlog is empty.  This needs an index for every accept() that
\* tcp_accept() lets in (tcp.cc:1276).
NoLostWakeup == \A l \in Listeners : lst[l].pending # None => lst[l].backlog = <<>>

\* A listening socket with a queued SYN is readable, or an event that makes it
\* so is on its way and no event that clears it follows; only an accept()
\* refused at the limit of connections clears it regardless.
Readable(l) == FoldLeft(OnEpoll, epollin[l], evq[l])

Refused(l) == evq'[l] # <<>> /\ Last(evq'[l]).type = "accept" /\ Last(evq'[l]).status = -1

Starved(l) == lib[l] = "listening" /\ lst[l].backlog # <<>> /\ ~Readable(l)

ReadinessKept == [][\A l \in Listeners : Starved(l)' /\ ~Starved(l) => Refused(l)]_vars

\* A socket on which connect() has succeeded has its connection in the
\* microkernel, or an event tells that it is closed.
ConnectedIsOpen ==
  \A k \in Clients : lib[k] = "connected" =>
    conn[k].st = "OPEN" \/ \E i \in DOMAIN evq[k] : evq[k][i].type = "close"

\* "notify application that we received RST" (tcp.cc:843): the same for a
\* socket that accept() has returned.
AcceptedIsOpen ==
  \A a \in Accepts : lib[a] = "connected" =>
    conn[a].st = "OPEN" \/ \E i \in DOMAIN evq[a[1]] : evq[a[1]][i].s = a /\ evq[a[1]][i].type = "close"

\* A freed connection is on the handshake list only after the exit of its
\* application: no close, reset or timeout frees one that is still listed.
ListedIsLive ==
  \A h \in Hosts : \A s \in ToSet(hs[h]) : conn[s].st = "freed" => lib[s] = "gone"

\* Retries are bounded: a connection in handshake is opened or given up.
HandshakeEnds ==
  \A k \in Clients : conn[k].st \in {"WAIT_TX_SYN", "WAIT_RX_SYNACK"} ~>
                       conn[k].st \in {"OPEN", "freed"}

\* close() returns, whatever resets and exits come in between.
CloseReturns == \A t \in Threads : call[t].op = "close" ~> call[t].op # "close"

=============================================================================
