------------------------------ MODULE Handoff ------------------------------
(***************************************************************************)
(* Connection handoff between Prism HTTP servers (the "2" variants:       *)
(* phttp_hoproto_export2.cpp, phttp_hoproto_import2.cpp,                  *)
(* phttp_hoproto_close2.cpp), driven by phttp_server.cpp and              *)
(* phttp_handoff_server.cpp, and steering the client's packets through    *)
(* the switch flow table of SwitchChannel.                                 *)
(*                                                                         *)
(* Every server runs one libuv loop; each action below is one callback    *)
(* run to completion.  A client connection is a peer; conn[s][p] is the   *)
(* http_client_socket_t server s holds for p together with its kernel     *)
(* socket.  The bytes of a request and the TCP/TLS/HTTP state are         *)
(* abstracted: a handoff record names the peer and how many times the     *)
(* current request has been handed on.                                    *)
(***************************************************************************)
EXTENDS SwitchChannel

CONSTANTS
  Frontend,     \* the server whose address is the virtual address
  Addr,         \* Addr[s]: local address of server s (workers may share one)
  MaxRequests,  \* requests a client sends on its connection
  MaxHops,      \* status-600 answers a handler gives one request
  IpOf,         \* IpOf[a]: the 32-bit IPv4 address of local address a
  PortOf        \* PortOf[a]: the TCP port the servers on a listen on

ASSUME Frontend \in Servers
ASSUME MaxRequests \in Nat /\ MaxHops \in Nat

VARIABLES
  conn,    \* conn[s][p]: server s's socket object for peer p
  chan,    \* chan[<<s, t>>]: handoff records s wrote on its connection to t
  client   \* the remote client of each peer

vars == <<swVars, conn, chan, client>>

\* Life cycle of an http_client_socket_t and its uv_tcp_t.
ConnStates == {"none", "reading", "writing", "wait_switch", "exporting",
               "export_monitor", "sending_record", "importing",
               "closing", "closing_imported", "monitor_imported"}

\* States in which the kernel socket is open and out of repair mode: the
\* socket accepts the client's segments.
LiveStates == {"reading", "writing", "wait_switch", "importing"}

\* A mutant in which closing an imported connection leaves its
\* descriptor open.
FdClosedKeepImported(st) ==
  st \notin LiveStates \cup {"closing_imported", "monitor_imported"}

\* A state of a closed uv handle: its file descriptor has been closed.
FdClosed(st) == st \notin LiveStates

Conn == [st : ConnStates, imported : BOOLEAN, ksock : BOOLEAN,
         evfd : 0..2, target : Servers, hops : 0..MaxHops]

NoConn == [st |-> "none", imported |-> FALSE, ksock |-> FALSE, evfd |-> 0,
           target |-> Frontend, hops |-> 0]

Record == [peer : Peers, hops : 0..MaxHops]

Client == [st : {"idle", "open", "fin"}, req : {"none", "sent", "read"},
           n : 0..MaxRequests]

Links == {l \in Servers \X Servers : l[1] # l[2]}

\* Where the switch sends the client's segments (prism_in_lookup): to the
\* owner of the entry, or by plain L2 switching to the virtual address
\* when the flow has no entry.  A locked entry drops them.
Route(p) == IF flow[p] = NoEntry THEN Frontend ELSE flow[p].owner
Routable(p) == IF flow[p] = NoEntry THEN TRUE ELSE ~flow[p].locked

\* The prism_value_t behind a flow entry e, as the requests that wrote it fill it
\* in: phttp_start_handoff's ADD names the accepting server's address and
\* port as both virtual and owner address, start_change_owner's CHOWN
\* names the importer's as owner.  DP!NULL when prism.lookup finds nothing.
VirtualIp == IpOf[Addr[Frontend]]
VirtualPort == PortOf[Addr[Frontend]]
EntryValue(e) ==
  IF e = NoEntry THEN DP!NULL
  ELSE [virtual_addr |-> VirtualIp, virtual_port |-> VirtualPort,
        owner_addr |-> IpOf[Addr[e.owner]], owner_port |-> PortOf[Addr[e.owner]],
        locked |-> e.locked]

TypeOK ==
  /\ SwitchTypeOK
  /\ conn \in [Servers -> [Peers -> Conn]]
  /\ chan \in [Links -> Seq(Record)]
  /\ client \in [Peers -> Client]

Init ==
  /\ SwitchInit
  /\ conn = [s \in Servers |-> [p \in Peers |-> NoConn]]
  /\ chan = [l \in Links |-> <<>>]
  /\ client = [p \in Peers |-> [st |-> "idle", req |-> "none", n |-> 0]]

SetConn(s, p, c) == conn' = [conn EXCEPT ![s][p] = c]
SetSt(s, p, st) == conn' = [conn EXCEPT ![s][p].st = st]

(***************************************************************************)
(* The remote client: connects to the virtual address, sends one request  *)
(* at a time (no pipelining) and closes when it has no request open.     *)
(***************************************************************************)

\* on_connection at the frontend: accept, monitor, read_start.
Connect(p) ==
  /\ client[p].st = "idle"
  /\ client' = [client EXCEPT ![p].st = "open"]
  /\ SetConn(Frontend, p, [NoConn EXCEPT !.st = "reading", !.ksock = TRUE])
  /\ UNCHANGED <<swVars, chan>>

ClientSend(p) ==
  /\ client[p].st = "open"
  /\ client[p].req = "none"
  /\ client[p].n < MaxRequests
  /\ client' = [client EXCEPT ![p].req = "sent", ![p].n = @ + 1]
  /\ UNCHANGED <<swVars, conn, chan>>

ClientClose(p) ==
  /\ client[p].st = "open"
  /\ client[p].req = "none"
  /\ client' = [client EXCEPT ![p].st = "fin"]
  /\ UNCHANGED <<swVars, conn, chan>>

(***************************************************************************)
(* The serving side (phttp_server.cpp, phttp_hoproto_export2.cpp).        *)
(***************************************************************************)

\* phttp_start_handoff toward t: uv_read_stop, then an ADD (a fresh
\* connection: owner self, lock 1) or a LOCK (an imported one, whose
\* entry exists) with after_configure_switch as callback.
StartHandoff(s, p, t) ==
  /\ SetConn(s, p, [conn[s][p] EXCEPT !.st = "wait_switch",
                                      !.target = t, !.hops = @ + 1])
  /\ QueueTask(IF conn[s][p].imported THEN "LOCK" ELSE "ADD",
               p, s, TRUE, "after_configure_switch", s)

\* A mutant of the handoff branch that writes the record to the target at
\* once, before the switch has locked the flow and the socket is exported.
OnReadEagerRecord(s, p) ==
  /\ conn[s][p].st = "reading"
  /\ Routable(p) /\ Route(p) = s
  /\ client[p].req = "sent"
  /\ client' = [client EXCEPT ![p].req = "read"]
  /\ \/ /\ SetSt(s, p, "writing")
        /\ UNCHANGED <<swVars, chan>>
     \/ \E t \in Servers \ {s} :
          /\ conn[s][p].hops < MaxHops
          /\ StartHandoff(s, p, t)
          /\ chan' = [chan EXCEPT ![<<s, t>>] =
                Append(@, [peer |-> p, hops |-> conn[s][p].hops + 1])]

\* phttp_on_read with a complete request, the request handler, then
\* either phttp_send_http_res or, on status 600, phttp_start_handoff.
OnRead(s, p) ==
  /\ conn[s][p].st = "reading"
  /\ Routable(p) /\ Route(p) = s
  /\ client[p].req = "sent"
  /\ client' = [client EXCEPT ![p].req = "read"]
  /\ \/ /\ SetSt(s, p, "writing")
        /\ UNCHANGED <<swVars, chan>>
     \/ \E t \in Servers \ {s} :
          /\ conn[s][p].hops < MaxHops
          /\ StartHandoff(s, p, t)
          /\ UNCHANGED chan

\* after_send_http_res: the response is written; request and response
\* are reset for the next request.
AfterSendHttpRes(s, p) ==
  /\ conn[s][p].st = "writing"
  /\ SetConn(s, p, [conn[s][p] EXCEPT !.st = "reading", !.hops = 0])
  /\ client' = [client EXCEPT ![p].req = "none"]
  /\ UNCHANGED <<swVars, chan>>

\* on_recv of the ADD/LOCK reply runs after_configure_switch: export_all
\* (tcp_export leaves the socket in repair mode) and uv_close.
AfterConfigureSwitch(r) ==
  LET s == swreq[r].from
      p == swreq[r].peer
  IN /\ swreq[r].cb = "after_configure_switch"
     /\ ClientRecv(r)
     /\ conn[s][p].st = "wait_switch"
     /\ SetSt(s, p, "exporting")
     /\ UNCHANGED <<chan, client>>

\* after_close of export2, the uv_close callback of an exported socket:
\* wait on the monitor with after_real_close.
AfterClose(s, p) ==
  /\ conn[s][p].st = "exporting"
  /\ SetSt(s, p, "export_monitor")
  /\ UNCHANGED <<swVars, chan, client>>

\* A mutant whose eventfd is signalled again for a socket already gone.
KernelDestroyRepeated(s, p) ==
  /\ FdClosed(conn[s][p].st)
  /\ conn' = [conn EXCEPT ![s][p].ksock = FALSE, ![s][p].evfd = @ + 1]
  /\ UNCHANGED <<swVars, chan, client>>

\* The kernel destroys a socket whose descriptor is closed and signals the
\* eventfd bound by uv_tcp_monitor_init.
KernelDestroy(s, p) ==
  /\ conn[s][p].ksock
  /\ FdClosed(conn[s][p].st)
  /\ conn' = [conn EXCEPT ![s][p].ksock = FALSE, ![s][p].evfd = @ + 1]
  /\ UNCHANGED <<swVars, chan, client>>

\* uv_tcp_monitor_on_tcp_close runs the saved callback once the eventfd
\* is readable: the kernel has destroyed the socket.
MonitorFired(s, p) == conn[s][p].evfd >= 1

\* A mutant of after_close that sends the record without waiting on the
\* monitor.
AfterRealCloseNoWait(s, p) ==
  /\ conn[s][p].st = "export_monitor"
  /\ SetSt(s, p, "sending_record")
  /\ chan' = [chan EXCEPT ![<<s, conn[s][p].target>>] =
                Append(@, [peer |-> p, hops |-> conn[s][p].hops])]
  /\ UNCHANGED <<swVars, client>>

\* uv_tcp_monitor_on_tcp_close, then after_real_close: serialize the
\* record and uv_write it (length, pad, payload) to the target.
AfterRealClose(s, p) ==
  /\ conn[s][p].st = "export_monitor"
  /\ MonitorFired(s, p)
  /\ SetSt(s, p, "sending_record")
  /\ chan' = [chan EXCEPT ![<<s, conn[s][p].target>>] =
                Append(@, [peer |-> p, hops |-> conn[s][p].hops])]
  /\ UNCHANGED <<swVars, client>>

\* handoff_done: the write completed; the monitor is closed and the
\* socket object freed.
HandoffDone(s, p) ==
  /\ conn[s][p].st = "sending_record"
  /\ SetConn(s, p, [NoConn EXCEPT !.ksock = conn[s][p].ksock])
  /\ UNCHANGED <<swVars, chan, client>>

(***************************************************************************)
(* Closing (phttp_hoproto_close2.cpp).                                     *)
(***************************************************************************)

\* phttp_on_read sees the client's FIN (nread < 0) and calls
\* phttp_start_close.
OnReadEOF(s, p) ==
  /\ conn[s][p].st = "reading"
  /\ Routable(p) /\ Route(p) = s
  /\ client[p].st = "fin"
  /\ SetSt(s, p, IF conn[s][p].imported THEN "closing_imported" ELSE "closing")
  /\ UNCHANGED <<swVars, chan, client>>

\* A mutant of after_real_close_imported that does not DELETE the entry.
AfterRealCloseImportedNoDelete(s, p) ==
  /\ conn[s][p].st = "monitor_imported"
  /\ MonitorFired(s, p)
  /\ SetConn(s, p, NoConn)
  /\ UNCHANGED <<swVars, chan, client>>

\* after_close_imported of close2: wait on the monitor with
\* after_real_close_imported.
AfterCloseImported(s, p) ==
  /\ conn[s][p].st = "closing_imported"
  /\ SetSt(s, p, "monitor_imported")
  /\ UNCHANGED <<swVars, chan, client>>

\* after_close of close2: close the monitor and free the socket object
\* without waiting and without touching the switch.
AfterCloseLocal(s, p) ==
  /\ conn[s][p].st = "closing"
  /\ SetSt(s, p, "none")
  /\ UNCHANGED <<swVars, chan, client>>

\* after_real_close_imported: DELETE the flow entry (no callback), close
\* the monitor and free the socket object.
AfterRealCloseImported(s, p) ==
  /\ conn[s][p].st = "monitor_imported"
  /\ MonitorFired(s, p)
  /\ QueueTask("DELETE", p, s, FALSE, "none", s)
  /\ SetConn(s, p, NoConn)
  /\ UNCHANGED <<chan, client>>

(***************************************************************************)
(* The importing side (phttp_handoff_server.cpp on_read, then             *)
(* phttp_on_handoff).                                                      *)
(***************************************************************************)

\* start_change_owner: CHOWN the flow to t with unlock set.
StartChangeOwner(t, p) == QueueTask("CHOWN", p, t, TRUE, "after_change_owner", t)

\* forward_proto_states: the record goes on, unchanged but for the hop
\* count the next handler sees, on the connection from t to u.
ForwardProtoStates(s, t, u) ==
  LET rec == Head(chan[<<s, t>>])
  IN /\ rec.hops < MaxHops
     /\ chan' = [chan EXCEPT ![<<s, t>>] = Tail(@),
                   ![<<t, u>>] = Append(@, [rec EXCEPT !.hops = @ + 1])]

\* phttp_on_handoff for the first record on the link from s to t: the
\* handler runs on the imported request; status <= 500 imports the
\* connection (continue_import) and queues CHOWN to t with unlock set,
\* status 600 forwards the record unchanged to the next hop.
OnHandoff(s, t) ==
  LET rec == Head(chan[<<s, t>>])
      p   == rec.peer
  IN /\ chan[<<s, t>>] # <<>>
     /\ \/ /\ conn[t][p].st = "none"
           /\ SetConn(t, p, [NoConn EXCEPT !.st = "importing",
                             !.imported = TRUE, !.ksock = TRUE,
                             !.target = t, !.hops = rec.hops])
           /\ StartChangeOwner(t, p)
           /\ chan' = [chan EXCEPT ![<<s, t>>] = Tail(@)]
        \/ \E u \in Servers \ {t} :
             /\ ForwardProtoStates(s, t, u)
             /\ UNCHANGED <<swVars, conn>>
     /\ UNCHANGED client

\* A mutant of after_change_owner that restarts reading without sending
\* the response of the imported request.
AfterChangeOwnerNoResponse(r) ==
  LET t == swreq[r].from
      p == swreq[r].peer
  IN /\ swreq[r].cb = "after_change_owner"
     /\ ClientRecv(r)
     /\ conn[t][p].st = "importing"
     /\ SetSt(t, p, "reading")
     /\ UNCHANGED <<chan, client>>

\* after_change_owner: read_start and send the response.
AfterChangeOwner(r) ==
  LET t == swreq[r].from
      p == swreq[r].peer
  IN /\ swreq[r].cb = "after_change_owner"
     /\ ClientRecv(r)
     /\ conn[t][p].st = "importing"
     /\ SetSt(t, p, "writing")
     /\ UNCHANGED <<chan, client>>

\* on_recv for a request queued without a callback (DELETE).
OnRecvNoCallback(r) ==
  /\ swreq[r].cb = "none"
  /\ ClientRecv(r)
  /\ UNCHANGED <<conn, chan, client>>

(***************************************************************************)
(* Specification.                                                          *)
(***************************************************************************)

ServerStep(s, p) ==
  \/ OnRead(s, p) \/ AfterSendHttpRes(s, p) \/ AfterClose(s, p)
  \/ KernelDestroy(s, p) \/ AfterRealClose(s, p) \/ HandoffDone(s, p)
  \/ OnReadEOF(s, p) \/ AfterCloseImported(s, p) \/ AfterCloseLocal(s, p)
  \/ AfterRealCloseImported(s, p)

SwitchReply(r) ==
  AfterConfigureSwitch(r) \/ AfterChangeOwner(r) \/ OnRecvNoCallback(r)

\* Every connection closed, its flow entry removed and nothing in flight.
Finished ==
  /\ \A p \in Peers : client[p].st = "fin"
  /\ \A s \in Servers, p \in Peers : conn[s][p].st = "none" /\ ~conn[s][p].ksock
  /\ \A r \in DOMAIN swreq : swreq[r].st = "done"
  /\ net = EmptyBag
  /\ UNCHANGED vars

Next ==
  \/ \E p \in Peers : Connect(p) \/ ClientSend(p) \/ ClientClose(p)
  \/ \E s \in Servers, p \in Peers : ServerStep(s, p)
  \/ \E l \in Links : OnHandoff(l[1], l[2])
  \/ \E r \in DOMAIN swreq : SwitchReply(r)
  \/ ChannelNext /\ UNCHANGED <<conn, chan, client>>
  \/ Finished

(* Each server's event loop runs every ready callback, and the switch     *)
(* processes every datagram it receives: weak fairness on each.  The     *)
(* client is not required to do anything.                                 *)
Fairness ==
  /\ \A s \in Servers, p \in Peers : WF_vars(ServerStep(s, p))
  /\ \A l \in Links : WF_vars(OnHandoff(l[1], l[2]))
  /\ WF_vars(\E r \in DOMAIN swreq : SwitchReply(r))
  /\ WF_vars(\E d \in BagToSet(net) : SwitchReceive(d)
               /\ UNCHANGED <<conn, chan, client>>)

Spec == Init /\ [][Next]_vars /\ Fairness

(***************************************************************************)
(* Properties.                                                             *)
(***************************************************************************)

(* Handoff must never let the client see a reset.  Whenever the switch    *)
(* lets the client's segments through (the flow has no entry, or its     *)
(* entry is unlocked), the server they are steered to holds a live       *)
(* socket for the connection, never one in repair mode or already gone.   *)
(* This is what the lock taken by the ADD/LOCK of phttp_start_handoff and *)
(* released by the CHOWN of start_change_owner is for.                    *)
RoutingSafe ==
  \A p \in Peers :
    client[p].st = "open" /\ Routable(p) => conn[Route(p)][p].st \in LiveStates

(* A server that has resumed serving a connection (after_send_http_res,   *)
(* after_change_owner) can be reached by the client: the flow is          *)
(* unlocked and steered to it.  Otherwise its response and the client's   *)
(* next request are dropped by the switch forever.                        *)
ServingReachable ==
  \A s \in Servers, p \in Peers :
    client[p].st = "open" /\ conn[s][p].st \in {"reading", "writing"}
      => Routable(p) /\ Route(p) = s

(* tcp_import binds the recorded 4-tuple; it can only succeed when no     *)
(* kernel socket with the same local address still holds the connection. *)
(* The exporter sends the record only after uv_tcp_monitor reports that   *)
(* its socket is destroyed, so at most one socket per local address ever  *)
(* holds a peer's connection.                                              *)
SingleSocketPerAddr ==
  \A p \in Peers, a \in {Addr[s] : s \in Servers} :
    Cardinality({s \in Servers : Addr[s] = a /\ conn[s][p].ksock}) <= 1

(* Once a connection is closed everywhere and no switch request is       *)
(* pending, its flow has no entry left in the switch: the DELETE queued   *)
(* by after_real_close_imported removed it, or it never had one.  A       *)
(* leaked entry would steer a later connection on the same port pair to  *)
(* a server that does not know it, or drop it while locked.               *)
NoLeakedEntry ==
  \A p \in Peers :
    (/\ client[p].st = "fin"
     /\ \A s \in Servers : conn[s][p].st = "none"
     /\ \A r \in DOMAIN swreq : swreq[r].st = "done")
    => flow[p] = NoEntry

(* The switch's data plane, applied to the table the control plane has   *)
(* built, keeps every segment of an open connection deliverable and the  *)
(* server's identity hidden: a segment from the client (any address and  *)
(* port, any other header words) that prism_in_lookup does not drop      *)
(* reaches the server Route(p) with both checksums still verifying, and  *)
(* a segment of that server to the client that prism_out_lookup does not *)
(* drop arrives from the virtual address and port, checksums verifying.  *)
(* It rests on csum16_add's end-around carry and on the order of the      *)
(* incremental updates in both lookups.  IntactEntries, the entries for  *)
(* which this holds, is a constant that TLC evaluates once.               *)
IntactEntries ==
  {e \in FlowEntry \cup {NoEntry} :
     \A a, b, i, t \in HeaderWords :
       LET srv == Addr[IF e = NoEntry THEN Frontend ELSE e.owner]
           in  == DP!prism_in_lookup(
                    DP!Segment(<<a, b>>, a, VirtualIp, VirtualPort, i, t), EntryValue(e))
           out == DP!prism_out_lookup(
                    DP!Segment(IpOf[srv], PortOf[srv], <<a, b>>, a, i, t), EntryValue(e))
       IN  /\ in.verdict # "abort" =>
                /\ DP!Intact(in.seg)
                /\ <<in.seg.dst, in.seg.dport>> = <<IpOf[srv], PortOf[srv]>>
           /\ out.verdict # "abort" =>
                /\ DP!Intact(out.seg)
                /\ <<out.seg.src, out.seg.sport>> = <<VirtualIp, VirtualPort>>}

SegmentsIntact ==
  \A p \in Peers : client[p].st = "open" => flow[p] \in IntactEntries

(* Every request the client sends is eventually answered, whether it is   *)
(* served where it arrived or handed off, forwarded and imported.         *)
RequestAnswered ==
  \A p \in Peers : client[p].req = "sent" ~> client[p].req = "none"

(* Handoff implements the abstract FlowOwnership: mapping each           *)
(* connection to the servers whose socket for it is live (out of repair  *)
(* and open), every step of the v2 protocol is a step of FlowOwnership or *)
(* leaves the mapped state alone, and its fairness holds.  Thus no two    *)
(* servers ever hold the connection at once, export_all lets it go only   *)
(* with the handler's request pending, continue_import takes it up only  *)
(* after that, only a holder answers, and once phttp_start_close has run  *)
(* after the client's FIN nobody takes the connection up again.           *)
FO == INSTANCE FlowOwnership WITH
        holders <- [p \in Peers |-> {s \in Servers : conn[s][p].st \in LiveStates}],
        cstate <- [p \in Peers |-> client[p].st],
        req <- [p \in Peers |-> IF client[p].req = "none" THEN "none" ELSE "pending"]

FlowOwnershipSpec == FO!Spec

(* The safety half of the refinement, which must hold however the switch  *)
(* channel behaves: with datagrams lost, retransmitted by retry_send and  *)
(* delivered late, every step still maps to a FlowOwnership step, so a    *)
(* stale or duplicate reply never makes a second server hold the          *)
(* connection or lets one answer it without holding it.                   *)
FlowOwnershipSafe == FO!Init /\ [][FO!Next]_FO!vars

(* Every connection the client has closed is eventually released on      *)
(* every server: phttp_start_close, the uv_close callbacks and, for an    *)
(* imported connection, the wait for uv_tcp_monitor all complete.         *)
ConnectionReleased ==
  \A p \in Peers :
    client[p].st = "fin" ~> \A s \in Servers : conn[s][p].st = "none"

=============================================================================
