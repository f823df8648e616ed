--------------------------- MODULE SwitchChannel ---------------------------
(***************************************************************************)
(* The flow-redirection control channel: the client side of               *)
(* prism_switch_client.cpp (one UDP socket and one retry timer per        *)
(* request) and the control plane of the switch, prism_switch.bpf.c       *)
(* (configure_switch and its five handlers on the flow table).            *)
(*                                                                         *)
(* Datagrams travel over a network that may delay them arbitrarily and,    *)
(* when LossyNetwork is TRUE, lose them.  Datagrams in flight are a bag,  *)
(* so that a retried request and its original are two copies the switch  *)
(* may both process.                                                       *)
(*                                                                         *)
(* The callback a request names is not run here: a module that composes   *)
(* this one conjoins the callback's effect with ClientRecv.               *)
(***************************************************************************)
EXTENDS Integers, Sequences, FiniteSets, Bags, BagsExt

CONSTANTS
  Peers,          \* client endpoints (peer_addr, peer_port) keying the flow table
  Servers,        \* owners a flow entry can name
  NoEntry,        \* model value: no flow-table entry for a peer
  MaxRetries,     \* bound on retry_send firings per request
  LossyNetwork,   \* TRUE: the network may drop datagrams
  TimelyNetwork,  \* TRUE: the 100 ms retry timer never fires while a datagram
                  \*       of its request is still in flight
  HeaderWords     \* 16-bit words that addresses, ports and the untouched rest
                  \*       of a header are drawn from

VARIABLES
  flow,     \* the switch's "prism" hash table: peer -> entry or NoEntry
  swreq,    \* psw_config_req objects, by request id
  net,      \* bag of datagrams in flight
  nextRid   \* id the next prism_switch_client_queue_task will use

swVars == <<flow, swreq, net, nextRid>>

\* enum psw_requests (prism_switch_client.h)
ReqTypes == {"ADD", "DELETE", "CHOWN", "LOCK", "UNLOCK"}

DP == INSTANCE SwitchDataPlane

\* Error codes returned by the switch handlers (as negative errno).
EEXIST == 17
ENOENT == 2

\* prism_value_t, with the virtual address and owner MAC folded into owner.
FlowEntry == [owner : Servers, locked : BOOLEAN]

\* A psw_config_req: the request datagram it retransmits (type, peer and
\* the ADD/CHOWN arguments: owner and the lock/unlock flag), the user
\* callback, who queued it, its life cycle and its retry_count.
SwReq == [type : ReqTypes, peer : Peers, owner : Servers, flag : BOOLEAN,
          cb : STRING, from : Servers,
          st : {"pending", "done"}, retries : 0..MaxRetries]

Datagram == [rid : Nat, dir : {"req", "resp"}]

SwitchTypeOK ==
  /\ flow \in [Peers -> FlowEntry \cup {NoEntry}]
  /\ \A r \in DOMAIN swreq : swreq[r] \in SwReq
  /\ DOMAIN swreq = 1..(nextRid - 1)
  /\ \A d \in DOMAIN net : d \in Datagram /\ d.rid \in DOMAIN swreq

SwitchInit ==
  /\ flow = [p \in Peers |-> NoEntry]
  /\ swreq = <<>>
  /\ net = EmptyBag
  /\ nextRid = 1

(***************************************************************************)
(* The switch's handlers.  Each returns the new table and the error code  *)
(* configure_switch passes to config_prepare_response.                    *)
(***************************************************************************)

\* A mutant of config_handle_add_req that inserts the entry unlocked.
AddEntryUnlocked(f, r) ==
  IF f[r.peer] # NoEntry
  THEN [tbl |-> f, err |-> -EEXIST]
  ELSE [tbl |-> [f EXCEPT ![r.peer] = [owner |-> r.owner, locked |-> FALSE]],
        err |-> 0]

\* config_handle_add_req: refuses an existing key, else inserts the entry
\* with locked = par->lock.
AddEntry(f, r) ==
  IF f[r.peer] # NoEntry
  THEN [tbl |-> f, err |-> -EEXIST]
  ELSE [tbl |-> [f EXCEPT ![r.peer] = [owner |-> r.owner, locked |-> r.flag]],
        err |-> 0]

\* config_handle_delete_req: prism.delete fails with -ENOENT on a missing key.
DeleteEntry(f, r) ==
  IF f[r.peer] = NoEntry
  THEN [tbl |-> f, err |-> -ENOENT]
  ELSE [tbl |-> [f EXCEPT ![r.peer] = NoEntry], err |-> 0]

\* A mutant of config_handle_chown_req that ignores the unlock flag.
ChownEntryKeepLock(f, r) ==
  IF f[r.peer] = NoEntry
  THEN [tbl |-> f, err |-> -ENOENT]
  ELSE [tbl |-> [f EXCEPT ![r.peer].owner = r.owner], err |-> 0]

\* config_handle_chown_req: sets the owner and, when unlock is set, flips
\* the lock bit (new_val.locked = locked == 1 ? 0 : 1).
ChownEntry(f, r) ==
  IF f[r.peer] = NoEntry
  THEN [tbl |-> f, err |-> -ENOENT]
  ELSE [tbl |-> [f EXCEPT ![r.peer] =
                   [owner |-> r.owner,
                    locked |-> IF r.flag THEN ~f[r.peer].locked
                                         ELSE f[r.peer].locked]],
        err |-> 0]

\* config_handle_lock_req and config_handle_unlock_req: both flip the bit.
ToggleEntry(f, r) ==
  IF f[r.peer] = NoEntry
  THEN [tbl |-> f, err |-> -ENOENT]
  ELSE [tbl |-> [f EXCEPT ![r.peer].locked = ~@], err |-> 0]

\* configure_switch: dispatch on prb->type.
ConfigureSwitch(f, r) ==
  CASE r.type = "ADD"    -> AddEntry(f, r)
    [] r.type = "DELETE" -> DeleteEntry(f, r)
    [] r.type = "CHOWN"  -> ChownEntry(f, r)
    [] r.type \in {"LOCK", "UNLOCK"} -> ToggleEntry(f, r)

\* The control datagrams a client host can send: its address and port,
\* the switch's, and the rest of the header and payload built from
\* HeaderWords; psw_*_req.status is 0 in every request queue_task sends.
CtrlRequests ==
  {DP!UdpDatagram(<<a, b>>, a, <<b, a>>, b, r, 0) : a, b, r \in HeaderWords}

\* The status codes configure_switch's handlers return.
HandlerErrors == {0, -EEXIST, -ENOENT}

(* The handler results whose reply survives the client kernel's UDP      *)
(* checksum check, for every request the client can send.                 *)
(* config_prepare_response swaps the addresses and adjusts the checksum  *)
(* for a status change it never writes into the packet, so the answer is *)
(* computed, not assumed: it holds exactly for 0, and a reply to a failed *)
(* request is discarded by the client's kernel.  (A constant, evaluated   *)
(* once.)                                                                  *)
ReceivableErrors ==
  {err \in HandlerErrors :
     \A d \in CtrlRequests :
       LET res == DP!config_prepare_response(d, err)
       IN  res.verdict = "reply" /\ DP!UdpIntact(res.seg)}

ReplyReceivable(err) == err \in ReceivableErrors

(***************************************************************************)
(* Client side.                                                            *)
(***************************************************************************)

\* prism_switch_client_queue_task: a new socket, the retry timer armed,
\* and the first datagram sent.
QueueTask(type, peer, owner, flag, cb, from) ==
  /\ swreq' = Append(swreq, [type |-> type, peer |-> peer, owner |-> owner,
                             flag |-> flag, cb |-> cb, from |-> from,
                             st |-> "pending", retries |-> 0])
  /\ net' = BagAdd(net, [rid |-> nextRid, dir |-> "req"])
  /\ nextRid' = nextRid + 1
  /\ flow' = flow

InFlight(r) == \E d \in BagToSet(net) : d.rid = r

\* retry_send: the periodic timer resends the same datagram.
RetrySend(r) ==
  /\ swreq[r].st = "pending"
  /\ swreq[r].retries < MaxRetries
  /\ TimelyNetwork => ~InFlight(r)
  /\ net' = BagAdd(net, [rid |-> r, dir |-> "req"])
  /\ swreq' = [swreq EXCEPT ![r].retries = @ + 1]
  /\ UNCHANGED <<flow, nextRid>>

\* vale_lookup on a UDP packet to the control address: configure_switch,
\* then the reply is sent back through the ingress port.
SwitchReceive(d) ==
  LET res == ConfigureSwitch(flow, swreq[d.rid])
  IN /\ d.dir = "req"
     /\ BagIn(d, net)
     /\ flow' = res.tbl
     /\ net' = IF ReplyReceivable(res.err)
               THEN BagAdd(BagRemove(net, d), [rid |-> d.rid, dir |-> "resp"])
               ELSE BagRemove(net, d)
     /\ UNCHANGED <<swreq, nextRid>>

\* on_recv: the first reply stops the timer and closes the socket; the
\* caller conjoins the user callback.
ClientRecv(r) ==
  LET d == [rid |-> r, dir |-> "resp"]
  IN /\ swreq[r].st = "pending"
     /\ BagIn(d, net)
     /\ net' = BagRemove(net, d)
     /\ swreq' = [swreq EXCEPT ![r].st = "done"]
     /\ nextRid' = nextRid
     /\ flow' = flow

\* A later reply reaches a socket that on_recv already closed.
DiscardStale(r) ==
  LET d == [rid |-> r, dir |-> "resp"]
  IN /\ swreq[r].st = "done"
     /\ BagIn(d, net)
     /\ net' = BagRemove(net, d)
     /\ UNCHANGED <<flow, swreq, nextRid>>

\* The network drops a datagram.
Lose(d) ==
  /\ LossyNetwork
  /\ BagIn(d, net)
  /\ net' = BagRemove(net, d)
  /\ UNCHANGED <<flow, swreq, nextRid>>

\* Steps of the channel that run without the application.
ChannelNext ==
  \/ \E r \in DOMAIN swreq : RetrySend(r) \/ DiscardStale(r)
  \/ \E d \in BagToSet(net) : SwitchReceive(d) \/ Lose(d)

(* A request that is still pending can complete: one of its datagrams is  *)
(* in flight, or a retransmission would be accepted by the switch and     *)
(* answered.  retry_send resends forever, so a pending request for which  *)
(* neither holds keeps its socket and its 100 ms timer for good and its   *)
(* callback never runs.                                                    *)
RequestCompletable ==
  \A r \in DOMAIN swreq :
    swreq[r].st = "pending"
      => InFlight(r) \/ ReplyReceivable(ConfigureSwitch(flow, swreq[r]).err)

=============================================================================
