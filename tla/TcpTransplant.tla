--------------------------- MODULE TcpTransplant ---------------------------
(***************************************************************************)
(* Moving one established TCP connection between sockets with repair     *)
(* mode (tcp_export.cpp), as export_all and continue_import drive it      *)
(* (phttp_hoproto_export2.cpp, phttp_hoproto_import2.cpp).                *)
(*                                                                         *)
(* Sequence numbers are byte offsets from the initial sequence numbers of *)
(* the two directions; no arithmetic in tcp_export.cpp depends on their   *)
(* width.  The network between the client and the current owner delivers  *)
(* bytes in order: TCP retransmits what is lost, so a loss is a delay.    *)
(* While the connection is handed off the switch holds its flow locked    *)
(* and nothing is delivered in either direction.                           *)
(***************************************************************************)
EXTENDS Naturals

CONSTANTS
  MaxBytes,         \* bytes each direction carries in a run
  MaxHandoffs,      \* exports of the connection in a run
  QuiescentExport,  \* TRUE: export only with no queued bytes in either queue
  NDEBUG,           \* TRUE: built with assertions compiled out
  UseTLS,           \* TRUE: the connection carries kernel TLS
  NoRecord,         \* model value: nothing exported yet
  TsMod,            \* size of the TCP timestamp ring (2^32 on the wire)
  MaxTicks,         \* timestamp clock ticks in a run
  SndWscale,        \* window scales negotiated in the handshake: the
  RcvWscale         \* client's (applied to its windows) and the server's

ASSUME MaxBytes \in Nat /\ MaxHandoffs \in Nat
ASSUME {QuiescentExport, NDEBUG, UseTLS} \subseteq BOOLEAN
ASSUME TsMod \in Nat \ {0} /\ MaxTicks \in Nat
ASSUME {SndWscale, RcvWscale} \subseteq 0..14

VARIABLES
  sock,    \* the server socket that currently holds the connection
  peer,    \* the client's end: bytes sent, acknowledged to it, received
  rec,     \* the prism::TCPState of the last export
  phase,   \* where the connection is in serving / export / import
  hops,    \* exports so far
  now,     \* the timestamp clock (tcp_time_stamp_raw), in ticks
  stamps   \* stamps[k]: the TSval of the segment carrying server byte k

vars == <<sock, peer, rec, phase, hops, now, stamps>>

Seqs == 0..(2 * MaxBytes)

TsVals == 0..(TsMod - 1)

\* before(a, b) of the kernel, (s32)(a - b) < 0, on the ring of TsMod.
Before(a, b) == (a - b) % TsMod >= TsMod \div 2

\* The kernel state tcp_export reads: snd_una, snd_nxt, write_seq,
\* rcv_nxt and copied_seq, the repair flag, kernel TLS, tsoffset and the
\* window scales <<snd_wscale, rcv_wscale>>.
Sock == [una : Seqs, nxt : Seqs, wseq : Seqs, rnxt : Seqs, copied : Seqs,
         repair : BOOLEAN, ktls : BOOLEAN, tsoff : TsVals, ws : (0..14) \X (0..14)]

\* The TSval a socket puts in the segments it sends now.
TsVal(s) == (now + s.tsoff) % TsMod

\* prism::TCPState, with the byte contents of the queues abstracted to
\* their lengths (the contents are copied verbatim by tcp_get_queue and
\* replayed verbatim by tcp_set_queue).
TCPState == [seq : Seqs, ack : Seqs, sendq_len : Seqs, unsentq_len : Seqs,
             recvq_len : Seqs, timestamp : TsVals, send_wscale : 0..14,
             recv_wscale : 0..14]

TypeOK ==
  /\ sock \in Sock
  /\ peer \in [snd : 0..MaxBytes, una : Seqs, rcv : Seqs, tsRecent : TsVals]
  /\ rec \in TCPState \cup {NoRecord}
  /\ phase \in {"serving", "exported", "closed", "export_failed",
                "import_failed", "aborted"}
  /\ hops \in 0..MaxHandoffs
  /\ now \in 0..MaxTicks
  /\ stamps \in [1..(2 * MaxBytes) -> TsVals]

\* The connection as the handshake left it: the client's ts_recent is the
\* TSval of the SYN-ACK (the offset is taken as 0: only differences of
\* timestamps matter).
Init ==
  /\ sock = [una |-> 0, nxt |-> 0, wseq |-> 0, rnxt |-> 0, copied |-> 0,
             repair |-> FALSE, ktls |-> UseTLS, tsoff |-> 0,
             ws |-> <<SndWscale, RcvWscale>>]
  /\ peer = [snd |-> 0, una |-> 0, rcv |-> 0, tsRecent |-> 0]
  /\ rec = NoRecord
  /\ phase = "serving"
  /\ hops = 0
  /\ now = 0
  /\ stamps = [k \in 1..(2 * MaxBytes) |-> 0]

(***************************************************************************)
(* The connection in service: the application and the two TCP stacks.    *)
(***************************************************************************)

\* A mutant that writes past the run's bound.
AppWriteUnbounded ==
  /\ phase = "serving"
  /\ sock' = [sock EXCEPT !.wseq = @ + 1]
  /\ UNCHANGED <<peer, rec, phase, hops, now, stamps>>

\* phttp_send_http_res: uv_write queues response bytes in the socket.
AppWrite ==
  /\ phase = "serving"
  /\ sock.wseq < MaxBytes
  /\ sock' = [sock EXCEPT !.wseq = @ + 1]
  /\ UNCHANGED <<peer, rec, phase, hops, now, stamps>>

\* The kernel sends the next queued byte; a socket in repair mode queues
\* what is written but sends nothing.
Transmit ==
  /\ phase = "serving"
  /\ ~sock.repair
  /\ sock.nxt < sock.wseq
  /\ sock' = [sock EXCEPT !.nxt = @ + 1]
  /\ stamps' = [stamps EXCEPT ![sock.nxt + 1] = TsVal(sock)]
  /\ UNCHANGED <<peer, rec, phase, hops, now>>

\* The client receives the next byte the socket has sent.  Its PAWS test
\* (RFC 7323, 5.3) drops a segment whose TSval is before ts_recent;
\* an accepted one becomes ts_recent.
PeerReceive ==
  LET k == peer.rcv + 1
  IN /\ phase = "serving"
     /\ peer.rcv < sock.nxt
     /\ ~Before(stamps[k], peer.tsRecent)
     /\ peer' = [peer EXCEPT !.rcv = k, !.tsRecent = stamps[k]]
     /\ UNCHANGED <<sock, rec, phase, hops, now, stamps>>

\* The timestamp clock advances, on whichever host holds the connection.
Tick ==
  /\ now < MaxTicks
  /\ now' = now + 1
  /\ UNCHANGED <<sock, peer, rec, phase, hops, stamps>>

\* The client's cumulative ACK reaches the socket.
PeerAck ==
  /\ phase = "serving"
  /\ sock.una < peer.rcv
  /\ sock' = [sock EXCEPT !.una = peer.rcv]
  /\ UNCHANGED <<peer, rec, phase, hops, now, stamps>>

\* The client sends one more byte (a request, or a pipelined one).
PeerSend ==
  /\ peer.snd < MaxBytes
  /\ peer' = [peer EXCEPT !.snd = @ + 1]
  /\ UNCHANGED <<sock, rec, phase, hops, now, stamps>>

\* The socket receives the next byte from the client and ACKs it; a
\* socket in repair mode drops what arrives.
SockReceive ==
  /\ phase = "serving"
  /\ ~sock.repair
  /\ sock.rnxt < peer.snd
  /\ sock' = [sock EXCEPT !.rnxt = @ + 1]
  /\ peer' = [peer EXCEPT !.una = sock.rnxt + 1]
  /\ UNCHANGED <<rec, phase, hops, now, stamps>>

\* phttp_on_read: the application reads everything readable.
AppRead ==
  /\ phase = "serving"
  /\ sock.copied < sock.rnxt
  /\ sock' = [sock EXCEPT !.copied = sock.rnxt]
  /\ UNCHANGED <<peer, rec, phase, hops, now, stamps>>

(***************************************************************************)
(* Export and import.                                                      *)
(***************************************************************************)

\* tcp_get_queue_len: SIOCOUTQ, SIOCOUTQNSD and SIOCINQ.
TcpGetQueueLen(s) ==
  [sendq |-> s.wseq - s.una, unsentq |-> s.wseq - s.nxt, recvq |-> s.rnxt - s.copied]

\* tcp_get_options: the window scales from tcp_info (tcpi_snd_wscale,
\* tcpi_rcv_wscale) and TCP_TIMESTAMP, which reads the clock plus the
\* socket's tsoffset.  (TCP_MAXSEG is recorded too; no property is about
\* the MSS.)
TcpGetOptions(s) ==
  [timestamp |-> TsVal(s), send_wscale |-> s.ws[1], recv_wscale |-> s.ws[2]]

\* What tcp_export records: TCP_QUEUE_SEQ of the send queue is write_seq,
\* of the receive queue rcv_nxt (tcp_get_queue), with the queue lengths
\* and the options.
Capture(s) ==
  LET q == TcpGetQueueLen(s)
      o == TcpGetOptions(s)
  IN [seq |-> s.wseq, ack |-> s.rnxt, sendq_len |-> q.sendq,
      unsentq_len |-> q.unsentq, recvq_len |-> q.recvq,
      timestamp |-> o.timestamp, send_wscale |-> o.send_wscale,
      recv_wscale |-> o.recv_wscale]

Quiescent(s) == s.una = s.wseq /\ s.copied = s.rnxt

\* export_tcp: a successful tcp_export leaves the socket in repair mode.
ExportTcp(s) == [s EXCEPT !.repair = TRUE]

\* export_tls: tls_unmake_ktls takes kernel TLS off the socket.
ExportTls(s) == [s EXCEPT !.ktls = FALSE]

\* after_configure_switch runs export_all: export_tcp, then export_tls on
\* the same socket, then export_http.
ExportAll ==
  /\ phase = "serving"
  /\ hops < MaxHandoffs
  /\ QuiescentExport => Quiescent(sock)
  /\ rec' = Capture(sock)
  /\ sock' = ExportTls(ExportTcp(sock))
  /\ phase' = "exported"
  /\ UNCHANGED <<peer, hops, now, stamps>>

\* The calls tcp_export makes in turn (its TRY lines); the first one's
\* failure returns through err0, any later one's through err1 (err2 frees
\* the send queue copy and falls into err1).
ExportSteps == {"repair_start", "is_established", "get_queue_len",
                "get_options", "get_window", "get_addr", "get_queue_send",
                "get_queue_recv"}

\* A mutant of tcp_export whose error path skips tcp_repair_done (a goto
\* to the wrong label).
ExportFailsInRepair(at) ==
  /\ phase = "serving"
  /\ hops < MaxHandoffs
  /\ sock' = [sock EXCEPT !.repair = at # "repair_start"]
  /\ phase' = "export_failed"
  /\ UNCHANGED <<peer, rec, hops, now, stamps>>

\* tcp_export fails at step at.  If tcp_repair_start itself failed, the
\* socket never entered repair mode (err0).  Otherwise err1 is
\* assert(tcp_repair_done(sock) == 0): without NDEBUG repair mode is left
\* and export_all's assert(error == 0) then aborts the process; with
\* NDEBUG the call is compiled out with the assertion.
ExportFails(at) ==
  /\ phase = "serving"
  /\ hops < MaxHandoffs
  /\ sock' = [sock EXCEPT !.repair = at # "repair_start" /\ NDEBUG]
  /\ phase' = "export_failed"
  /\ UNCHANGED <<peer, rec, hops, now, stamps>>

\* The process dies on the failed assertion; its sockets close.
Abort ==
  /\ phase \in {"export_failed", "import_failed"}
  /\ ~NDEBUG
  /\ phase' = "aborted"
  /\ UNCHANGED <<sock, peer, rec, hops, now, stamps>>

\* uv_close of the exported socket: closed in repair mode, silently.
CloseExported ==
  /\ phase = "exported"
  /\ phase' = "closed"
  /\ UNCHANGED <<sock, peer, rec, hops, now, stamps>>

\* The socket import_tcp creates.  The connect of a socket in repair mode
\* leaves tsoffset 0, so its TSval is the importing host's own clock, off
\* from the exporter's by an amount nothing bounds: off is any value.  Its
\* window scales are not negotiated (0).
FreshSock(off) ==
  [una |-> 0, nxt |-> 0, wseq |-> 0, rnxt |-> 0, copied |-> 0,
   repair |-> FALSE, ktls |-> FALSE, tsoff |-> off, ws |-> <<0, 0>>]

\* tcp_set_seq for the send and the receive queue on a socket in repair
\* mode: TCP_QUEUE_SEQ sets write_seq to seq and rcv_nxt to ack; the
\* connect of the repaired socket sets snd_una = snd_nxt = write_seq.
TcpSetSeq(s, r) ==
  [s EXCEPT !.una = r.seq, !.nxt = r.seq, !.wseq = r.seq, !.rnxt = r.ack,
            !.copied = r.ack, !.repair = TRUE]

\* tcp_set_queue for the send queue then the receive queue: the sent part
\* of the send queue in repair mode (write_seq and snd_nxt advance), the
\* unsent part outside it (write_seq only), the receive queue (rcv_nxt).
TcpSetQueue(s, r) ==
  LET sent == r.sendq_len - r.unsentq_len
  IN [s EXCEPT !.nxt = @ + sent, !.wseq = @ + r.sendq_len,
               !.rnxt = @ + r.recvq_len]

\* A mutant of tcp_set_options that sets the repair options but does not
\* restore the timestamp clock (no setsockopt TCP_TIMESTAMP).
TcpSetOptionsNoTimestamp(s, r) ==
  [s EXCEPT !.ws = <<r.send_wscale, r.recv_wscale>>]

\* tcp_set_options: TCP_REPAIR_OPTIONS with SACK_PERM, TIMESTAMP, MSS and
\* WINDOW = send_wscale + (recv_wscale << 16), which the kernel applies as
\* snd_wscale (low half) and rcv_wscale (high half); then TCP_TIMESTAMP
\* with the recorded value sets tsoffset = timestamp - clock, so that the
\* TSvals go on from the exporter's.
TcpSetOptions(s, r) ==
  [s EXCEPT !.ws = <<r.send_wscale, r.recv_wscale>>,
            !.tsoff = (r.timestamp - now) % TsMod]

\* A mutant of tcp_import that restores the two sequence numbers into
\* each other's queue (TCP_SEND_QUEUE and TCP_RECV_QUEUE swapped).
TcpImportSwapped(s, r) ==
  [TcpSetOptions(TcpSetQueue(TcpSetSeq(s, [r EXCEPT !.seq = r.ack, !.ack = r.seq]), r), r)
     EXCEPT !.repair = FALSE]

\* A mutant of tcp_import without its final tcp_repair_done.
TcpImportInRepair(s, r) == TcpSetOptions(TcpSetQueue(TcpSetSeq(s, r), r), r)

\* tcp_import: tcp_set_seq, tcp_set_queue, tcp_set_options (tcp_set_addr
\* and tcp_set_window set nothing modelled), then tcp_repair_done.
TcpImport(s, r) ==
  [TcpSetOptions(TcpSetQueue(TcpSetSeq(s, r), r), r) EXCEPT !.repair = FALSE]

\* phttp_on_handoff imports the connection at the target: continue_import
\* runs tcp_import, then import_tls puts kernel TLS back.
Import ==
  /\ phase = "closed"
  /\ \E off \in TsVals : sock' = [TcpImport(FreshSock(off), rec) EXCEPT !.ktls = UseTLS]
  /\ phase' = "serving"
  /\ hops' = hops + 1
  /\ UNCHANGED <<peer, rec, now, stamps>>

\* The calls tcp_import makes in turn, with tcp_set_queue of the send
\* queue split at its two sends: the sent part in repair mode, the unsent
\* part between tcp_repair_done and tcp_repair_start.
ImportSteps == {"repair_start", "set_seq_send", "set_seq_recv", "set_addr",
                "set_queue_sent", "set_queue_unsent", "set_queue_recv",
                "set_options", "set_window", "repair_done"}

\* The fresh socket of import_tcp after the steps of tcp_import before the
\* one that failed at step at.  The sequence numbers of a socket whose
\* tcp_set_seq or tcp_set_addr did not complete are not the record's; they
\* are left at zero.
ImportPartial(fresh, r, at) ==
  LET seq   == TcpSetSeq(fresh, r)
      sent  == r.sendq_len - r.unsentq_len
  IN CASE at = "repair_start" -> fresh
       [] at \in {"set_seq_send", "set_seq_recv", "set_addr"} ->
            [fresh EXCEPT !.repair = TRUE]
       [] at = "set_queue_sent" -> seq
       [] at = "set_queue_unsent" ->
            [seq EXCEPT !.nxt = @ + sent, !.wseq = @ + sent, !.repair = FALSE]
       [] at \in {"set_queue_recv", "set_options"} -> TcpSetQueue(seq, r)
       [] OTHER -> TcpSetOptions(TcpSetQueue(seq, r), r)

\* continue_import with tcp_import failing at step at.  err1 is
\* assert(tcp_repair_done(sock) == 0) as in tcp_export; import_tcp then
\* asserts error == 0.  Without NDEBUG the process aborts; with NDEBUG
\* import_tcp goes on to uv_tcp_open and the socket is served as it is.
ImportFails(at, off) ==
  LET part == ImportPartial(FreshSock(off), rec, at)
  IN /\ phase = "closed"
     /\ sock' = [part EXCEPT !.repair = IF at = "repair_start" THEN FALSE
                                        ELSE NDEBUG /\ @,
                             !.ktls = NDEBUG /\ UseTLS]
     /\ phase' = IF NDEBUG THEN "serving" ELSE "import_failed"
     /\ hops' = hops + 1
     /\ UNCHANGED <<peer, rec, now, stamps>>

Next ==
  \/ AppWrite \/ Transmit \/ PeerReceive \/ PeerAck \/ PeerSend
  \/ SockReceive \/ AppRead
  \/ ExportAll \/ \E at \in ExportSteps : ExportFails(at)
  \/ Abort \/ CloseExported \/ Import
  \/ \E at \in ImportSteps, off \in TsVals : ImportFails(at, off)
  \/ Tick

(* The kernel runs the TCP state machines of both ends and TCP          *)
(* retransmits what is lost; the event loop reads what is readable and  *)
(* runs the close and handoff callbacks; a failed assertion ends the     *)
(* process.  Weak fairness on each of these.  The client and the         *)
(* application are not required to send anything.                        *)
Fairness ==
  /\ WF_vars(Transmit) /\ WF_vars(PeerReceive) /\ WF_vars(PeerAck)
  /\ WF_vars(SockReceive) /\ WF_vars(AppRead)
  /\ WF_vars(CloseExported) /\ WF_vars(Import) /\ WF_vars(Abort)

Spec == Init /\ [][Next]_vars /\ Fairness

(***************************************************************************)
(* Properties.                                                             *)
(***************************************************************************)

(* The socket that serves the connection agrees with the client on both  *)
(* byte streams, however many times it was exported and imported: the    *)
(* client has received what the socket counts as sent and not more, and  *)
(* the socket has received from the client what the client counts as     *)
(* acknowledged and not more.  tcp_import must restore the sequence      *)
(* numbers tcp_export read, so that neither side drops the other's       *)
(* segments as outside its window.                                         *)
StreamSynchronized ==
  phase = "serving" =>
    /\ sock.una <= peer.rcv /\ peer.rcv <= sock.nxt
    /\ peer.una <= sock.rnxt /\ sock.rnxt <= peer.snd

(* A socket is in repair mode only while it is exported: the error paths *)
(* of tcp_export and of tcp_import (err1) leave repair mode before        *)
(* returning, and a socket served after an import is out of it.  A socket *)
(* left in repair mode is stuck: it sends nothing, neither data nor FIN   *)
(* nor RST, and closing it is silent.                                     *)
RepairNotLeaked ==
  phase \in {"serving", "export_failed", "import_failed"} => ~sock.repair

(* Kernel TLS is never taken off or put on a socket while it is in       *)
(* repair mode: export_all must run tls_unmake_ktls before tcp_export's   *)
(* tcp_repair_start.  (An import replaces the socket and is excluded.)    *)
OffloadOutsideRepair ==
  [][hops' = hops /\ sock'.ktls # sock.ktls => ~sock.repair /\ ~sock'.repair]_vars

(* The client takes every segment the serving socket has in flight, and  *)
(* reads its windows with the scales it negotiated, however many hosts   *)
(* the connection has moved through: no byte still to arrive carries a   *)
(* TSval that the client's PAWS test puts before ts_recent, and the       *)
(* socket's snd_wscale and rcv_wscale are the handshake's.  The imported  *)
(* socket runs on another host's clock; only tcp_set_options' restore of *)
(* TCP_TIMESTAMP carries the timestamps on from the exporter's.           *)
ClientAcceptsSegments ==
  phase = "serving" =>
    /\ \A k \in (peer.rcv + 1)..sock.nxt : ~Before(stamps[k], peer.tsRecent)
    /\ sock.ws = <<SndWscale, RcvWscale>>

(* Every byte stays deliverable across transplants: each byte the        *)
(* application writes eventually reaches the client, and each byte the  *)
(* client sends is eventually read by the application, unless the       *)
(* process has died on a failed assertion.  tcp_import must hand back a  *)
(* socket out of repair mode whose queues and sequence numbers let both  *)
(* ends carry on; one left in repair mode, or restored behind the        *)
(* client, stalls the connection without any error.                      *)
BytesDelivered ==
  \A k \in 1..MaxBytes :
    /\ sock.wseq >= k ~> (peer.rcv >= k \/ phase = "aborted")
    /\ peer.snd >= k ~> (sock.copied >= k \/ phase = "aborted")

=============================================================================
