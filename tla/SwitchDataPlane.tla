-------------------------- MODULE SwitchDataPlane --------------------------
(***************************************************************************)
(* The header arithmetic of the switch's eBPF program,                     *)
(* prism_switch.bpf.c: the incremental checksum helpers csum16_add and     *)
(* csum16_sub, the two per-segment rewrites prism_in_lookup (client to     *)
(* owner: destination address and port) and prism_out_lookup (owner to    *)
(* client: source address and port), and the control reply built by       *)
(* config_prepare_response.  None of them keeps state: they are operators *)
(* that a module with a flow table applies to the segments it routes.     *)
(*                                                                         *)
(* Header fields are 16-bit words.  The program loads them in host order, *)
(* but the ones'-complement sum is the same in either byte order          *)
(* (RFC 1071, 2.(B)), so the words are taken as they are.  A segment keeps *)
(* only the words the switch rewrites; every other word of the IP header, *)
(* the TCP header, the pseudo-header and the payload is folded into one   *)
(* word (iprest, tcprest, rest) that the switch leaves alone.             *)
(***************************************************************************)
EXTENDS Integers, Sequences

W16 == 65536

\* ~x on a 16-bit word (the C code truncates ~ of a wider value to 16 bits).
Not16(x) == W16 - 1 - x

\* A 32-bit IPv4 address is the pair of its 16-bit halves (TLC's integers
\* are 32-bit signed); Hi16 and Lo16 are addr >> 16 and addr & 0xffff.
Hi16(a) == a[1]
Lo16(a) == a[2]

(***************************************************************************)
(* Reference definition (RFC 1071): add the words as integers and fold     *)
(* the carries back in until the sum fits in 16 bits.  A receiver accepts *)
(* a header whose words, checksum included, sum to 0xffff.               *)
(***************************************************************************)
\* The integer sum of a sequence of words (a recursion over the sequence
\* rather than Functions' SumFunction, whose fold over the domain set is
\* far slower under TLC for the many short sums evaluated per state).
RECURSIVE WordSum(_)
WordSum(ws) == IF ws = <<>> THEN 0 ELSE Head(ws) + WordSum(Tail(ws))

RECURSIVE Fold16(_)
Fold16(n) == IF n < W16 THEN n ELSE Fold16((n % W16) + (n \div W16))

OnesSum(ws) == Fold16(WordSum(ws))

\* The checksum the sending host computes over the other words.
Checksum(ws) == Not16(OnesSum(ws))

Verifies(ws, csum) == OnesSum(Append(ws, csum)) = W16 - 1

(***************************************************************************)
(* The code.                                                               *)
(***************************************************************************)

\* csum16_add without its end-around carry (for the mutant below).
csum16_add_nocarry(csum, addend) == (csum + addend) % W16

\* csum16_add: uint16_t ret = csum + addend; return ret + (ret < addend).
csum16_add(csum, addend) ==
  LET ret == (csum + addend) % W16
  IN  (ret + (IF ret < addend THEN 1 ELSE 0)) % W16

\* csum16_sub(csum, addend) == csum16_add(csum, ~addend)
csum16_sub(csum, addend) == csum16_add(csum, Not16(addend))

\* A mutant of the address update whose additions drop the end-around
\* carry.
ReplaceAddrNoCarry(csum, old, new) ==
  LET sub(c, x) == csum16_add_nocarry(c, Not16(x))
  IN  csum16_add_nocarry(csum16_add_nocarry(sub(sub(csum, Not16(Hi16(old))),
                                                Not16(Lo16(old))),
                                            Not16(Hi16(new))),
                         Not16(Lo16(new)))

\* The four steps both lookups apply to a checksum when a 32-bit address
\* old becomes new: subtract ~hi and ~lo of old, add ~hi and ~lo of new.
ReplaceAddr(csum, old, new) ==
  csum16_add(csum16_add(csum16_sub(csum16_sub(csum, Not16(Hi16(old))),
                                   Not16(Lo16(old))),
                        Not16(Hi16(new))),
             Not16(Lo16(new)))

\* The same for a port (one 16-bit word).
ReplacePort(csum, old, new) == csum16_add(csum16_sub(csum, Not16(old)), Not16(new))

(***************************************************************************)
(* TCP segments.                                                           *)
(***************************************************************************)
IpWords(g)  == <<g.iprest, Hi16(g.src), Lo16(g.src), Hi16(g.dst), Lo16(g.dst)>>
TcpWords(g) == <<g.tcprest, Hi16(g.src), Lo16(g.src), Hi16(g.dst), Lo16(g.dst),
                 g.sport, g.dport>>

\* A segment as its sender's stack builds it, both checksums computed.
Segment(src, sport, dst, dport, iprest, tcprest) ==
  LET g == [src |-> src, sport |-> sport, dst |-> dst, dport |-> dport,
            iprest |-> iprest, tcprest |-> tcprest, ipcsum |-> 0, tcpcsum |-> 0]
  IN  [g EXCEPT !.ipcsum = Checksum(IpWords(g)), !.tcpcsum = Checksum(TcpWords(g))]

\* The receiver's IP and TCP checksum checks both pass.
Intact(g) == Verifies(IpWords(g), g.ipcsum) /\ Verifies(TcpWords(g), g.tcpcsum)

\* prism.lookup found no entry.
NULL == [null |-> TRUE]

\* prism_in_lookup on a segment from the client: with no entry the segment
\* goes on unchanged ("pass"); a locked entry aborts it (dropped); otherwise
\* the destination address and port become the owner's, both checksums
\* updated incrementally, and the segment is "matched".
prism_in_lookup(g, val) ==
  CASE val = NULL -> [verdict |-> "pass", seg |-> g]
    [] val.locked -> [verdict |-> "abort", seg |-> g]
    [] OTHER ->
         [verdict |-> "matched",
          seg |-> [g EXCEPT
                     !.ipcsum = ReplaceAddr(g.ipcsum, g.dst, val.owner_addr),
                     !.tcpcsum = ReplacePort(ReplaceAddr(g.tcpcsum, g.dst, val.owner_addr),
                                             g.dport, val.owner_port),
                     !.dst = val.owner_addr,
                     !.dport = val.owner_port]]

\* prism_out_lookup on a segment to the client, keyed by its destination:
\* the source address and port become the virtual ones the client
\* connected to.
prism_out_lookup(g, val) ==
  CASE val = NULL -> [verdict |-> "pass", seg |-> g]
    [] val.locked -> [verdict |-> "abort", seg |-> g]
    [] OTHER ->
         [verdict |-> "matched",
          seg |-> [g EXCEPT
                     !.ipcsum = ReplaceAddr(g.ipcsum, g.src, val.virtual_addr),
                     !.tcpcsum = ReplacePort(ReplaceAddr(g.tcpcsum, g.src, val.virtual_addr),
                                             g.sport, val.virtual_port),
                     !.src = val.virtual_addr,
                     !.sport = val.virtual_port]]

(***************************************************************************)
(* Control datagrams (UDP).                                                *)
(***************************************************************************)
UdpWords(d) == <<d.rest, Hi16(d.src), Lo16(d.src), Hi16(d.dst), Lo16(d.dst),
                 d.sport, d.dport, d.status>>

\* A request as the client host sends it; a computed checksum of 0 goes
\* out as 0xffff (RFC 768).
UdpDatagram(src, sport, dst, dport, rest, status) ==
  LET d == [src |-> src, sport |-> sport, dst |-> dst, dport |-> dport,
            rest |-> rest, status |-> status, csum |-> 0]
      c == Checksum(UdpWords(d))
  IN  [d EXCEPT !.csum = IF c = 0 THEN W16 - 1 ELSE c]

\* The receiving kernel accepts a datagram with no checksum (0) or one
\* whose checksum verifies.
UdpIntact(d) == d.csum = 0 \/ Verifies(UdpWords(d), d.csum)

\* config_prepare_response: a positive status aborts; otherwise swap the
\* addresses and ports and adjust the UDP checksum for prb->status
\* becoming (uint16_t)-status.  prb->status itself is left as it was.
config_prepare_response(d, status) ==
  IF status > 0 THEN [verdict |-> "abort", seg |-> d]
  ELSE [verdict |-> "reply",
        seg |-> [d EXCEPT !.src = d.dst, !.dst = d.src,
                          !.sport = d.dport, !.dport = d.sport,
                          !.csum = csum16_add(csum16_sub(d.csum, Not16(d.status)),
                                              Not16((0 - status) % W16))]]

=============================================================================
