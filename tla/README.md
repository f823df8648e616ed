# TLA+ models of Prism-HTTP

Prism moves live HTTP connections between back-end servers without the client
noticing. A server that decides to hand off a connection does four things:
- it asks a programmable switch to lock the client's flow;
- it freezes the TCP socket with repair mode and serializes its state (TCP, TLS, HTTP);
- it closes the socket silently and sends the serialized record to another server;
- the receiving server rebuilds the socket and asks the switch to steer the flow to it and unlock it.

This directory holds TLA+ modules that model that protocol and the pieces it
rests on. The modules are written from the code under `src/`. It also holds
the TLC configurations that check them and `PROJECT.json`, which maps every
model definition to the source lines it stands for.

## The system and how its parts interact

| part | source | role |
|---|---|---|
| switch control plane | `switch/src/cpp/prism_switch.bpf.c` (`configure_switch`, handlers, `config_prepare_response`) | flow table `prism`: peer → (owner, locked); answers UDP control requests |
| switch data plane | same file, `prism_in_lookup`, `prism_out_lookup`, `csum16_add/sub` | steers a client's TCP segments to the owner and rewrites the owner's replies to the virtual address, patching checksums incrementally; drops both while locked |
| switch client | `switch/src/cpp/prism_switch_client.cpp` | one UDP socket and a 100 ms retry timer per request, first reply runs the callback |
| HTTP server | `src/phttp_server.cpp`, `src/http.cpp`, `src/include/membuf.h` | per-connection read loop: parse headers, collect body, call the handler, write the response |
| handoff (v2) | `src/phttp_hoproto_export2.cpp`, `import2.cpp`, `close2.cpp` | status 600 from a handler starts a handoff; export, record, import, CHOWN; close and DELETE |
| socket monitor | `src/uv_tcp_monitor.cpp` | an eventfd the kernel signals when a closed socket is really destroyed |
| handoff record server | `src/phttp_handoff_server.cpp` | TCP connection between servers carrying framed records |
| TCP repair | `src/tcp_export.cpp` | reads and restores sequence numbers and queues with `TCP_REPAIR` |

One handoff from server A to server B goes like this:
1. A's handler answers 600.
2. `phttp_start_handoff` stops reading and queues an ADD (or a LOCK, if A had imported the connection) with lock = 1.
3. The switch reply runs `after_configure_switch`, which calls `export_all` (tcp_export, then export_tls, then export_http) and `uv_close`.
4. `after_close` waits on the monitor. `after_real_close` frames the record and writes it to B.
5. B's `on_read` parses it and calls `phttp_on_handoff`.
6. B's handler runs on the imported request. A status of 600 or more forwards the record onward (`forward_proto_states`). Anything else imports the connection (`continue_import`) and queues a CHOWN with unlock = 1.
7. `after_change_owner` restarts reading and sends the response.
8. When the client later closes, `phttp_start_close` of an imported connection waits on the monitor and queues a DELETE.

## Modules

| module | models | state | actions |
|---|---|---|---|
| `SwitchChannel` | switch client and control plane | `flow` (the prism table), `swreq` (psw_config_req objects with retry_count), `net` (bag of datagrams), `nextRid` | `QueueTask`, `RetrySend`, `SwitchReceive`, `ClientRecv`, `DiscardStale`, `Lose`. The handlers are operators: `AddEntry`, `DeleteEntry`, `ChownEntry`, `ToggleEntry`, `ConfigureSwitch`, `ReplyReceivable` |
| `Handoff` (EXTENDS SwitchChannel) | the v2 handoff, close path, monitor, and the client's flow | `conn[s][p]` (the http_client_socket_t of server s for peer p, its kernel socket and eventfd), `chan` (records on each server-to-server connection), `client` | one action per libuv callback: `OnRead`, `StartHandoff`, `AfterConfigureSwitch`, `AfterClose`, `KernelDestroy`, `AfterRealClose`, `HandoffDone`, `OnHandoff`, `StartChangeOwner`, `ForwardProtoStates`, `AfterChangeOwner`, `AfterSendHttpRes`, `OnReadEOF`, `AfterCloseImported`, `AfterCloseLocal`, `AfterRealCloseImported`, `OnRecvNoCallback` |
| `TcpTransplant` | one connection's TCP state across export/import | `sock` (snd_una, snd_nxt, write_seq, rcv_nxt, copied_seq, repair, ktls, tsoffset, window scales), the client's `peer` counters and `ts_recent`, the record `rec`, `phase`, `hops`, the timestamp clock `now`, the TSval `stamps` of each sent byte | the two TCP stacks moving bytes (the client's receive applies the PAWS test); `Tick` of the clock; `ExportAll`, `ExportFails(at)` (tcp_export failing at any of its steps), `Abort`, `CloseExported`, `Import`, `ImportFails(at)` (tcp_import failing at any step, with `ImportPartial` the socket it leaves). `Capture`, `TcpGetQueueLen`, `TcpGetOptions`, `TcpSetSeq`, `TcpSetQueue`, `TcpSetOptions`, `TcpImport` are the tcp_export.cpp functions; `FreshSock(off)` is import_tcp's new socket, whose clock is off from the exporter's by any amount |
| `SwitchDataPlane` | the eBPF program's header arithmetic | none (operators) | `csum16_add`, `csum16_sub`, `prism_in_lookup`, `prism_out_lookup`, `config_prepare_response`, and an RFC 1071 reference sum (`OnesSum`, `Verifies`) they are checked against |
| `FlowOwnership` | what handoff promises, independent of the code | `holders` (servers holding each connection), `cstate`, `req` | `Open`, `Send`, `Answer`, `Detach`, `Attach`, `Close`, `Release` |
| `HandoffFraming` | framing between servers | stream offsets of the reader (`cur`, `cursor`), records written (`lens`), records handed to `phttp_on_handoff` (`out`), req_mem's `size` | `WriteRecord`, `OnRead(n)` (libuv's read: `OnAlloc` grows req_mem as on_alloc does and bounds the read by its free space); the parse loop is the RECURSIVE operator `ReadLoop` |
| `HttpConn` | one HTTP connection: TLS handshake, read loop, and the request's export to and import at a peer | arena `begin/prev/cur` as stream offsets, `st` (http_state), `bodyAt/bodyLen`, the write in progress (or the handoff), the handler calls (`answered`, and `views`, what each call was given), the read callback `phase`, the client's handshake `flights`, the exported record `ex` | `TlsHandshakeRead(n)` (on_tls_handshake_read), `OnRead(n)` (with `MembufConsume`, `ParseResults`, `HeadersParsed`, `BodyStep`, `BodyCheck`, `InvokeHandler`), `OnEOF`, `AfterSendHttpRes` (with `RequestReset`), `ExportHttp` (export_http in after_configure_switch, with the operator `http_request_export`), `OnHandoff` (phttp_on_handoff through after_change_owner, with `http_request_import`), the client's `SendRequest`/`ClientFlight`/`ClientFin`. Content-Length is found and parsed by the operators `http_request_find_header`, `strtoll` and `http_request_determine_body_len` over the header names and values the client writes |

`MCHandoff` and `MCHandoffFraming` instantiate the parameterised modules:
`MCHandoff` gives the model values and the address map, and
`MCHandoffFraming` gives the set of record sizes.

Abstractions, each chosen so that the checked properties still tell the
relevant cases apart:
- In the protocol modules, addresses, MACs and ports are folded into the owner, a server model value. The data plane check maps them back to numbers: `IpOf` and `PortOf` give each local address a 32-bit address (as its two 16-bit halves, since TLC's integers are 32-bit signed) and a port, and `EntryValue` is the `prism_value_t` the ADD and CHOWN requests fill in. MACs are left out.
- A handoff record is the peer plus the number of hops the current request has taken. Its bytes are left out; they are the subject of `HandoffFraming` and `TcpTransplant`.
- A request handler is a nondeterministic choice between answering and status 600, toward any other server.
- Queue contents are abstracted to their lengths. tcp_get_queue copies them verbatim and tcp_set_queue replays them verbatim.
- Byte streams are positions, not contents. A request is (kind, header length, body length).
- A segment or control datagram keeps only the header words the switch rewrites. The other words of the IP header, TCP header, pseudo-header and payload are summed into one word that the switch leaves alone. The ones'-complement sum does not depend on byte order, so loading words in host order, as the program does, changes nothing.

## Runs

| run | cfg | expect | what it shows |
|---|---|---|---|
| handoff | MCHandoff.cfg | pass | 1 client, 3 servers (s1 and s2 share an address), 2 requests, up to 2 hops, a network that delays but does not lose or retry. The client never reaches a dead or frozen socket (`RoutingSafe`). A serving server is reachable (`ServingReachable`). There is never more than one socket per address (`SingleSocketPerAddr`). No switch entry is left behind (`NoLeakedEntry`). Every segment the data plane passes under a reached table arrives rewritten, with IP and TCP checksums that verify (`SegmentsIntact`). Every request is answered (`RequestAnswered`) and every closed connection is released everywhere (`ConnectionReleased`). Handoff implements `FlowOwnership` (`FlowOwnershipSpec`). 907 states |
| handoff_lossy | MCHandoffLossy.cfg | pass | two requests per client (so an imported connection is handed off again with LOCK), with loss, one retry per request and datagrams that arrive late: the monitor still keeps two sockets for one connection apart (`SingleSocketPerAddr`), and every step is still a `FlowOwnership` step (`FlowOwnershipSafe`, the safety half of the refinement; liveness does not survive loss). `RoutingSafe` is not checked here: under these constants it is violated (see below). 440749 states |
| handoff_chown_retry | MCHandoffDup.cfg | violation | a retried CHOWN re-locks the flow: `ServingReachable` fails |
| handoff_stale_add | MCHandoffStaleAdd.cfg | violation | a delayed retransmitted ADD arrives after the DELETE: `NoLeakedEntry` fails |
| switch_lost_reply | MCHandoffLoss.cfg | violation | a lost ADD reply, then EEXIST, whose reply is dropped by its checksum: `RequestCompletable` fails |
| tcp_transplant | MCTcpTransplant.cfg | pass | quiescent exports, up to 2 transplants, 2 bytes each way, tcp_export and tcp_import failing at any step: the socket stays in step with the client (`StreamSynchronized`), it is in repair mode only while exported (`RepairNotLeaked`), every segment it has in flight passes the client's PAWS test and it uses the negotiated window scales (`ClientAcceptsSegments`), and every byte written on either side is eventually delivered unless the server aborts (`BytesDelivered`). 38106 states |
| framing | MCHandoffFraming.cfg | pass | reads end on frame boundaries and req_mem (60 bytes) holds the records in flight, 3 records of sizes 1..9 (every padding length 0..7 occurs): records arrive whole and in order, and all of them are handled |
| framing_split | MCHandoffFramingSplit.cfg | violation | req_mem of 12 bytes, whole frames delivered: a read that fills req_mem ends inside a frame and on_read's off-by-4 check parses a truncated record. (`SplitFrames = TRUE`, reads cut anywhere by TCP, reaches the same violation in 3 states.) |
| http_serial | MCHttpConn.cfg | pass | a TLS handshake, then 2 serial requests with headers of 1..2 and bodies of 0..2 bytes, cut into reads at every position outside headers, each of which the handler may hand off to a peer: served in order, never closed, all answered, and every handler call, on this server or on the peer, is given the request the client sent (`HandlerSeesRequest`) |
| http_bad_requests | MCHttpConnBad.cfg | pass | malformed requests and bodies longer than Content-Length: the connection is closed only for them (this run covers the -1 and "over" branches) |
| http_split_headers | MCHttpConnSplit.cfg | violation | headers spanning two reads: `req->body = mem->prev + nparsed` rejects a good request |
| http_header_case | MCHttpConnCase.cfg | violation | a client spelling the field `content-length` (field names are case-insensitive): `find_header` compares case-sensitively, the body is taken for the next request, and a good client is cut off (`NeverClosed`) |

Four more disagreements are stated as properties, and TLC finds each one
violated when a constant is changed. They are recorded as hazards in
`PROJECT.json`:
- `StreamSynchronized` with `QuiescentExport = FALSE`: tcp_import restores a socket whose sequence numbers are off by the lengths of the queues.
- `RoutingSafe` under the handoff_lossy constants: a CHOWN retransmission that arrives late locks the flow again (the toggling of bpf.c:224), and the imported connection's next LOCK toggles it off (bpf.c:260). after_configure_switch then exports and closes the socket the switch routes the client to. The root cause is the finding of handoff_chown_retry.
- `OffloadOutsideRepair` under the tcp_transplant constants: export_all calls tls_unmake_ktls on a socket in repair mode, which spec §4.3 forbids.
- `RepairNotLeaked` with `NDEBUG = TRUE`: tcp_export's and tcp_import's error paths leave the socket in repair mode, because the `assert` that would call `tcp_repair_done` is compiled out.
- `NoRequestLost` with `Serial = FALSE`: a pipelined request is wiped. With `BadRequests = TRUE`, `ServedInOrder` also fails, because a read during a pending write re-runs the handler.

## Refinement

`FlowOwnership` states the promise of connection handoff without any of its
machinery: at most one server holds a connection; it is let go only while a
request is pending; a server takes it up only when nobody holds it; only a
holder answers; and nothing takes it up after the client's close has been
released. `Handoff` instantiates it with a refinement mapping:
- `holders[p]` is the set of servers whose socket for p is live (state in `LiveStates`);
- `cstate[p]` is the client's state;
- `req[p]` is pending while a request is sent or being read.

`FlowOwnershipSpec` (`FO!Spec`, fairness included) is a property of the
handoff run. Its mutant writes the record before the switch has locked the
flow, so that the importer holds the connection while the exporter still
does. The lossy run checks `FlowOwnershipSafe`, `FO!Init /\ [][FO!Next]_FO!vars`.

Every property of a passing run has a mutant in `PROJECT.json`: a plausible
bug in the code it is about, which TLC must catch. Examples include CHOWN
ignoring the unlock flag, the record being sent without waiting on the
monitor, `after_real_close_imported` without its DELETE, tcp_import with its
queues swapped, the pad not being skipped, `==` turned into `<=` in the frame
check, a missing `http_request_reset`, http_request_import rebuilding the body pointer from `mem->cur`, kTLS installed one read late, tcp_import restoring the queues
while still in repair mode, and the address update of the checksum
without its end-around carry.

## Bounds, and why they are enough

- **Servers.** Three servers, two of which share an address, are the fewest for which:
  - a handoff can return to its origin;
  - a record can be forwarded twice;
  - two workers on one address can collide in tcp_import.
- **Hops.** `MaxHops = 2` allows a forward (600 at the importer) and a second handoff of an imported connection (the LOCK path).
- **Requests.** `MaxRequests = 2` lets a connection be served again after it was handed off.
- **Switch retries.** One retry is the smallest duplicate. The bugs that retries expose appear with it.
- **TcpTransplant.** Two bytes each way and two transplants give non-empty sent and unsent queues and a second export of an imported socket. The timestamp ring has 8 values (`TsMod`), so an importing host's clock offset is before, equal to or after the exporter's clock in every way the kernel's `before()` tells apart, and 2 clock ticks (`MaxTicks`) let time pass before, between and after transplants. The window scales are two distinct values (7 and 2), so swapping them is seen.
- **Framing.** Sizes 1..9 cover every pad length, including 0 (size 8), and a size above 8. req_mem is scaled with the records: 60 bytes (the 5 MB of the code, which holds ordinary records) in the passing run, 12 bytes (smaller than a frame of 9, which is 20 bytes) in the violation run, with the growth threshold and step 2 and 8 (1024 and 4096).
- **Data plane.** Addresses 255.255.0.1 and 0.0.255.254 and ports 65535 and 1 are at the 16-bit edges. Header words {0, 1, 65535} build the client's address, port and the untouched words. Together they make every carry case of `csum16_add` occur, and the mutant without the carry is caught.
- **Two clients.** The handoff run with two clients and one request each (85179 states, 3 minutes) also passes every property. It is too slow to keep as a run, since every mutant would be checked under it.
- **HttpConn.** Header lengths 1..2 and body lengths 0..2 are the smallest that allow a read to end inside the headers or inside the body. A handshake flight is 2 bytes (`FlightLen`), so a read can end inside one and another can carry the end of the Finished together with request bytes. Body lengths below 10 are one decimal digit, which is all `strtoll` needs to see. With `Handoffs = TRUE` either request may be handed off after the first one was answered, so an import into an arena that held an earlier request is covered.

## Fairness

- The libuv loop of every server runs every ready callback, so each server step is weakly fair.
- The switch processes every datagram that reaches it, and the handoff server handles every record it has received. Both are weakly fair.
- The client is not required to do anything, so its steps are not fair.
- In `TcpTransplant`, the kernel's TCP steps are weakly fair: the server socket transmitting and receiving, and the client's stack receiving and acknowledging. So are the application's reads and the server's close, import and abort. Writes by either side (`AppWrite`, `PeerSend`), the clock `Tick` and the export are not fair: nobody has to send, and a server need not hand off.
- In `HttpConn`, reads are weakly fair. A completed write's callback runs before the next read when `uv_write` finished synchronously; the `"sync"` write state models this.
- The runs with liveness properties turn deadlock checking off. The system does stop once the client has finished. A request that is never answered, or a connection that is never released, shows up as a liveness violation.

## Not modelled

- The v1 handoff files (`phttp_hoproto_export.cpp`, `import.cpp`, `close.cpp`, `connect.cpp`) cannot be built with the current sources. They call `uv_tcp_monitor_schedule_close`, whose definition in `uv_tcp_monitor.cpp` (lines 114-134) is commented out, and they use the `uv_psw_client` API. They also define the same entry points as v2.
- `uv_psw_client.cpp` wraps `prism_switch_add`, `prism_switch_lock` and `prism_switch_change_owner`, which no file of the repository defines.
- The switch daemon, the VALE kernel glue, `l2_lookup`'s MAC learning, the applications, argument parsing and profiling. The applications' request handlers are the nondeterministic choice between answering and status 600.
- The cryptography of TLS. A handshake is two client flights, each answered by the server in the read that completes it. The 100-continue path of `phttp_server.cpp` is dead: `phttp_send_http_res` is only called with `continue_res = false`.
- `tls_export.cpp` copies the fields of the tlse context into protobuf; only its effect on the socket (kTLS removed and reinstalled) is modelled.
- In `HttpConn`, the method, path and header offsets of the exported request, which are rebuilt exactly like the body's; the peer's handler answering 600 again (`forward_proto_states`, modelled in `Handoff`); and the switch steps between export and import (also in `Handoff`).
- `uv_read_start` on a stream that is already reading, as `on_tls_handshake_read` does when two reads complete the handshake: libuv before 1.38 restarts it, later versions return `UV_EALREADY`, and the code does not check the result. The model follows the older behaviour.
- The MSS, the window fields (`tcp_get/set_window`) and the addresses, which are copied verbatim. The timestamp clock and window scales are modelled; the client is taken to have negotiated SACK and timestamps, which `tcp_set_options` turns on whatever was negotiated (a hazard in `PROJECT.json`).
- The import as a sequence of kernel-visible steps: the unsent part of the send queue is sent outside repair mode before the options are restored, but the modelled exports are quiescent and the switch still routes the flow to the old host at that point.
- The applications (`apps/kvs`, `apps/bench`): their handlers are modelled only as the choice between answering and status 600. Their own bugs (the undersized `membuf_grow` in the KVS GET, the unsynced DELETE, the unchecked object size in the bench backend) are hazards in `PROJECT.json` with no property.
- Failures of socket calls other than tcp_export's and tcp_import's.

Several hazards in `PROJECT.json` have no property, because modelling them
would only yield a violation and every violation run is already spent on a
finding:
- `membuf_grow`'s realloc under live pointers;
- `prism_switch_client_queue_task` failing after `uv_read_stop`, whose late retry still runs `after_configure_switch`;
- the switch table at capacity;
- a failed write hitting `assert(status == 0)`;
- `http_request_import` growing the arena by `len - avail` only, so that a record of more than 5 MB is copied past its end.

## Plan for later work

1. Arena relocation in `HttpConn`: `phttp_on_alloc` grows the arena while `req->body` points into it. This is worth a run if a violation run can be retired.
2. The handoff run with two clients, once its state space can be cut (for example, a view that drops finished connections).
3. Compose `HttpConn`'s request export with `HandoffFraming`'s records, so that a truncated record reaches `http_request_import`.
