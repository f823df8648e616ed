--------------------------- MODULE HandoffFraming ---------------------------
(***************************************************************************)
(* The byte framing of handoff records on the TCP connection between two *)
(* servers.  The writer (after_real_close in phttp_hoproto_export2.cpp,   *)
(* forward_proto_states in phttp_hoproto_import2.cpp) sends each          *)
(* serialized record as a 4-byte big-endian length, padlen zero bytes and *)
(* the payload; the reader (on_read in phttp_handoff_server.cpp)          *)
(* accumulates what TCP delivers in req_mem and parses every complete     *)
(* frame, keeping the rest for the next read.                              *)
(*                                                                         *)
(* Positions are absolute offsets in the byte stream; a payload is        *)
(* identified by its index among the records written.                    *)
(***************************************************************************)
EXTENDS Integers, Sequences

CONSTANTS
  Sizes,        \* serialized lengths a record can have
  MaxRecords,   \* records written on the connection in a run
  SplitFrames,  \* FALSE: a read ends on a frame boundary or fills req_mem
  BufInit,      \* req_mem's initial size (5000000 in the code)
  BufLow,       \* on_alloc grows req_mem when less than this is free (1024)
  BufGrow       \* ... by membuf_grow(&req_mem, BufGrow) (4096)

ASSUME Sizes \subseteq Nat \ {0} /\ MaxRecords \in Nat /\ SplitFrames \in BOOLEAN
ASSUME {BufInit, BufLow, BufGrow} \subseteq Nat \ {0}

HeaderLen == 4   \* sizeof(struct phttp_ho_header)

\* padlen of after_real_close and on_read.
Pad(len) == IF len % 8 = 0 THEN 0 ELSE 8 - (len % 8)

FrameLen(len) == HeaderLen + Pad(len) + len

\* Stream offset at which the k-th of the frames of lengths ls starts.
RECURSIVE Offset(_, _)
Offset(ls, k) == IF k = 1 THEN 0 ELSE Offset(ls, k - 1) + FrameLen(ls[k - 1])

\* The frame whose header starts at offset c.
FrameAt(ls, c) == CHOOSE k \in 1..Len(ls) : Offset(ls, k) = c

Boundaries(ls) == {Offset(ls, k) : k \in 1..(Len(ls) + 1)}

MaxStream == MaxRecords * FrameLen(CHOOSE m \in Sizes : \A x \in Sizes : x <= m)

VARIABLES
  lens,     \* payload lengths of the records written so far, in order
  cur,      \* stream offset of req_mem->cur: bytes received so far
  cursor,   \* stream offset of req_mem->begin: first unparsed byte
  out,      \* records passed to phttp_on_handoff, in order
  overrun,  \* the parse cursor went past the bytes received
  size      \* req_mem's size, end - begin

vars == <<lens, cur, cursor, out, overrun, size>>

Item == [rec : 0..MaxRecords, whole : BOOLEAN]

TypeOK ==
  /\ lens \in Seq(Sizes) /\ Len(lens) <= MaxRecords
  /\ cur \in 0..Offset(lens, Len(lens) + 1)
  /\ cursor \in Boundaries(lens)
  /\ out \in Seq(Item)
  /\ overrun \in BOOLEAN
  /\ size \in Nat \ {0}

Init ==
  /\ lens = <<>>
  /\ cur = 0
  /\ cursor = 0
  /\ out = <<>>
  /\ overrun = FALSE
  /\ size = BufInit

\* Where after_real_close puts the payload of the k-th frame.
PayloadAt(ls, k) == Offset(ls, k) + HeaderLen + Pad(ls[k])

\* The step on_read takes at a header it can read whole: check that
\* buflen + padlen bytes follow, skip header and pad, parse buflen bytes
\* (ParseFromString of bytes that are not exactly the record's is an item
\* that is not whole), continue after them.  Loop is the rest of the loop.
\* At an offset that is no frame header the length read is garbage.
Garbage == [rec |-> 0, whole |-> FALSE]

Stop(c, acc) == [cursor |-> c, items |-> acc, overrun |-> FALSE]

\* A mutant of the completeness check: a frame that ends exactly at the
\* last byte received is taken as incomplete.
RECURSIVE ReadLoopLate(_, _, _)
ReadLoopLate(c, e, acc) ==
  IF e - c < HeaderLen THEN Stop(c, acc)
  ELSE LET k == FrameAt(lens, c)
           buf == lens[k]
       IN IF e - c <= FrameLen(buf) THEN Stop(c, acc)
          ELSE ReadLoopLate(c + FrameLen(buf), e,
                            Append(acc, [rec |-> k, whole |-> TRUE]))

\* A mutant that skips the header but not the pad.
RECURSIVE ReadLoopNoPadSkip(_, _, _)
ReadLoopNoPadSkip(c, e, acc) ==
  IF e - c < HeaderLen THEN Stop(c, acc)
  ELSE IF c \notin Boundaries(lens)
  THEN [cursor |-> c, items |-> Append(acc, Garbage), overrun |-> TRUE]
  ELSE LET k == FrameAt(lens, c)
           buf == lens[k]
           start == c + HeaderLen
       IN IF e - c < buf + Pad(buf) THEN Stop(c, acc)
          ELSE ReadLoopNoPadSkip(start + buf, e,
                 Append(acc, [rec |-> k, whole |-> start = PayloadAt(lens, k)]))

(***************************************************************************)
(* The loop of on_read, from the first unparsed byte c to the last byte   *)
(* received e.  It stops when fewer than 4 bytes remain or when           *)
(* e - c < buflen + padlen; otherwise it skips header and pad, parses     *)
(* buflen bytes and continues after them.  The result is the new cursor,  *)
(* the records parsed and whether the cursor passed e.                    *)
(***************************************************************************)
RECURSIVE ReadLoop(_, _, _)
ReadLoop(c, e, acc) ==
  IF e - c < HeaderLen THEN Stop(c, acc)
  ELSE IF c \notin Boundaries(lens)
  THEN [cursor |-> c, items |-> Append(acc, Garbage), overrun |-> TRUE]
  ELSE LET k     == FrameAt(lens, c)
           buf   == lens[k]
           start == c + HeaderLen + Pad(buf)
           next  == start + buf
           acc2  == Append(acc, [rec |-> k,
                                 whole |-> start = PayloadAt(lens, k) /\ next <= e])
       IN IF e - c < buf + Pad(buf) THEN Stop(c, acc)
          ELSE IF next > e
               THEN [cursor |-> next, items |-> acc2, overrun |-> TRUE]
               ELSE ReadLoop(next, e, acc2)

\* after_real_close or forward_proto_states: uv_write of header, pad and
\* payload; libuv writes the buffers of successive writes in order.
\* A mutant that writes past the run's bound.
WriteRecordUnbounded ==
  /\ \E len \in Sizes : lens' = Append(lens, len)
  /\ UNCHANGED <<cur, cursor, out, overrun, size>>

WriteRecord ==
  /\ Len(lens) < MaxRecords
  /\ \E len \in Sizes : lens' = Append(lens, len)
  /\ UNCHANGED <<cur, cursor, out, overrun, size>>

\* A mutant of on_alloc without the growth: req_mem keeps its size.
OnAllocNoGrow(used, sz) == sz

\* on_alloc: the size of req_mem after it, holding used bytes.  When
\* fewer than BufLow bytes are free, membuf_grow makes the size
\* used + BufGrow; libuv then reads at most end - cur bytes.
OnAlloc(used, sz) == IF sz - used < BufLow THEN used + BufGrow ELSE sz

\* libuv's read: on_alloc, then on_read with nread = n > 0: membuf_consume,
\* the parse loop, then the remainder is moved to the start of req_mem.
\* (After on_alloc at least min(BufLow, BufGrow) bytes are free, so the
\* UV_ENOBUFS of an empty buffer does not arise.)
OnRead(n) ==
  LET res  == ReadLoop(cursor, cur + n, <<>>)
      used == cur - cursor
      sz   == OnAlloc(used, size)
  IN /\ ~overrun
     /\ n <= sz - used
     /\ size' = sz
     /\ cur + n <= Offset(lens, Len(lens) + 1)
     /\ ~SplitFrames => cur + n \in Boundaries(lens) \/ n = sz - used
     /\ cur' = cur + n
     /\ cursor' = IF res.overrun THEN cursor ELSE res.cursor
     /\ out' = out \o res.items
     /\ overrun' = res.overrun
     /\ UNCHANGED lens

Next ==
  \/ WriteRecord
  \/ \E n \in 1..MaxStream : OnRead(n)

\* The writer's loop writes every record it is given and the kernel
\* delivers every byte written: weak fairness on both.
Spec == Init /\ [][Next]_vars /\ WF_vars(WriteRecord)
          /\ WF_vars(\E n \in 1..MaxStream : OnRead(n))

(***************************************************************************)
(* Properties.                                                             *)
(***************************************************************************)

(* phttp_on_handoff is called with exactly the records written, each one *)
(* whole, in the order they were written, and the parse never reads past *)
(* the bytes received, whichever way TCP cuts the stream into reads.     *)
FramesIntact ==
  /\ ~overrun
  /\ \A i \in 1..Len(out) : out[i] = [rec |-> i, whole |-> TRUE]

(* Every record written is eventually passed to phttp_on_handoff: the    *)
(* reader does not wait for bytes that will never come.                   *)
AllRecordsHandled == <>(Len(out) = MaxRecords)

=============================================================================
