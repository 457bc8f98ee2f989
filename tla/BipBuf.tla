------------------------------- MODULE BipBuf -------------------------------
(***************************************************************************)
(* coypu::buf::BipBuf: the circular buffer between a socket and the        *)
(* protocol managers (web socket, HTTP/2, protobuf, admin).                *)
(*                                                                         *)
(* Every connection has two.  The input buffer is filled by readv and      *)
(* emptied by the parsers; the output buffer is filled by the program and  *)
(* emptied by writev.  A byte is represented by its position in the stream *)
(* (the n-th byte put in is n, from 0), so that a byte that is lost, read  *)
(* twice or read where nothing was written shows.                          *)
(*                                                                         *)
(* A call the code refuses with an early return (more bytes than are there *)
(* or than fit, none at all, readv on a full buffer) changes nothing and   *)
(* is left out.                                                            *)
(***************************************************************************)
EXTENDS Integers, Sequences

CONSTANTS
  Cap,       \* _capacity
  MaxByte    \* bound on the number of bytes ever put in

ASSUME BipBufAssumption == Cap \in Nat \ {0} /\ MaxByte \in Nat

VARIABLES
  role,      \* "in" or "out": which of a connection's two buffers this is
  head,      \* _head: where the next byte goes
  tail,      \* _tail: where the oldest byte is
  full,      \* _full
  data,      \* _data
  lent,      \* size of the region the last call lent to a zero copy stream, else 0
  sent,      \* history: number of bytes put in
  got,       \* history: the bytes taken out
  status     \* "open", or the call that ended the connection

vars == <<role, head, tail, full, data, lent, sent, got, status>>

TypeOK ==
  /\ role \in {"in", "out"}
  /\ head \in 0 .. Cap
  /\ tail \in 0 .. Cap
  /\ full \in BOOLEAN
  /\ data \in [0 .. Cap - 1 -> Int]
  /\ lent \in 0 .. Cap
  /\ sent \in Nat
  /\ got \in Seq(Int)
  /\ status \in {"open", "negative", "einval"}

Init ==
  /\ role \in {"in", "out"}
  /\ head = 0 /\ tail = 0 /\ full = FALSE
  /\ data = [i \in 0 .. Cap - 1 |-> -1]
  /\ lent = 0
  /\ sent = 0
  /\ got = <<>>
  /\ status = "open"
-----------------------------------------------------------------------------
Available ==
  IF full THEN Cap
  ELSE IF head >= tail THEN head - tail
  ELSE Cap - (tail - head)

Free == Cap - Available

IsEmpty == head = tail /\ ~full

Least(a, b) == IF a <= b THEN a ELSE b

\* An index that has reached the end starts again.
Wrapped(i) == IF i = Cap THEN 0 ELSE i

\* The k-th cell from index i on, over the end of the array.
Cell(i, k) == IF i + k < Cap THEN i + k ELSE i + k - Cap

\* The array with the next n bytes of the stream stored from index i on.
Stored(i, n) ==
  [c \in 0 .. Cap - 1 |->
     IF c >= i /\ c < i + n THEN sent + (c - i)
     ELSE IF c + Cap >= i /\ c + Cap < i + n THEN sent + (c + Cap - i)
     ELSE data[c]]

\* The next n bytes, as they lie in the array from the tail on.
Taken(n) == [k \in 1 .. n |-> data[Cell(tail, k - 1)]]

\* Wrong variant of Peak: one cell too many before the end of the array.
PeakPastEnd(k) ==
  IF head > tail \/ k <= Cap - tail THEN data[Least(tail + k, Cap - 1)]
  ELSE data[k - (Cap - tail)]

\* Peak(offset, d)
Peak(k) ==
  IF head > tail \/ k < Cap - tail THEN data[tail + k] ELSE data[k - (Cap - tail)]

\* Find(d, offset): the offsets at which the scan over the array meets d.
Scanned == 0 .. (IF head > tail THEN head - tail ELSE Cap - tail + head) - 1

FindAt(d) == {k \in Scanned : ~IsEmpty /\ Peak(k) = d}

(***************************************************************************)
(* Filling the output buffer.                                              *)
(***************************************************************************)
Filling(n) == role = "out" /\ status = "open" /\ ~full /\ sent + n <= MaxByte

\* What filling with n bytes from the head on does apart from the indices.
Put(n, loan) ==
  /\ data' = Stored(head, n)
  /\ sent' = sent + n
  /\ full' = (head' = tail)
  /\ lent' = loan
  /\ UNCHANGED <<role, tail, got, status>>

\* Wrong variant of Push1: the end of the array is looked for by the next call.
Push1NoWrap ==
  /\ Filling(1)
  /\ head' = head + 1
  /\ Put(1, 0)

\* Push(indata)
Push1 ==
  /\ Filling(1)
  /\ head' = Wrapped(head + 1)
  /\ Put(1, 0)

\* Push(indata, size): up to the end of the array, then from its start.
PushN(n) ==
  /\ Filling(n) /\ n <= Free
  /\ IF head >= tail /\ head < Cap
     THEN LET x == Least(n, Cap - head)
          IN  head' = Wrapped(head + x) + (n - x)
     ELSE head' = head + n
  /\ Put(n, 0)

\* PushDirect: lends the whole free region up to the end or up to the tail, which
\* counts as filled until BackupDirect returns what was not used.
PushDirect ==
  LET n == IF head >= tail THEN Cap - head ELSE tail - head
  IN  /\ Filling(n)
      /\ head' = IF head >= tail THEN Wrapped(head + n) ELSE head + n
      /\ Put(n, n)

BackupDirect(n) ==
  /\ role = "out" /\ status = "open" /\ n <= lent /\ n <= Available
  /\ head' = IF head > tail THEN head - n
             ELSE LET r == Least(head, n) IN IF n > r THEN Cap - (n - r) ELSE head - r
  /\ full' = FALSE
  /\ lent' = 0
  /\ sent' = sent - n
  /\ UNCHANGED <<role, tail, data, got, status>>
-----------------------------------------------------------------------------
(***************************************************************************)
(* Emptying the output buffer: the kernel takes n of the bytes offered.    *)
(***************************************************************************)
Emptying(n) == role = "out" /\ status = "open" /\ n <= Available

Get(n) ==
  /\ got' = got \o Taken(n)
  /\ full' = FALSE
  /\ lent' = 0
  /\ UNCHANGED <<role, head, data, sent, status>>

\* Wrong variant of Writev: the tail is not moved back to the start of the array.
WritevNoWrap(n) ==
  /\ Emptying(n) /\ (head > tail \/ head > 0)
  /\ tail' = tail + n
  /\ Get(n)

\* Writev offers the stored bytes as one region, or as two when they run over the end
\* of the array.
Writev(n) ==
  /\ Emptying(n) /\ (head > tail \/ head > 0)
  /\ tail' = IF head > tail \/ n <= Cap - tail THEN Wrapped(tail + n)
             ELSE n - (Cap - tail)
  /\ Get(n)

\* Wrong variant of WritevFails: a region of no bytes is offered, again and again.
WritevOffersNothing ==
  /\ Emptying(1) /\ head = 0
  /\ UNCHANGED vars

\* When the stored bytes end at the end of the array, the length offered is
\* _tail - _capacity: writev fails with EINVAL and the connection is closed.
WritevFails ==
  /\ Emptying(1) /\ head = 0
  /\ status' = "einval"
  /\ lent' = 0
  /\ UNCHANGED <<role, head, tail, full, data, sent, got>>

\* Write: one region, up to the head or up to the end of the array.
Write(n) ==
  /\ Emptying(n) /\ n <= (IF head > tail THEN head ELSE Cap) - tail
  /\ tail' = Wrapped(tail + n)
  /\ Get(n)
-----------------------------------------------------------------------------
(***************************************************************************)
(* Filling the input buffer: the kernel returns n of the bytes asked for.  *)
(***************************************************************************)
Receiving(n) == role = "in" /\ status = "open" /\ ~full /\ sent + n <= MaxByte

Receive(n) ==
  /\ data' = Stored(head, n)
  /\ sent' = sent + n
  /\ full' = (head' = tail)
  /\ lent' = 0
  /\ UNCHANGED <<role, tail, got, status>>

\* Wrong variant of Readv: bytes beyond the end of the array are not moved to its start.
ReadvOneRegion(n) ==
  /\ Receiving(n) /\ n <= Free
  /\ head' = Least(head + n, Cap)
  /\ Receive(n)

(***************************************************************************)
(* Readv: one region before the tail; one, the whole array, when both      *)
(* indices are 0 (the head may then come to rest at Cap); otherwise two.   *)
(***************************************************************************)
Readv(n) ==
  /\ Receiving(n) /\ n <= Free
  /\ head' = IF tail > head \/ (head = 0 /\ tail = 0) \/ n < Cap - head
             THEN head + n ELSE n - (Cap - head)
  /\ Receive(n)

\* Read: one region, up to the tail or up to the end of the array.
Read(n) ==
  /\ Receiving(n) /\ n <= (IF tail > head THEN tail ELSE Cap) - head
  /\ head' = head + n
  /\ Receive(n)
-----------------------------------------------------------------------------
(***************************************************************************)
(* Emptying the input buffer.                                              *)
(***************************************************************************)
Parsing(n) == role = "in" /\ status = "open" /\ n <= Available

\* The bytes run over the end of the array, or may do so.
TwoParts == tail > head \/ full

\* The size of the first part, and the tail after it.
Part(n)      == Least(n, Cap - tail)
AfterPart(n) == Wrapped(tail + Part(n))
TailAfter(n) == IF TwoParts THEN AfterPart(n) + (n - Part(n)) ELSE tail + n

Pop(n) ==
  /\ Parsing(n)
  /\ tail' = TailAfter(n)
  /\ Get(n)

\* PopAll when the callback refuses the second part: the first is gone.
PopAllRefused(n) ==
  /\ Parsing(n) /\ TwoParts /\ n > Part(n)
  /\ tail' = AfterPart(n)
  /\ Get(Part(n))

\* PopAll when the callback takes all it is given.
PopAll(n) ==
  /\ Parsing(n)
  /\ tail' = TailAfter(n)
  /\ Get(n)

Skip(n) ==
  /\ Parsing(n)
  /\ tail' = TailAfter(n)
  /\ Get(n)

(***************************************************************************)
(* Direct lends the stored bytes to a zero copy stream as one region.  If  *)
(* they run over the end of the array and do not fill it, the size is      *)
(* computed as _head - _tail, which is negative: protobuf aborts.          *)
(***************************************************************************)
Direct ==
  LET n == (IF head > tail THEN head ELSE Cap) - tail
  IN  /\ Parsing(0) /\ ~IsEmpty
      /\ head > tail \/ full
      /\ tail' = IF head > tail THEN head ELSE 0
      /\ got' = got \o Taken(n)
      /\ full' = FALSE
      /\ lent' = n
      /\ UNCHANGED <<role, head, data, sent, status>>

DirectNegative ==
  /\ Parsing(0) /\ tail > head
  /\ tail' = 0
  /\ status' = "negative"
  /\ lent' = 0
  /\ UNCHANGED <<role, head, full, data, sent, got>>

\* Wrong variant of Backup: the bytes put back may fill the buffer unnoticed.
BackupNotFull(n) ==
  /\ role = "in" /\ status = "open" /\ n <= lent /\ n <= Free
  /\ tail' = IF head < tail \/ n <= tail THEN tail - n ELSE Cap - (n - tail)
  /\ got' = SubSeq(got, 1, Len(got) - n)
  /\ lent' = 0
  /\ UNCHANGED <<role, head, full, data, sent, status>>

\* Backup: the last n bytes lent were not used.
Backup(n) ==
  /\ role = "in" /\ status = "open" /\ n <= lent /\ n <= Free
  /\ ~full
  /\ head < tail => n <= tail - head
  /\ IF head < tail
     THEN tail' = tail - n /\ full' = (tail' = head)
     ELSE IF n <= tail
     THEN tail' = tail - n /\ UNCHANGED full
     ELSE tail' = Cap - (n - tail) /\ full' = (tail' = head)
  /\ got' = SubSeq(got, 1, Len(got) - n)
  /\ lent' = 0
  /\ UNCHANGED <<role, head, data, sent, status>>

\* The connection, and the buffer with it, is gone; or the bound is reached.
Ended == (status # "open" \/ sent = MaxByte) /\ UNCHANGED vars

Next ==
  \/ Push1 \/ PushDirect \/ WritevFails \/ Direct \/ DirectNegative \/ Ended
  \/ \E n \in 1 .. Cap :
       \/ PushN(n) \/ BackupDirect(n) \/ Writev(n) \/ Write(n)
       \/ Readv(n) \/ Read(n)
       \/ Pop(n) \/ PopAll(n) \/ PopAllRefused(n) \/ Skip(n) \/ Backup(n)

Spec == Init /\ [][Next]_vars

\* EPOLLOUT stays set, and the write callback is called, until the buffer is empty.
FairSpec == Spec /\ WF_vars(WritevFails \/ \E n \in 1 .. Cap : Writev(n))
-----------------------------------------------------------------------------
(***************************************************************************)
(* The indices and the flag always describe the very bytes that were put   *)
(* in and not yet taken out, in order, however the calls wrap around the   *)
(* array (buf.h:51-55 and the index arithmetic of every operation).  A     *)
(* connection that ended on a negative size is excepted: Direct has moved  *)
(* the tail.                                                               *)
(***************************************************************************)
Contents ==
  status # "negative" =>
    /\ sent = Len(got) + Available
    /\ \A k \in 0 .. Available - 1 : data[Cell(tail, k)] = Len(got) + k

(***************************************************************************)
(* The program's side of the output buffer never writes past the array:    *)
(* Push stores at _data[_head] before it looks at the end (buf.h:114).     *)
(***************************************************************************)
OutputInBounds == role = "out" => head < Cap /\ tail < Cap

(***************************************************************************)
(* Peak and Find see what Pop would return: the k-th byte to come, and its *)
(* offset, with two different ways of wrapping (buf.h:70-109).             *)
(***************************************************************************)
PeekAgrees ==
  status # "negative" =>
    \A k \in 0 .. Available - 1 :
      /\ Peak(k) = Len(got) + k
      /\ FindAt(Len(got) + k) = {k}

(***************************************************************************)
(* All three: no sequence of calls leaves an index where the bytes are     *)
(* not, or outside of the array, or has a parser search other bytes than   *)
(* it reads.                                                               *)
(***************************************************************************)
Intact == Contents /\ OutputInBounds /\ PeekAgrees

(***************************************************************************)
(* The buffer implements ByteQueue: what comes out is what went in, in     *)
(* order, and there are never more than Cap bytes in between.              *)
(***************************************************************************)
Queue == INSTANCE ByteQueue

IsByteQueue == Queue!Spec

(***************************************************************************)
(* Every byte the program leaves in the output buffer is written, unless   *)
(* the connection is closed (Writev never offers nothing, buf.h:297-344).  *)
(***************************************************************************)
OutputDrains ==
  \A k \in 1 .. MaxByte :
    (role = "out" /\ sent >= k) ~> (Len(got) >= k \/ sent < k \/ status # "open")
-----------------------------------------------------------------------------
(***************************************************************************)
(* protomgr.h:147-149 asserts that a message all of whose bytes are in the *)
(* input buffer is parsed to its end.  It is not when the message runs     *)
(* over the end of the array.                                              *)
(***************************************************************************)
MessageIsParsed == status # "negative"
=============================================================================
