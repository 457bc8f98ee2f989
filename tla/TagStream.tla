----------------------------- MODULE TagStream ------------------------------
(***************************************************************************)
(* coypu::cache::TagStream: records that say where in a stream the bytes   *)
(* of a tag are, kept in a file of their own (TagOffsetStore), and readers *)
(* that are woken for the tags they subscribed to and are sent the bytes   *)
(* of the matching records from any position on.                           *)
(*                                                                         *)
(* The wake-up goes by way of an eventfd: Queue sets its write bit, Write  *)
(* raises its counter, Read goes through the new records.  The program     *)
(* queues records (Ticker) and has no readers yet: readers are modelled    *)
(* from the class and its tests.  A socket that fails, and closes its      *)
(* reader, is EventMgr's.                                                  *)
(*                                                                         *)
(* Positions in the file are counted in records, positions in the stream   *)
(* in bytes.                                                               *)
(***************************************************************************)
EXTENDS Integers, FiniteSets, SequencesExt

CONSTANTS
  Fd,             \* descriptors of the readers, greater than 0
  Tag,            \* tags readers subscribe to
  RecordSize,     \* sizeof(Tag)
  RecordsPerPage, \* page size / sizeof(Tag)
  MaxRecordCount, \* records Read goes through in one call
  MaxFDCount,     \* records StreamWrite goes through in one call
  MaxRoom         \* bound on what a socket takes in one call

ASSUME TagStreamAssumption ==
  /\ Fd \subseteq Nat \ {0}
  /\ RecordSize \in Nat \ {0} /\ RecordsPerPage \in Nat \ {0}
  /\ MaxRecordCount \in Nat \ {0} /\ MaxFDCount \in Nat \ {0} /\ MaxRoom \in Nat \ {0}

VARIABLES
  log,      \* the records in the file of _offsetStore
  offset,   \* the length of the stream the records point into
  next,     \* the position up to which Read went through the records
  readable, \* the eventfd's counter is not 0
  armed,    \* the descriptors whose write bit is set
  reader,   \* _fds: the FDData of each descriptor
  sent,     \* history: the bytes of the stream sent to a reader since its Start
  hung      \* the descriptor whose StreamWrite never returns, or 0

tagVars == <<log, offset, next, readable, armed, reader, sent, hung>>

EventFd == 0

\* from and subs's positions are history: the position of Start, and for each tag
\* the positions of the reader and of Read at the time of the subscription.
NoReader == [state |-> "none", start |-> 0, current |-> 0, written |-> 0, tag |-> <<>>,
             subs |-> <<>>, from |-> 0]

TagInit(records) ==
  /\ log = records /\ next = Len(records)
  /\ offset = 0 /\ readable = FALSE /\ armed = {}
  /\ reader = [fd \in Fd |-> NoReader]
  /\ sent = [fd \in Fd |-> <<>>]
  /\ hung = 0

TagTypeOK ==
  /\ next \in 0 .. Len(log) /\ offset \in Nat
  /\ readable \in BOOLEAN /\ armed \subseteq Fd \cup {EventFd} /\ hung \in Fd \cup {0}
  /\ \A fd \in Fd :
       /\ reader[fd].state \in {"none", "registered", "started"}
       /\ reader[fd].current \in 0 .. Len(log) /\ reader[fd].from \in 0 .. Len(log)
       /\ DOMAIN reader[fd].subs \subseteq Tag

Runs == hung = 0
-----------------------------------------------------------------------------
(***************************************************************************)
(* A record is [tag, fd, persistent, offset, len].  The stream of all is   *)
(* registered: a record of another one is passed over like one of a tag    *)
(* nobody subscribed to.  The rest of the last page is read as Blank       *)
(* records by the next run.                                                *)
(***************************************************************************)
Blank == [tag |-> 0, fd |-> 0, persistent |-> FALSE, offset |-> 0, len |-> 0]

Record(k) == [tag |-> k.tag, fd |-> k.fd, persistent |-> k.persistent, offset |-> offset,
              len |-> k.len]

Padded(records) ==
  records \o [i \in 1 .. (-Len(records)) % RecordsPerPage |-> Blank]

\* Queue, after the bytes were written to the stream.
Queue(k) ==
  /\ log' = Append(log, Record(k)) /\ offset' = offset + k.len
  /\ armed' = armed \cup {EventFd}
  /\ UNCHANGED <<next, readable, reader, sent, hung>>

\* Write: TotalAvailable is added to the counter, the write bit is cleared.
Write ==
  /\ Runs /\ EventFd \in armed
  /\ readable' = (readable \/ Len(log) > 0)
  /\ armed' = armed \ {EventFd}
  /\ UNCHANGED <<log, offset, next, reader, sent, hung>>

\* Whose write bit Read sets for a record: that of the readers of its tag, and for
\* a record meant for one descriptor (_fd) its own, the eventfd's.
Woken(r) ==
  IF r.fd > 0 THEN {EventFd}
  ELSE {fd \in Fd : reader[fd].state = "started" /\ r.tag \in DOMAIN reader[fd].subs}

\* Wrong variant of Read: what is left after MaxRecordCount waits for the next Queue.
ReadForgetsRest ==
  /\ Runs /\ readable
  /\ LET last == Min({next + MaxRecordCount, Len(log)})
     IN /\ next' = last
        /\ armed' = armed \cup (UNION {Woken(log[i]) : i \in next + 1 .. last})
  /\ readable' = FALSE
  /\ UNCHANGED <<log, offset, reader, sent, hung>>

\* Read.
Read ==
  /\ Runs /\ readable
  /\ LET last == Min({next + MaxRecordCount, Len(log)})
     IN /\ next' = last
        /\ armed' = armed \cup (UNION {Woken(log[i]) : i \in next + 1 .. last})
                          \cup (IF last < Len(log) THEN {EventFd} ELSE {})
  /\ readable' = FALSE
  /\ UNCHANGED <<log, offset, reader, sent, hung>>
-----------------------------------------------------------------------------
\* Register.
Register(fd) ==
  /\ Runs /\ reader[fd].state = "none"
  /\ reader' = [reader EXCEPT ![fd] = [NoReader EXCEPT !.state = "registered",
                                                       !.start = RecordSize * Len(log)]]
  /\ UNCHANGED <<log, offset, next, readable, armed, sent, hung>>

Subscribe(fd, t) ==
  /\ Runs /\ reader[fd].state # "none" /\ t \notin DOMAIN reader[fd].subs
  /\ reader' = [reader EXCEPT ![fd].subs =
                  [u \in DOMAIN @ \cup {t} |->
                     IF u = t THEN [reader |-> reader[fd].current, read |-> next] ELSE @[u]]]
  /\ UNCHANGED <<log, offset, next, readable, armed, sent, hung>>

\* Start, from the p-th record on.  Each reader is started once, as in the tests.
Start(fd, p) ==
  /\ Runs /\ reader[fd].state = "registered" /\ p \in 0 .. Len(log)
  /\ reader' = [reader EXCEPT
       ![fd].state = "started", ![fd].current = p, ![fd].from = p,
       ![fd].subs = [t \in DOMAIN @ |-> [reader |-> p, read |-> 0]]]
  /\ armed' = armed \cup {fd}
  /\ UNCHANGED <<log, offset, next, readable, sent, hung>>

(***************************************************************************)
(* StreamWrite, one turn of its loop over y: d is the reader, room what    *)
(* the socket still takes, bytes what it was given, count the records done *)
(* and ret the result, "none" as long as the loop goes on.                 *)
(***************************************************************************)
Interested(fd, d, r) == r.fd = fd \/ r.tag \in DOMAIN d.subs

\* Wrong variant of Advanced: the position moves on by the bytes sent.
AdvancedByBytes(y) ==
  [y EXCEPT !.d.current = @ + Max({1, y.d.tag.len}), !.d.written = 0, !.count = @ + 1]

Advanced(y) == [y EXCEPT !.d.current = @ + 1, !.d.written = 0, !.count = @ + 1]

\* Wrong variant of Given: the bytes written are not forgotten with the record.
GivenKeeps(y) ==
  LET r == y.d.tag
      x == Min({r.len - y.d.written, y.room})
      z == [y EXCEPT !.room = @ - x,
                     !.bytes = @ \o [i \in 1 .. x |-> r.offset + y.d.written + i]]
  IN IF y.d.written + x = r.len THEN [z EXCEPT !.d.current = @ + 1, !.count = @ + 1]
     ELSE [z EXCEPT !.d.written = @ + x, !.ret = "more"]

\* The stream's callback is given what is left of the current record.
Given(y) ==
  LET r == y.d.tag
      x == Min({r.len - y.d.written, y.room})
      z == [y EXCEPT !.room = @ - x,
                     !.bytes = @ \o [i \in 1 .. x |-> r.offset + y.d.written + i]]
  IN IF y.d.written + x = r.len THEN Advanced(z)
     ELSE [z EXCEPT !.d.written = @ + x, !.ret = "more"]

(***************************************************************************)
(* An ephemeral record whose bytes are before the start of the reader is   *)
(* skipped by `continue', without a step forward.  The start is compared   *)
(* with an offset of the stream and is a size of the file of records.      *)
(***************************************************************************)
Turn(fd, y) ==
  IF y.ret # "none" THEN y
  ELSE IF y.count = MaxFDCount \/ y.d.current >= Len(log)
  THEN [y EXCEPT !.ret = IF y.d.current = Len(log) THEN "done" ELSE "more"]
  ELSE IF y.d.written > 0 THEN Given(y)
  ELSE LET r == log[y.d.current + 1]
           z == [y EXCEPT !.d.tag = r]
       IN IF ~r.persistent /\ r.offset < y.d.start THEN [z EXCEPT !.ret = "hangs"]
          ELSE IF Interested(fd, y.d, r) THEN Given(z)
          ELSE Advanced(z)

\* What n turns lead to, for every room the socket may have.
Turns(fd) ==
  LET turns[n \in 0 .. MaxFDCount + 1] ==
        IF n = 0 THEN {[d |-> reader[fd], room |-> r, bytes |-> <<>>, count |-> 0,
                        ret |-> "none"] : r \in 1 .. MaxRoom}
        ELSE {Turn(fd, y) : y \in turns[n - 1]}
  IN turns

StreamWrite(fd) ==
  /\ Runs /\ fd \in armed
  /\ \E y \in Turns(fd)[MaxFDCount + 1] :
       /\ reader' = [reader EXCEPT ![fd] = y.d]
       /\ sent' = [sent EXCEPT ![fd] = @ \o y.bytes]
       /\ armed' = IF y.ret = "done" THEN armed \ {fd} ELSE armed
       /\ hung' = IF y.ret = "hangs" THEN fd ELSE 0
  /\ UNCHANGED <<log, offset, next, readable>>

OnTags ==
  \/ Write \/ Read
  \/ \E fd \in Fd :
       \/ Register(fd) \/ StreamWrite(fd)
       \/ \E t \in Tag : Subscribe(fd, t)
       \/ \E p \in 0 .. Len(log) : Start(fd, p)

\* The loop keeps dispatching what epoll reports; a socket that keeps being read
\* by its peer stays writable.
TagFairness ==
  WF_tagVars(Write) /\ WF_tagVars(Read) /\ \A fd \in Fd : WF_tagVars(StreamWrite(fd))
-----------------------------------------------------------------------------
\* The records of a tag a reader passes after its subscription are its own, and
\* those meant for it.
Its(fd, i) ==
  LET r == log[i]  d == reader[fd]
  IN r.fd = fd \/ (r.tag \in DOMAIN d.subs /\ d.subs[r.tag].reader < i)

BytesOf(r, n) == [b \in 1 .. n |-> r.offset + b]

(***************************************************************************)
(* A reader is sent the bytes of its records from where it started, each   *)
(* once and in order, however the socket cuts them and whatever is queued  *)
(* and subscribed in between.                                              *)
(***************************************************************************)
Delivered ==
  \A fd \in Fd :
    LET d == reader[fd]
    IN d.state = "started" =>
         sent[fd] = FlattenSeq([n \in 1 .. d.current - d.from |->
                                  IF Its(fd, d.from + n) THEN BytesOf(log[d.from + n], log[d.from + n].len)
                                  ELSE <<>>])
                    \o (IF d.written > 0 THEN BytesOf(d.tag, d.written) ELSE <<>>)

\* Records still to come that a reader was subscribed to when Read passed them.
\* For a record meant for one descriptor Read does not wake that descriptor.
Owed(fd) ==
  {i \in reader[fd].current + 1 .. Len(log) :
     LET r == log[i]
     IN /\ r.fd <= 0 /\ r.tag \in DOMAIN reader[fd].subs
        /\ reader[fd].subs[r.tag].read < i}

(***************************************************************************)
(* In the end Read has gone through all records and no started reader has  *)
(* records of its tags to come, unless StreamWrite hangs on a record that  *)
(* is not persistent: one queued as such, one cut short by a kill, or the  *)
(* blank rest of a page of an older run.                                   *)
(***************************************************************************)
Excused == hung # 0 /\ ~log[reader[hung].current + 1].persistent

AllPlayed ==
  <>[](\/ Excused
       \/ /\ next = Len(log)
          /\ \A fd \in Fd : reader[fd].state = "started" => Owed(fd) = {} /\ reader[fd].written = 0)
=============================================================================
