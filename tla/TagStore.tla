------------------------------ MODULE TagStore ------------------------------
(***************************************************************************)
(* coypu::cache::TagStore: the table of product names whose index is the   *)
(* tag id, kept in a file that is read back when the program starts.       *)
(*                                                                         *)
(* A record is the length of the name and the name.  Records are pushed    *)
(* into a LogWriteBuf, which maps one page of the file at a time, extends  *)
(* the file by a page when that one is full, and is positioned by Restore. *)
(* The file, being mapped, outlives the process; the process may be killed *)
(* at any time, also in the middle of a record.                            *)
(*                                                                         *)
(* The ids go into other files (the tag of every published record), so an  *)
(* id must stand for the same name for ever.                               *)
(***************************************************************************)
EXTENDS Integers, Sequences

CONSTANTS
  PageSize,    \* _pageSize
  LenSize,     \* sizeof(size_t)
  MaxTag,      \* MAX_TAG_LEN
  Tag,         \* names, as sequences of bytes
  MaxSize      \* room for the file on the disk

ASSUME TagStoreAssumption ==
  /\ {PageSize, LenSize} \subseteq Nat \ {0}
  /\ {MaxTag, MaxSize} \subseteq Nat
  /\ \A t \in Tag : t \in Seq(Nat \ {0}) /\ Len(t) \in 1 .. MaxTag

VARIABLES
  disk,      \* the file: the byte at every offset
  size,      \* its size
  mode,      \* "down", "restore", "run", or "bus": killed by SIGBUS
  page,      \* _dataPage: the offset of the page that is mapped, None if there is none
  pos,       \* _dataPage: where in the page the next byte goes
  next,      \* _offset: where AllocatePage maps the next page
  off,       \* off: how far Restore has read
  tags,      \* _tags: the name of every id, the id n at n + 1
  cur,       \* the name Append is pushing, <<>> if none
  todo,      \* what is left to be copied of its record
  issued,    \* history: the names and the ids handed out for them
  harm       \* history: what has befallen the file

vars == <<disk, size, mode, page, pos, next, off, tags, cur, todo, issued, harm>>

None == -1
Byte == 0 .. MaxSize - 1     \* an offset of the file

(***************************************************************************)
(* What may befall the file: "torn", a kill in the middle of a record;     *)
(* "failed", a page could not be had for the rest of a record; "gap",      *)
(* Restore gave up on fewer bytes than a length has; "remapped",           *)
(* AllocatePage mapped a page that was in use and starts it again.         *)
(***************************************************************************)
Harm == {"torn", "failed", "gap", "remapped"}

TypeOK ==
  /\ disk \in [Byte -> Nat]
  /\ size \in 0 .. MaxSize
  /\ mode \in {"down", "restore", "run", "bus"}
  /\ page \in Byte \cup {None}
  /\ pos \in 0 .. PageSize
  /\ next \in 0 .. MaxSize
  /\ off \in 0 .. MaxSize
  /\ tags \in Seq(Seq(Nat))
  /\ cur \in Tag \cup {<<>>}
  /\ todo \in Seq(Nat)
  /\ issued \subseteq Tag \X Nat
  /\ harm \subseteq Harm
  /\ page # None => page + PageSize <= size

Init ==
  /\ disk = [o \in Byte |-> 0]
  /\ size = 0
  /\ mode = "down"
  /\ page = None /\ pos = 0 /\ next = 0
  /\ off = 0
  /\ tags = <<>>
  /\ cur = <<>> /\ todo = <<>>
  /\ issued = {}
  /\ harm = {}
-----------------------------------------------------------------------------
Least(a, b) == IF a <= b THEN a ELSE b

\* A length as it lies in memory, lowest byte first; it fits the first byte.
Length(l) == [i \in 1 .. LenSize |-> IF i = 1 THEN l ELSE 0]

Record(t) == Length(Len(t)) \o t

\* The length read at o; anything in a higher byte makes it greater than MaxTag.
LenAt(o) == IF \A i \in 1 .. LenSize - 1 : disk[o + i] = 0 THEN disk[o] ELSE MaxTag + 1

\* The name read at o.
NameAt(o, l) == [i \in 1 .. l |-> disk[o + i - 1]]
-----------------------------------------------------------------------------
(***************************************************************************)
(* Start-up: CreateSimpleBuf opens the file as it is, Restore reads it.    *)
(***************************************************************************)
Start ==
  /\ mode = "down"
  /\ mode' = "restore"
  /\ next' = size
  /\ off' = 0
  /\ UNCHANGED <<disk, size, page, pos, tags, cur, todo, issued, harm>>

\* The loop of Restore ends at the end of the file or on a length of 0.
AtEnd == off = size \/ (off + LenSize <= size /\ LenAt(off) = 0)

\* A length that may be one was read.
HasLength == off + LenSize <= size /\ LenAt(off) <= MaxTag

\* Wrong variant of SetPosition: the position is not taken modulo the page.
SetPositionAbsolute(o) ==
  /\ next' = (o \div PageSize) * PageSize
  /\ size' = IF next' = size THEN size + PageSize ELSE size
  /\ page' = next'
  /\ pos' = o

\* Wrong variant of SetPosition: the position within the page is lost.
SetPositionOfPage(o) ==
  /\ next' = (o \div PageSize) * PageSize
  /\ size' = IF next' = size THEN Least(size + PageSize, MaxSize) ELSE size
  /\ page' = IF next' + PageSize <= MaxSize THEN next' ELSE None
  /\ pos' = 0

\* SetPosition(o): map the page o is in; the next page to allocate stays that one.
SetPosition(o) ==
  /\ next' = (o \div PageSize) * PageSize
  /\ IF next' = size /\ size + PageSize > MaxSize
     THEN UNCHANGED <<size, page, pos>>
     ELSE /\ size' = IF next' = size THEN size + PageSize ELSE size
          /\ page' = next'
          /\ pos' = o % PageSize

\* Wrong variant of RestoreEnds: new records are put after the end of the file.
RestoreEndsAtSize ==
  /\ mode = "restore" /\ AtEnd
  /\ mode' = "run"
  /\ UNCHANGED <<disk, size, page, pos, next, off, tags, cur, todo, issued, harm>>

RestoreEnds ==
  /\ mode = "restore" /\ AtEnd
  /\ SetPosition(off)
  /\ mode' = "run"
  /\ UNCHANGED <<disk, off, tags, cur, todo, issued, harm>>

\* Restore returns false, which main ignores: no page is mapped, and new records go
\* to the end of the file.
RestoreGivesUp ==
  /\ mode = "restore" /\ ~AtEnd /\ ~HasLength
  /\ harm' = IF off + LenSize > size THEN harm \cup {"gap"} ELSE harm
  /\ mode' = "run"
  /\ UNCHANGED <<disk, size, page, pos, next, off, tags, cur, todo, issued>>

\* One record is read; ids are given in the order of the file.
RestoreRecord ==
  /\ mode = "restore" /\ ~AtEnd /\ HasLength
  /\ off + LenSize + LenAt(off) <= size
  /\ tags' = Append(tags, NameAt(off + LenSize, LenAt(off)))
  /\ off' = off + LenSize + LenAt(off)
  /\ UNCHANGED <<disk, size, mode, page, pos, next, cur, todo, issued, harm>>

\* The name would end beyond the file: Pop copies from a mapping that has no file
\* behind it.  The next start would do the same.
RestoreBeyondFile ==
  /\ mode = "restore" /\ ~AtEnd /\ HasLength
  /\ off + LenSize + LenAt(off) > size
  /\ mode' = "bus"
  /\ UNCHANGED <<disk, size, page, pos, next, off, tags, cur, todo, issued, harm>>
-----------------------------------------------------------------------------
(***************************************************************************)
(* GetOrCreateTag(t): a name that is known is found, any other appended.   *)
(***************************************************************************)
Positions(t) == {i \in 1 .. Len(tags) : tags[i] = t}

Idle == mode = "run" /\ cur = <<>>

\* The first of several equal names is the one in _tagToId.
FindTag(t) ==
  /\ Idle
  /\ \E i \in Positions(t) :
       /\ \A j \in Positions(t) : i <= j
       /\ issued' = issued \cup {<<t, i - 1>>}
  /\ UNCHANGED <<disk, size, mode, page, pos, next, off, tags, cur, todo, harm>>

\* Wrong variant of AppendTag: the length counts itself.
AppendTagAndLength(t) ==
  /\ Idle /\ Positions(t) = {}
  /\ cur' = t
  /\ todo' = Length(Len(t) + LenSize) \o t
  /\ UNCHANGED <<disk, size, mode, page, pos, next, off, tags, issued, harm>>

\* Append(t) begins: the length and the name are to be pushed.
AppendTag(t) ==
  /\ Idle /\ Positions(t) = {}
  /\ cur' = t
  /\ todo' = Record(t)
  /\ UNCHANGED <<disk, size, mode, page, pos, next, off, tags, issued, harm>>

NeedsPage == mode = "run" /\ cur # <<>> /\ (page = None \/ pos = PageSize)

\* Push, AllocatePage: the file is given the size it has with this page, longer or
\* shorter than before.
AllocatePage ==
  /\ NeedsPage
  /\ next + PageSize <= MaxSize
  /\ size' = next + PageSize
  /\ disk' = [o \in Byte |-> IF o < size' THEN disk[o] ELSE 0]
  /\ page' = next
  /\ pos' = 0
  /\ next' = next + PageSize
  /\ harm' = IF next < size THEN harm \cup {"remapped"} ELSE harm
  /\ UNCHANGED <<mode, off, tags, cur, todo, issued>>

\* The file cannot be extended: Append returns false, what was copied stays.
AllocatePageFails ==
  /\ NeedsPage
  /\ harm' = IF todo # Record(cur) THEN harm \cup {"failed"} ELSE harm
  /\ cur' = <<>> /\ todo' = <<>>
  /\ UNCHANGED <<disk, size, mode, page, pos, next, off, tags, issued>>

\* Push, memcpy: at most up to the end of the page.  With the last byte Append gives
\* the name the next id.
Copy(n) ==
  /\ mode = "run" /\ cur # <<>> /\ page # None
  /\ n <= Least(Len(todo), PageSize - pos)
  /\ disk' = [o \in Byte |->
                IF o >= page + pos /\ o < page + pos + n THEN todo[o - (page + pos) + 1]
                ELSE disk[o]]
  /\ pos' = pos + n
  /\ todo' = SubSeq(todo, n + 1, Len(todo))
  /\ IF n = Len(todo)
     THEN /\ tags' = Append(tags, cur)
          /\ issued' = issued \cup {<<cur, Len(tags)>>}
          /\ cur' = <<>>
     ELSE UNCHANGED <<tags, issued, cur>>
  /\ UNCHANGED <<size, mode, page, next, off, harm>>

\* The process is killed.
Kill ==
  /\ mode \in {"restore", "run"}
  /\ mode' = "down"
  /\ page' = None /\ pos' = 0 /\ next' = 0
  /\ off' = 0
  /\ tags' = <<>>
  /\ cur' = <<>> /\ todo' = <<>>
  /\ harm' = IF cur # <<>> /\ todo # Record(cur) THEN harm \cup {"torn"} ELSE harm
  /\ UNCHANGED <<disk, size, issued>>

Dead == mode = "bus" /\ UNCHANGED vars

Next ==
  \/ Start \/ RestoreEnds \/ RestoreGivesUp \/ RestoreRecord \/ RestoreBeyondFile
  \/ \E t \in Tag : FindTag(t) \/ AppendTag(t)
  \/ AllocatePage \/ AllocatePageFails
  \/ \E n \in 1 .. PageSize : Copy(n)
  \/ Kill \/ Dead

Spec == Init /\ [][Next]_vars
-----------------------------------------------------------------------------
(***************************************************************************)
(* An id stands for the name it was handed out for, over any number of     *)
(* starts and kills, a record cut short by a kill included, unless a page  *)
(* could not be had, Restore gave up or a page was mapped over again       *)
(* (TagStore::Restore, LogWriteBuf::SetPosition, store.h:101-146).          *)
(***************************************************************************)
TagsKept ==
  mode = "run" /\ harm \subseteq {"torn"} =>
    \A h \in issued : h[2] < Len(tags) /\ tags[h[2] + 1] = h[1]

(***************************************************************************)
(* The store only ever appends: what lies in the file is not overwritten,  *)
(* wherever Restore has put the position (store.h:31-49, 109-146).         *)
(***************************************************************************)
AppendOnly ==
  [][harm' \subseteq {"torn"} => \A o \in Byte : disk[o] # 0 => disk'[o] = disk[o]]_vars

(***************************************************************************)
(* The program can start on its file again, unless a record had been cut   *)
(* short or a page mapped over again (Pop reads past the end of the file). *)
(***************************************************************************)
StartsAgain == mode = "bus" => harm # {}
-----------------------------------------------------------------------------
(***************************************************************************)
(* test/cache/testcases.cpp (TagTest4) appends, restores, appends, restores *)
(* and finds every tag.  As SetPosition leaves _offset on the page it maps, *)
(* the first page filled after a restart is mapped once more, from its     *)
(* start, and its records are overwritten.                                 *)
(***************************************************************************)
RestoreFindsAll ==
  mode = "run" => \A h \in issued : h[2] < Len(tags) /\ tags[h[2] + 1] = h[1]
=============================================================================
