--------------------------- MODULE TagStoreProofs ---------------------------
(***************************************************************************)
(* Proofs about TagStore, for any page size, size of a length, set of      *)
(* names and room on the disk.                                             *)
(***************************************************************************)
EXTENDS TagStore, SequenceTheorems, TLAPS

\* A file, and the place of the next page, are whole pages.
Whole(n) == \E k \in Nat : n = k * PageSize

Types == TypeOK /\ Whole(size) /\ Whole(next)

\* Nothing has befallen the file but kills.
Kept == harm \subseteq {"torn"}

(***************************************************************************)
(* The file holds n records.  The record i starts at s[i], and s[n + 1] is *)
(* where they end.                                                         *)
(***************************************************************************)
Records(n, s) ==
  /\ s[1] = 0 /\ s[n + 1] <= size
  /\ \A i \in 1 .. n :
       /\ LenAt(s[i]) \in 1 .. MaxTag
       /\ s[i + 1] = s[i] + LenSize + LenAt(s[i])
       /\ s[i + 1] <= s[n + 1]

Name(s, i) == NameAt(s[i] + LenSize, LenAt(s[i]))

\* The ids that were handed out are those of the records.
IdsAre(n, s) == \A h \in issued : h[2] < n /\ Name(s, h[2] + 1) = h[1]

Blank(e) == \A o \in Byte : o >= e => disk[o] = 0

\* What follows the records may be read as one more, or is blank.
OneMoreOrBlank(e) ==
  \A o \in Byte : o >= e /\ disk[o] # 0 =>
    /\ disk[e] \in 1 .. MaxTag
    /\ o = e \/ (o >= e + LenSize /\ o < e + LenSize + disk[e])

\* Restore has read the records up to off.
Restored(n, s) ==
  /\ next = size
  /\ Len(tags) <= n /\ off = s[Len(tags) + 1]
  /\ \A i \in 1 .. Len(tags) : tags[i] = Name(s, i)

\* How much of the record of cur has been copied.
Done == IF cur = <<>> THEN 0 ELSE Len(Record(cur)) - Len(todo)

\* The next byte goes behind the records and what there is of the one of cur.
Pushed(n, s) ==
  /\ Len(tags) = n /\ \A i \in 1 .. n : tags[i] = Name(s, i)
  /\ cur # <<>> => /\ Len(todo) \in 1 .. Len(Record(cur))
                   /\ \A i \in 1 .. Len(todo) : todo[i] = Record(cur)[Done + i]
                   /\ \A i \in 1 .. Done : disk[s[n + 1] + i - 1] = Record(cur)[i]
  /\ Blank(s[n + 1] + Done)
  /\ page = None => next = size /\ size + PageSize > MaxSize /\ Done = 0
  /\ page # None => next = page /\ page + pos = s[n + 1] + Done

File(n, s) ==
  /\ Records(n, s) /\ IdsAre(n, s)
  /\ Blank(size) /\ OneMoreOrBlank(s[n + 1])
  /\ mode \in {"down", "restore"} => page = None /\ cur = <<>> /\ (harm = {} => Blank(s[n + 1]))
  /\ mode = "down" => tags = <<>>
  /\ mode = "restore" => Restored(n, s)
  /\ mode = "run" => Pushed(n, s)

AFile == \E n \in Nat : \E s \in [1 .. n + 1 -> 0 .. MaxSize] : File(n, s)

IInv ==
  /\ Types
  /\ Kept => AFile
  /\ mode = "bus" => harm # {}
-----------------------------------------------------------------------------
\* The arithmetic of pages.
LEMMA PageMath ==
  /\ \A o \in Nat : /\ o \div PageSize \in Nat /\ o % PageSize \in 0 .. PageSize - 1
                    /\ o = (o \div PageSize) * PageSize + (o % PageSize)
  /\ Whole(0)
  /\ \A m : Whole(m) => m \in Nat /\ Whole(m + PageSize)
  /\ \A m, n : Whole(m) /\ Whole(n) /\ m < n => m + PageSize <= n
  /\ \A o \in Nat : Whole((o \div PageSize) * PageSize)
PROOF
  <1>0. PageSize \in Nat \ {0}
    BY TagStoreAssumption
  <1>1. \A o \in Nat : /\ o \div PageSize \in Nat /\ o % PageSize \in 0 .. PageSize - 1
                       /\ o = (o \div PageSize) * PageSize + (o % PageSize)
    BY <1>0
  <1>2. Whole(0)
    BY <1>0 DEF Whole
  <1>3. ASSUME NEW m, Whole(m) PROVE m \in Nat /\ Whole(m + PageSize)
    <2>1. PICK k \in Nat : m = k * PageSize
      BY <1>3 DEF Whole
    <2>2. m + PageSize = (k + 1) * PageSize
      BY <1>0, <2>1
    <2> QED BY <1>0, <2>1, <2>2 DEF Whole
  <1>4. ASSUME NEW m, NEW n, Whole(m), Whole(n), m < n PROVE m + PageSize <= n
    <2>1. PICK a \in Nat, b \in Nat : m = a * PageSize /\ n = b * PageSize
      BY <1>4 DEF Whole
    <2>2. a < b
      BY <1>0, <1>4, <2>1
    <2>3. (a + 1) * PageSize <= b * PageSize /\ (a + 1) * PageSize = a * PageSize + PageSize
      BY <1>0, <2>2
    <2> QED BY <2>1, <2>3
  <1> QED BY <1>1, <1>2, <1>3, <1>4 DEF Whole

\* The page of an offset of the file is in the file, or the one after it.
LEMMA PageOf ==
  ASSUME NEW o \in Nat, NEW f, Whole(f), o <= f
  PROVE  LET p == (o \div PageSize) * PageSize
         IN /\ p \in Nat /\ Whole(p) /\ p <= f
            /\ p # f => p + PageSize <= f
            /\ p + (o % PageSize) = o /\ o % PageSize \in 0 .. PageSize - 1
PROOF
  <1> DEFINE p == (o \div PageSize) * PageSize
  <1>1. Whole(p) /\ o % PageSize \in 0 .. PageSize - 1 /\ p + (o % PageSize) = o
    BY PageMath
  <1>2. p \in Nat /\ f \in Nat /\ PageSize \in Nat
    BY <1>1, PageMath, TagStoreAssumption
  <1> HIDE DEF p
  <1>3. p <= f
    BY <1>1, <1>2
  <1>4. ASSUME p # f PROVE p + PageSize <= f
    <2>1. p < f
      BY <1>2, <1>3, <1>4
    <2>2. \A m, n : Whole(m) /\ Whole(n) /\ m < n => m + PageSize <= n
      BY PageMath
    <2> QED BY <1>1, <2>1, <2>2
  <1> QED BY <1>1, <1>2, <1>3, <1>4 DEF p

\* A record, byte for byte.
LEMMA RecordBytes ==
  ASSUME NEW t \in Tag
  PROVE  /\ t \in Seq(Nat) /\ t # <<>> /\ Len(t) \in 1 .. MaxTag
         /\ Record(t) \in Seq(Nat) /\ Len(Record(t)) = LenSize + Len(t)
         /\ Record(t)[1] = Len(t)
         /\ \A i \in 2 .. LenSize : Record(t)[i] = 0
         /\ \A i \in 1 .. Len(t) : Record(t)[LenSize + i] = t[i]
PROOF
  <1>1. t \in Seq(Nat \ {0}) /\ Len(t) \in 1 .. MaxTag /\ LenSize \in Nat \ {0} /\ MaxTag \in Nat
    BY TagStoreAssumption
  <1>2. t \in Seq(Nat) /\ t # <<>> /\ Len(t) \in Nat
    BY <1>1
  <1> DEFINE l == Length(Len(t))
  <1>3. /\ l \in Seq(Nat) /\ Len(l) = LenSize
        /\ l[1] = Len(t) /\ \A i \in 2 .. LenSize : l[i] = 0
    <2>1. l \in [1 .. LenSize -> Nat]
      BY <1>1, <1>2 DEF Length
    <2>2. l \in Seq(Nat)
      BY <1>1, <2>1, IsASeq
    <2>3. Len(l) = LenSize
      BY <1>1, <2>1, <2>2, LenProperties
    <2> QED BY <1>1, <2>2, <2>3 DEF Length
  <1> HIDE DEF l
  <1>4. /\ l \o t \in Seq(Nat) /\ Len(l \o t) = LenSize + Len(t)
        /\ \A i \in 1 .. LenSize + Len(t) : (l \o t)[i] = IF i <= LenSize THEN l[i] ELSE t[i - LenSize]
    BY <1>2, <1>3, ConcatProperties
  <1>5. Record(t) = l \o t
    BY DEF Record, l
  <1> DEFINE r == l \o t
  <1>6. /\ Record(t) = r /\ r \in Seq(Nat) /\ Len(r) = LenSize + Len(t)
        /\ \A i \in 1 .. LenSize + Len(t) : r[i] = IF i <= LenSize THEN l[i] ELSE t[i - LenSize]
    BY <1>4, <1>5
  <1> HIDE DEF r
  <1>7. r[1] = Len(t) /\ \A i \in 2 .. LenSize : r[i] = 0
    <2>1. \A i \in 1 .. LenSize : i \in 1 .. LenSize + Len(t) /\ i <= LenSize
      BY <1>1, <1>2
    <2>2. \A i \in 1 .. LenSize : r[i] = l[i]
      BY ONLY <1>6, <2>1
    <2>3. 1 \in 1 .. LenSize /\ \A i \in 2 .. LenSize : i \in 1 .. LenSize
      BY <1>1
    <2> QED BY ONLY <1>3, <2>2, <2>3
  <1>8. \A i \in 1 .. Len(t) : r[LenSize + i] = t[i]
    <2>1. \A i \in 1 .. Len(t) : /\ LenSize + i \in 1 .. LenSize + Len(t) /\ ~(LenSize + i <= LenSize)
                                 /\ (LenSize + i) - LenSize = i
      BY <1>1, <1>2
    <2> QED BY ONLY <1>6, <2>1
  <1> QED BY <1>1, <1>2, <1>6, <1>7, <1>8

\* An empty file holds no records.
LEMMA InitIInv == Init => IInv
PROOF
  <1> SUFFICES ASSUME Init PROVE IInv
    OBVIOUS
  <1>1. Types
    <2>1. MaxSize \in Nat /\ PageSize \in Nat
      BY TagStoreAssumption
    <2>2. tags \in Seq(Seq(Nat)) /\ todo \in Seq(Nat)
      BY DEF Init
    <2>3. Whole(size) /\ Whole(next)
      BY PageMath DEF Init
    <2> QED BY <2>1, <2>2, <2>3 DEF Types, TypeOK, Init, None, Harm
  <1>2. \E n \in Nat : \E s \in [1 .. n + 1 -> 0 .. MaxSize] : File(n, s)
    <2> DEFINE s == [i \in 1 .. 0 + 1 |-> 0]
    <2>1. s \in [1 .. 0 + 1 -> 0 .. MaxSize] /\ s[1] = 0 /\ s[0 + 1] = 0
      BY TagStoreAssumption
    <2> HIDE DEF s
    <2>2. Records(0, s)
      BY <2>1 DEF Records, Init
    <2>3. IdsAre(0, s) /\ Blank(size) /\ Blank(s[0 + 1]) /\ OneMoreOrBlank(s[0 + 1])
      BY <2>1 DEF IdsAre, Init, Blank, OneMoreOrBlank
    <2>4. File(0, s)
      BY <2>2, <2>3 DEF File, Init
    <2> QED BY <2>1, <2>4
  <1> QED BY <1>1, <1>2 DEF IInv, AFile, Init

\* Every step keeps the types.
LEMMA TypesStep ==
  ASSUME Types, Next
  PROVE  Types'
PROOF
  <1>1. /\ PageSize \in Nat \ {0} /\ LenSize \in Nat \ {0} /\ MaxTag \in Nat /\ MaxSize \in Nat
    BY TagStoreAssumption
  <1>2. /\ TypeOK /\ Whole(size) /\ Whole(next) /\ size \in Nat
    BY PageMath DEF Types
  <1>3. CASE Start
    BY <1>1, <1>2, <1>3 DEF Start, Types, TypeOK
  <1>4. CASE RestoreEnds
    <2>1. LET p == (off \div PageSize) * PageSize
          IN /\ p \in Nat /\ Whole(p) /\ p <= size
             /\ p # size => p + PageSize <= size
             /\ off % PageSize \in 0 .. PageSize - 1
      <3>1. off \in Nat /\ off <= size
        BY <1>1, <1>2, <1>4 DEF TypeOK, RestoreEnds, AtEnd
      <3> QED BY <1>2, <3>1, PageOf
    <2>2. SetPosition(off) /\ mode' = "run" /\ UNCHANGED <<disk, off, tags, cur, todo, issued, harm>>
      BY <1>4 DEF RestoreEnds
    <2>3. Whole(size + PageSize)
      BY <1>2, PageMath
    <2>4. CASE next' = size /\ size + PageSize > MaxSize
      <3>1. UNCHANGED <<size, page, pos>> /\ Whole(next')
        BY <1>2, <2>2, <2>4 DEF SetPosition
      <3> QED BY <1>1, <1>2, <2>2, <2>4, <3>1 DEF Types, TypeOK
    <2>5. CASE ~(next' = size /\ size + PageSize > MaxSize)
      <3>1. /\ size' = IF next' = size THEN size + PageSize ELSE size
            /\ page' = next' /\ pos' = off % PageSize
            /\ next' \in Nat /\ Whole(next') /\ next' <= size
            /\ next' # size => next' + PageSize <= size
            /\ pos' \in 0 .. PageSize
        BY <1>1, <2>1, <2>2, <2>5 DEF SetPosition
      <3>2. /\ Whole(size') /\ size' \in 0 .. MaxSize /\ page' + PageSize <= size' /\ page' \in Byte
            /\ next' \in 0 .. MaxSize
        <4>1. size \in 0 .. MaxSize
          BY <1>2 DEF TypeOK
        <4>2. CASE next' = size
          <5>1. size' = size + PageSize /\ size + PageSize <= MaxSize /\ page' = size
            BY <1>1, <2>5, <3>1, <4>1, <4>2
          <5> QED BY <1>1, <2>3, <3>1, <4>1, <5>1 DEF Byte
        <4>3. CASE next' # size
          <5>1. size' = size /\ page' + PageSize <= size /\ page' = next'
            BY <3>1, <4>3
          <5>2. Whole(size')
            BY <1>2, <5>1
          <5>3. PICK p \in Nat : p = next'
            BY <3>1
          <5>6. p + PageSize <= size
            BY <5>1, <5>3
          <5>4. p + PageSize <= MaxSize
            BY <1>1, <4>1, <5>6
          <5>5. p \in 0 .. MaxSize - 1 /\ p \in 0 .. MaxSize
            BY <1>1, <5>4
          <5> QED BY <4>1, <5>1, <5>2, <5>3, <5>5 DEF Byte
        <4> QED BY <4>2, <4>3
      <3> QED BY <1>1, <1>2, <2>2, <3>1, <3>2 DEF Types, TypeOK
    <2> QED BY <2>4, <2>5
  <1>5. CASE RestoreGivesUp
    BY <1>1, <1>2, <1>5 DEF RestoreGivesUp, Types, TypeOK, Harm
  <1>6. CASE RestoreRecord
    <2>1. /\ LenAt(off) \in Nat /\ off + LenSize + LenAt(off) <= size /\ size <= MaxSize /\ off \in Nat
          /\ NameAt(off + LenSize, LenAt(off)) \in Seq(Nat)
      <3>1. /\ LenAt(off) <= MaxTag /\ off + LenSize + LenAt(off) <= size /\ size <= MaxSize /\ off \in Nat
            /\ disk \in [Byte -> Nat] /\ off + LenSize <= size
        BY <1>2, <1>6 DEF RestoreRecord, HasLength, TypeOK
      <3>2. off \in Byte
        BY <1>1, <1>2, <3>1 DEF Byte
      <3>3. LenAt(off) \in Nat
        BY <1>1, <3>1, <3>2 DEF LenAt
      <3>4. \A i \in 1 .. LenAt(off) : disk[off + LenSize + i - 1] \in Nat
        <4> SUFFICES ASSUME NEW i \in 1 .. LenAt(off) PROVE disk[off + LenSize + i - 1] \in Nat
          OBVIOUS
        <4> DEFINE l == LenAt(off)
        <4>1. l \in Nat /\ i \in 1 .. l /\ off + LenSize + l <= size
          BY <3>1, <3>3
        <4> HIDE DEF l
        <4>2. off + LenSize + i - 1 \in Byte
          BY <1>1, <1>2, <3>1, <4>1 DEF Byte
        <4> QED BY <3>1, <4>2
      <3>5. NameAt(off + LenSize, LenAt(off)) \in Seq(Nat)
        BY <3>3, <3>4, IsASeq DEF NameAt
      <3> QED BY <3>1, <3>3, <3>5
    <2>2. tags' \in Seq(Seq(Nat)) /\ off' \in 0 .. MaxSize
      BY <1>1, <1>2, <1>6, <2>1 DEF RestoreRecord, TypeOK
    <2> QED BY <1>2, <1>6, <2>2 DEF RestoreRecord, Types, TypeOK
  <1>7. CASE RestoreBeyondFile
    BY <1>2, <1>7 DEF RestoreBeyondFile, Types, TypeOK
  <1>8. ASSUME NEW t \in Tag, FindTag(t) PROVE Types'
    <2>1. issued' \subseteq Tag \X Nat
      <3>1. PICK i \in Positions(t) : issued' = issued \cup {<<t, i - 1>>}
        BY <1>8 DEF FindTag
      <3>2. i \in Nat \ {0}
        BY <1>2 DEF Positions, TypeOK
      <3> QED BY <1>2, <3>1, <3>2 DEF TypeOK
    <2> QED BY <1>2, <1>8, <2>1 DEF FindTag, Types, TypeOK
  <1>9. ASSUME NEW t \in Tag, AppendTag(t) PROVE Types'
    <2>1. todo' \in Seq(Nat) /\ cur' \in Tag
      BY <1>9, RecordBytes DEF AppendTag
    <2> QED BY <1>2, <1>9, <2>1 DEF AppendTag, Types, TypeOK
  <1>10. CASE AllocatePage
    <2>1. /\ size' = next + PageSize /\ next + PageSize <= MaxSize /\ page' = next /\ pos' = 0
          /\ next' = next + PageSize
          /\ disk' = [o \in Byte |-> IF o < size' THEN disk[o] ELSE 0]
          /\ harm' \in {harm, harm \cup {"remapped"}}
          /\ UNCHANGED <<mode, off, tags, cur, todo, issued>>
      BY <1>10 DEF AllocatePage
    <2>2. Whole(next') /\ Whole(size') /\ next \in Nat
      BY <1>2, <2>1, PageMath
    <2>3. disk' \in [Byte -> Nat]
      BY <1>2, <2>1 DEF TypeOK
    <2>4. harm' \subseteq Harm
      BY <1>2, <2>1 DEF TypeOK, Harm
    <2>5. /\ size' \in 0 .. MaxSize /\ next' \in 0 .. MaxSize /\ page' \in Byte /\ pos' \in 0 .. PageSize
          /\ page' + PageSize <= size'
      BY <1>1, <2>1, <2>2 DEF Byte
    <2> QED BY <1>2, <2>1, <2>2, <2>3, <2>4, <2>5 DEF Types, TypeOK
  <1>11. CASE AllocatePageFails
    <2>1. todo' \in Seq(Nat) /\ cur' \in Tag \cup {<<>>}
      BY <1>11 DEF AllocatePageFails
    <2>2. harm' \subseteq Harm
      BY <1>2, <1>11 DEF AllocatePageFails, TypeOK, Harm
    <2> QED BY <1>2, <1>11, <2>1, <2>2 DEF AllocatePageFails, Types, TypeOK
  <1>12. ASSUME NEW n \in 1 .. PageSize, Copy(n) PROVE Types'
    <2>1. /\ page # None /\ cur # <<>> /\ n <= Len(todo) /\ n <= PageSize - pos
          /\ disk' = [o \in Byte |->
                        IF o >= page + pos /\ o < page + pos + n THEN todo[o - (page + pos) + 1]
                        ELSE disk[o]]
          /\ pos' = pos + n /\ todo' = SubSeq(todo, n + 1, Len(todo))
          /\ UNCHANGED <<size, mode, page, next, off, harm>>
      <3>1. Len(todo) \in Nat /\ PageSize - pos \in Int /\ n <= Least(Len(todo), PageSize - pos)
        BY <1>1, <1>2, <1>12 DEF Copy, TypeOK
      <3> QED BY <1>12, <3>1 DEF Copy, Least
    <2>2. page \in Nat /\ pos \in Nat /\ todo \in Seq(Nat) /\ Len(todo) \in Nat
      BY <1>1, <1>2, <2>1 DEF TypeOK, Byte
    <2>3. disk' \in [Byte -> Nat]
      <3> SUFFICES ASSUME NEW o \in Byte
                   PROVE  (IF o >= page + pos /\ o < page + pos + n THEN todo[o - (page + pos) + 1]
                           ELSE disk[o]) \in Nat
        BY <2>1
      <3>1. CASE o >= page + pos /\ o < page + pos + n
        <4>1. o - (page + pos) + 1 \in 1 .. Len(todo)
          <5>1. PICK a \in Nat, u \in Nat, v \in Nat, t \in Nat :
                  a = o /\ u = page /\ v = pos /\ t = Len(todo)
            <6>1. o \in Nat
              BY DEF Byte
            <6> QED BY ONLY <2>2, <6>1
          <5>2. a >= u + v /\ a < (u + v) + n /\ n <= t
            BY <2>1, <3>1, <5>1
          <5>3. a - (u + v) + 1 \in 1 .. t
            BY <5>2
          <5> QED BY <5>1, <5>3
        <4> QED BY <2>2, <3>1, <4>1
      <3>2. CASE ~(o >= page + pos /\ o < page + pos + n)
        BY <1>2, <3>2 DEF TypeOK
      <3> QED BY <3>1, <3>2
    <2>4. todo' \in Seq(Nat) /\ pos' \in 0 .. PageSize
      <3>1. pos' \in 0 .. PageSize
        BY <1>1, <2>1, <2>2
      <3>2. todo' \in Seq(Nat)
        BY ONLY <2>1, <2>2, n \in 1 .. PageSize
      <3> QED BY ONLY <3>1, <3>2
    <2>5. /\ tags' \in Seq(Seq(Nat)) /\ issued' \subseteq Tag \X Nat /\ cur' \in Tag \cup {<<>>}
      <3>1. /\ \/ /\ tags' = Append(tags, cur) /\ cur' = <<>>
                  /\ issued' = issued \cup {<<cur, Len(tags)>>}
               \/ UNCHANGED <<tags, issued, cur>>
        BY <1>12 DEF Copy
      <3>2. tags \in Seq(Seq(Nat)) /\ issued \subseteq Tag \X Nat /\ cur \in Tag /\ Len(tags) \in Nat
        BY <1>2, <2>1 DEF TypeOK
      <3>3. Append(tags, cur) \in Seq(Seq(Nat))
        BY <3>2, RecordBytes
      <3>4. issued \cup {<<cur, Len(tags)>>} \subseteq Tag \X Nat
        BY <3>2
      <3> QED BY <3>1, <3>2, <3>3, <3>4
    <2> QED BY <1>2, <2>1, <2>3, <2>4, <2>5 DEF Types, TypeOK
  <1>13. CASE Kill
    <2>1. tags' \in Seq(Seq(Nat)) /\ todo' \in Seq(Nat)
      BY <1>13 DEF Kill
    <2>2. Whole(next')
      BY <1>13, PageMath DEF Kill
    <2>3. harm' \subseteq Harm
      BY <1>2, <1>13 DEF Kill, TypeOK, Harm
    <2> QED BY <1>1, <1>2, <1>13, <2>1, <2>2, <2>3 DEF Kill, Types, TypeOK
  <1>14. CASE Dead
    BY <1>2, <1>14 DEF Dead, vars, Types, TypeOK
  <1> QED BY <1>3, <1>4, <1>5, <1>6, <1>7, <1>8, <1>9, <1>10, <1>11, <1>12, <1>13, <1>14 DEF Next
-----------------------------------------------------------------------------
\* A file that is not written to holds what it held.
LEMMA SameFile ==
  ASSUME NEW n, NEW s, UNCHANGED <<disk, size>>
  PROVE  /\ Records(n, s)' <=> Records(n, s)
         /\ \A i : Name(s, i)' = Name(s, i)
         /\ \A e : Blank(e)' <=> Blank(e)
         /\ \A e : OneMoreOrBlank(e)' <=> OneMoreOrBlank(e)
         /\ UNCHANGED issued => (IdsAre(n, s)' <=> IdsAre(n, s))
  BY DEF Records, Name, Blank, OneMoreOrBlank, IdsAre, LenAt, NameAt

\* Where each record lies.
LEMMA RecordLies ==
  ASSUME Types, NEW n \in Nat, NEW s \in [1 .. n + 1 -> 0 .. MaxSize], Records(n, s), NEW i \in 1 .. n
  PROVE  /\ s[i] \in Nat /\ s[i + 1] \in Nat /\ s[n + 1] \in Nat /\ s[n + 1] <= MaxSize
         /\ LenAt(s[i]) \in 1 .. MaxTag
         /\ s[i + 1] = s[i] + LenSize + LenAt(s[i]) /\ s[i + 1] <= s[n + 1]
         /\ \A j \in 0 .. LenSize - 1 : s[i] + j \in Byte /\ s[i] + j < s[n + 1]
         /\ \A j \in 1 .. LenAt(s[i]) : s[i] + LenSize + j - 1 \in Byte /\ s[i] + LenSize + j - 1 < s[n + 1]
PROOF
  <1>1. LenSize \in Nat \ {0} /\ MaxTag \in Nat /\ MaxSize \in Nat /\ size \in 0 .. MaxSize
    BY TagStoreAssumption DEF Types, TypeOK
  <1>2. i \in 1 .. n + 1 /\ i + 1 \in 1 .. n + 1 /\ n + 1 \in 1 .. n + 1
    OBVIOUS
  <1> DEFINE a == s[i]
             b == s[i + 1]
             e == s[n + 1]
             l == LenAt(s[i])
  <1>3. a \in 0 .. MaxSize /\ b \in 0 .. MaxSize /\ e \in 0 .. MaxSize
    BY <1>2
  <1>4. l \in 1 .. MaxTag /\ b = a + LenSize + l /\ b <= e
    BY DEF Records
  <1> HIDE DEF a, b, e, l
  <1>5. \A j \in 0 .. LenSize - 1 : a + j \in Byte /\ a + j < e
    BY <1>1, <1>3, <1>4 DEF Byte
  <1>6. \A j \in 1 .. l : a + LenSize + j - 1 \in Byte /\ a + LenSize + j - 1 < e
    BY <1>1, <1>3, <1>4 DEF Byte
  <1> QED BY <1>1, <1>3, <1>4, <1>5, <1>6 DEF a, b, e, l

\* What is written behind the records changes none.
LEMMA KeptBelow ==
  ASSUME Types, NEW n \in Nat, NEW s \in [1 .. n + 1 -> 0 .. MaxSize], Records(n, s),
         \A o \in Byte : o < s[n + 1] => disk'[o] = disk[o],
         s[n + 1] <= size'
  PROVE  Records(n, s)' /\ \A i \in 1 .. n : Name(s, i)' = Name(s, i)
PROOF
  <1>1. ASSUME NEW i \in 1 .. n
        PROVE  LenAt(s[i])' = LenAt(s[i]) /\ Name(s, i)' = Name(s, i)
    <2>1. /\ \A j \in 0 .. LenSize - 1 : s[i] + j \in Byte /\ s[i] + j < s[n + 1]
          /\ \A j \in 1 .. LenAt(s[i]) :
               s[i] + LenSize + j - 1 \in Byte /\ s[i] + LenSize + j - 1 < s[n + 1]
          /\ s[i] \in Nat /\ LenSize \in Nat \ {0}
      BY RecordLies, TagStoreAssumption
    <2>2. \A j \in 0 .. LenSize - 1 : disk'[s[i] + j] = disk[s[i] + j]
      BY <2>1
    <2>3. disk'[s[i]] = disk[s[i]] /\ \A j \in 1 .. LenSize - 1 : disk'[s[i] + j] = disk[s[i] + j]
      <3>1. s[i] + 0 = s[i] /\ 0 \in 0 .. LenSize - 1 /\ \A j \in 1 .. LenSize - 1 : j \in 0 .. LenSize - 1
        BY <2>1
      <3> QED BY <2>2, <3>1
    <2>4. LenAt(s[i])' = LenAt(s[i])
      BY <2>3 DEF LenAt
    <2>5. \A j \in 1 .. LenAt(s[i]) : disk'[s[i] + LenSize + j - 1] = disk[s[i] + LenSize + j - 1]
      BY <2>1
    <2>6. Name(s, i)' = Name(s, i)
      BY <2>4, <2>5 DEF Name, NameAt
    <2> QED BY <2>4, <2>6
  <1> QED BY <1>1 DEF Records

\* r is s with the record of a tag of l bytes behind the n of s.
Longer(n, s, l, r) ==
  /\ r \in [1 .. (n + 1) + 1 -> 0 .. MaxSize] /\ Records(n + 1, r)
  /\ \A i \in 1 .. n + 1 : r[i] = s[i]
  /\ r[(n + 1) + 1] = s[n + 1] + LenSize + l
  /\ \A i \in 1 .. n : Name(r, i) = Name(s, i)
  /\ Name(r, n + 1) = NameAt(s[n + 1] + LenSize, l)

\* One more record behind the others.
LEMMA OneMore ==
  ASSUME Types', NEW n \in Nat, NEW s \in [1 .. n + 1 -> 0 .. MaxSize], Records(n, s)',
         NEW l \in 1 .. MaxTag, LenAt(s[n + 1])' = l, s[n + 1] + LenSize + l <= size'
  PROVE  \E r : Longer(n, s, l, r)'
PROOF
  <1> DEFINE e == s[n + 1]
             f == e + LenSize + l
             r == [i \in 1 .. (n + 1) + 1 |-> IF i <= n + 1 THEN s[i] ELSE f]
  <1>1. LenSize \in Nat \ {0} /\ MaxTag \in Nat /\ MaxSize \in Nat /\ size' \in 0 .. MaxSize
    BY TagStoreAssumption DEF Types, TypeOK
  <1>2. e \in 0 .. MaxSize
    OBVIOUS
  <1>3. PICK z \in 0 .. MaxSize : z = size'
    BY <1>1
  <1>4. f \in 0 .. MaxSize /\ e <= f
    <2>1. f <= z
      BY <1>3
    <2>2. f \in Nat /\ e <= f
      BY <1>1, <1>2
    <2> HIDE DEF f
    <2> QED BY <1>1, <2>1, <2>2
  <1> HIDE DEF f
  <1>5. r \in [1 .. (n + 1) + 1 -> 0 .. MaxSize]
    BY <1>4
  <1>6. /\ \A i \in 1 .. n + 1 : r[i] = s[i]
        /\ r[(n + 1) + 1] = f
    OBVIOUS
  <1> HIDE DEF r
  <1>7. Records(n + 1, r)'
    <2>1. r[1] = 0 /\ f <= size'
      BY <1>6 DEF Records, f
    <2>2. ASSUME NEW i \in 1 .. n + 1
          PROVE  /\ LenAt(r[i])' \in 1 .. MaxTag
                 /\ r[i + 1] = r[i] + LenSize + LenAt(r[i])'
                 /\ r[i + 1] <= f
      <3>1. CASE i = n + 1
        BY <1>1, <1>4, <1>6, <3>1 DEF f
      <3>2. CASE i # n + 1
        <4>1. i \in 1 .. n /\ i + 1 \in 1 .. n + 1 /\ i \in 1 .. n + 1
          BY <3>2
        <4>2. r[i] = s[i] /\ r[i + 1] = s[i + 1] /\ s[i + 1] \in 0 .. MaxSize
          BY <1>6, <4>1
        <4>3. LenAt(s[i])' \in 1 .. MaxTag /\ s[i + 1] = s[i] + LenSize + LenAt(s[i])' /\ s[i + 1] <= e
          BY <4>1 DEF Records
        <4>4. s[i + 1] <= f
          BY <1>2, <1>4, <4>2, <4>3
        <4> QED BY <4>2, <4>3, <4>4
      <3> QED BY <3>1, <3>2
    <2> QED BY <1>6, <2>1, <2>2 DEF Records
  <1>8. \A i \in 1 .. n : Name(r, i)' = Name(s, i)'
    BY <1>6 DEF Name
  <1>9. Name(r, n + 1)' = NameAt(s[n + 1] + LenSize, l)'
    BY <1>6 DEF Name
  <1>10. Longer(n, s, l, r)'
    BY <1>5, <1>6, <1>7, <1>8, <1>9 DEF f, Longer
  <1> QED BY ONLY <1>10

(***************************************************************************)
(* What Restore finds at off: the next record or, behind the last one, no  *)
(* length, a length of 0 with nothing behind it, or the length of a record *)
(* that was cut short.                                                     *)
(***************************************************************************)
LEMMA ReadAtOff ==
  ASSUME Types, NEW n \in Nat, NEW s \in [1 .. n + 1 -> 0 .. MaxSize], File(n, s), mode = "restore"
  PROVE  /\ Len(tags) \in 0 .. n /\ off = s[Len(tags) + 1] /\ off \in Nat /\ off <= size
         /\ Len(tags) < n => /\ LenAt(off) \in 1 .. MaxTag
                             /\ off + LenSize <= size
                             /\ off + LenSize + LenAt(off) <= size
                             /\ s[Len(tags) + 2] = off + LenSize + LenAt(off)
                             /\ NameAt(off + LenSize, LenAt(off)) = Name(s, Len(tags) + 1)
         /\ Len(tags) = n /\ off + LenSize <= size =>
              /\ off \in Byte /\ LenAt(off) = disk[off] /\ LenAt(off) \in 0 .. MaxTag
              /\ LenAt(off) = 0 => Blank(off)
PROOF
  <1> DEFINE k == Len(tags)
  <1>1. LenSize \in Nat \ {0} /\ MaxTag \in Nat /\ MaxSize \in Nat /\ size \in 0 .. MaxSize
    BY TagStoreAssumption DEF Types, TypeOK
  <1>2. disk \in [Byte -> Nat] /\ tags \in Seq(Seq(Nat))
    BY DEF Types, TypeOK
  <1>3. k \in 0 .. n /\ off = s[k + 1] /\ Records(n, s) /\ OneMoreOrBlank(s[n + 1])
    <2>1. Len(tags) \in Nat
      BY <1>2, LenProperties
    <2> QED BY <2>1 DEF File, Restored
  <1> HIDE DEF k
  <1>4. off \in 0 .. MaxSize /\ s[n + 1] \in 0 .. MaxSize /\ s[n + 1] <= size
    BY <1>3 DEF Records
  <1>5. ASSUME k < n
        PROVE  /\ LenAt(off) \in 1 .. MaxTag
               /\ off + LenSize <= size
               /\ off + LenSize + LenAt(off) <= size
               /\ s[k + 2] = off + LenSize + LenAt(off)
               /\ NameAt(off + LenSize, LenAt(off)) = Name(s, k + 1)
    <2>1. k + 1 \in 1 .. n /\ (k + 1) + 1 = k + 2
      BY <1>3, <1>5
    <2>2. /\ LenAt(off) \in 1 .. MaxTag /\ s[k + 2] = off + LenSize + LenAt(off)
          /\ s[k + 2] <= s[n + 1]
      BY <1>3, <2>1 DEF Records
    <2>3. NameAt(off + LenSize, LenAt(off)) = Name(s, k + 1)
      BY <1>3 DEF Name
    <2> DEFINE l == LenAt(off)
               b == s[k + 2]
    <2>4. l \in 1 .. MaxTag /\ b = off + LenSize + l /\ b <= s[n + 1]
      BY <2>2
    <2> HIDE DEF l, b
    <2>5. off + LenSize <= size /\ off + LenSize + l <= size
      BY <1>1, <1>4, <2>4
    <2> QED BY <2>2, <2>3, <2>5 DEF l
  <1>6. ASSUME k = n, off + LenSize <= size
        PROVE  /\ off \in Byte /\ LenAt(off) = disk[off] /\ LenAt(off) \in 0 .. MaxTag
               /\ LenAt(off) = 0 => Blank(off)
    <2>1. off = s[n + 1] /\ OneMoreOrBlank(off)
      BY <1>3, <1>6
    <2>2. off \in Byte /\ \A j \in 1 .. LenSize - 1 : off + j \in Byte /\ off + j # off /\ ~(off + j >= off + LenSize)
      BY <1>1, <1>4, <1>6 DEF Byte
    <2>3. \A j \in 1 .. LenSize - 1 : disk[off + j] = 0
      BY <1>1, <1>4, <2>1, <2>2 DEF OneMoreOrBlank
    <2>4. LenAt(off) = disk[off]
      BY <2>3 DEF LenAt
    <2>5. disk[off] \in 0 .. MaxTag
      BY <1>1, <1>2, <1>4, <2>1, <2>2 DEF OneMoreOrBlank
    <2>6. disk[off] = 0 => Blank(off)
      BY <1>1, <2>1 DEF OneMoreOrBlank, Blank
    <2> QED BY <2>2, <2>4, <2>5, <2>6
  <1>7. off <= size
    <2>1. CASE k = n
      BY <1>3, <1>4, <2>1
    <2>2. CASE k < n
      BY <1>1, <1>4, <1>5, <2>2
    <2> QED BY <1>3, <2>1, <2>2
  <1> QED BY <1>3, <1>4, <1>5, <1>6, <1>7 DEF k

\* Start: Restore is at the first record and has read none.
LEMMA StartStep ==
  ASSUME IInv, Start, Kept'
  PROVE  AFile'
PROOF
  <1>1. /\ mode = "down" /\ mode' = "restore" /\ next' = size /\ off' = 0
        /\ UNCHANGED <<disk, size, page, pos, tags, cur, todo, issued, harm>>
    BY DEF Start
  <1>2. PICK n \in Nat : \E s \in [1 .. n + 1 -> 0 .. MaxSize] : File(n, s)
    BY <1>1 DEF IInv, Kept, AFile
  <1>3. PICK s \in [1 .. n + 1 -> 0 .. MaxSize] : File(n, s)
    BY <1>2
  <1>4. tags' = <<>> /\ s[1] = 0 /\ Len(tags') = 0
    BY <1>1, <1>3 DEF File, Records
  <1>5. Restored(n, s)'
    BY <1>1, <1>4 DEF Restored
  <1>6. File(n, s)'
    BY <1>1, <1>3, <1>5, SameFile DEF File
  <1> QED BY <1>6 DEF AFile

\* RestoreEnds: what is read as a length of 0, or the end of the file, is where the records end.
LEMMA EndStep ==
  ASSUME IInv, RestoreEnds, Kept'
  PROVE  AFile'
PROOF
  <1>1. /\ mode = "restore" /\ mode' = "run" /\ AtEnd /\ SetPosition(off)
        /\ UNCHANGED <<disk, off, tags, cur, todo, issued, harm>>
    BY DEF RestoreEnds
  <1>2. PICK n \in Nat : \E s \in [1 .. n + 1 -> 0 .. MaxSize] : File(n, s)
    BY <1>1 DEF IInv, Kept, AFile
  <1>3. PICK s \in [1 .. n + 1 -> 0 .. MaxSize] : File(n, s)
    BY <1>2
  <1>4. LenSize \in Nat \ {0} /\ MaxSize \in Nat /\ size \in 0 .. MaxSize /\ PageSize \in Nat \ {0} /\ Types
    BY TagStoreAssumption DEF IInv, Types, TypeOK
  <1>5. Len(tags) = n /\ off = s[n + 1] /\ off \in Nat /\ off <= size /\ Blank(off)
    <2>1. Len(tags) \in 0 .. n /\ off = s[Len(tags) + 1] /\ off \in Nat /\ off <= size
      BY <1>1, <1>3, <1>4, ReadAtOff
    <2>2. Len(tags) = n
      <3> SUFFICES ASSUME Len(tags) < n PROVE FALSE
        BY <2>1
      <3>1. LenAt(off) \in 1 .. MaxTag /\ off + LenSize <= size
        BY <1>1, <1>3, <1>4, ReadAtOff
      <3> QED BY <1>1, <1>4, <2>1, <3>1 DEF AtEnd
    <2>3. Blank(off)
      <3>1. CASE off = size
        BY <1>3, <3>1 DEF File
      <3>2. CASE off + LenSize <= size /\ LenAt(off) = 0
        BY <1>1, <1>3, <1>4, <2>2, <3>2, ReadAtOff
      <3> QED BY <1>1, <3>1, <3>2 DEF AtEnd
    <2> QED BY <2>1, <2>2, <2>3
  <1>6. /\ Records(n, s) /\ IdsAre(n, s) /\ OneMoreOrBlank(s[n + 1]) /\ Blank(size)
        /\ page = None /\ cur = <<>> /\ next = size
        /\ \A i \in 1 .. Len(tags) : tags[i] = Name(s, i)
    BY <1>1, <1>3 DEF File, Restored
  <1> DEFINE p == (off \div PageSize) * PageSize
  <1>7. /\ next' = p
        /\ IF p = size /\ size + PageSize > MaxSize
           THEN UNCHANGED <<size, page, pos>>
           ELSE /\ size' = IF p = size THEN size + PageSize ELSE size
                /\ page' = p /\ pos' = off % PageSize
    BY <1>1 DEF SetPosition
  <1>8. p \in Nat /\ p <= size /\ p + (off % PageSize) = off
    BY <1>4, <1>5, PageOf DEF Types
  <1> HIDE DEF p
  <1>9. size <= size' /\ s[n + 1] <= size'
    <2>1. size' \in {size, size + PageSize}
      BY <1>7
    <2>2. size <= size'
      BY <1>4, <2>1
    <2>3. s[n + 1] <= size'
      BY <1>4, <1>5, <2>1
    <2> QED BY <2>2, <2>3
  <1>10. Records(n, s)' /\ \A i \in 1 .. n : Name(s, i)' = Name(s, i)
    BY <1>1, <1>4, <1>6, <1>9, KeptBelow
  <1>11. IdsAre(n, s)'
    <2>1. \A h \in issued : h[2] \in Nat
      BY DEF IInv, Types, TypeOK
    <2> QED BY <1>1, <1>6, <1>10, <2>1 DEF IdsAre
  <1>12. Blank(s[n + 1])' /\ Blank(size)' /\ OneMoreOrBlank(s[n + 1])'
    <2>1. \A o \in Byte : o >= size' => o >= size
      <3>1. size' \in {size, size + PageSize}
        BY <1>7
      <3> QED BY <1>4, <3>1 DEF Byte
    <2> QED BY <1>1, <1>5, <1>6, <2>1 DEF Blank, OneMoreOrBlank
  <1>13. Pushed(n, s)'
    <2>1. Done' = 0 /\ s[n + 1] + 0 = s[n + 1]
      BY <1>1, <1>5, <1>6 DEF Done
    <2>2. cur' = <<>> /\ Len(tags') = n /\ \A i \in 1 .. n : tags'[i] = Name(s, i)'
      BY <1>1, <1>5, <1>6, <1>10
    <2>3. page' = None => next' = size' /\ size' + PageSize > MaxSize
      <3>1. p # None
        BY <1>8 DEF None
      <3> QED BY <1>7, <3>1
    <2>4. page' # None => next' = page' /\ page' + pos' = s[n + 1]
      BY <1>5, <1>6, <1>7, <1>8
    <2> QED BY <1>12, <2>1, <2>2, <2>3, <2>4 DEF Pushed
  <1>14. File(n, s)'
    BY <1>1, <1>10, <1>11, <1>12, <1>13 DEF File
  <1> QED BY <1>14 DEF AFile

\* RestoreGivesUp: only where less than a length is left, which harms the file.
LEMMA GiveUpStep ==
  ASSUME IInv, RestoreGivesUp, Kept'
  PROVE  AFile'
PROOF
  <1>1. /\ mode = "restore" /\ ~AtEnd /\ ~HasLength
        /\ harm' = IF off + LenSize > size THEN harm \cup {"gap"} ELSE harm
    BY DEF RestoreGivesUp
  <1>2. harm' = harm /\ ~(off + LenSize > size)
    BY <1>1 DEF Kept
  <1>3. PICK n \in Nat : \E s \in [1 .. n + 1 -> 0 .. MaxSize] : File(n, s)
    BY <1>2 DEF IInv, Kept, AFile
  <1>4. PICK s \in [1 .. n + 1 -> 0 .. MaxSize] : File(n, s)
    BY <1>3
  <1>5. LenSize \in Nat \ {0} /\ MaxTag \in Nat /\ size \in Nat /\ Types
    <2>1. LenSize \in Nat \ {0} /\ MaxTag \in Nat /\ MaxSize \in Nat
      BY TagStoreAssumption
    <2>2. Types
      BY DEF IInv
    <2> QED BY ONLY <2>1, <2>2 DEF Types, TypeOK
  <1>6. Len(tags) \in 0 .. n /\ off \in Nat
    BY <1>1, <1>4, <1>5, ReadAtOff
  <1>7. off + LenSize <= size
    BY <1>2, <1>5, <1>6
  <1>8. LenAt(off) \in 0 .. MaxTag
    <2>1. CASE Len(tags) < n
      <3>1. LenAt(off) \in 1 .. MaxTag
        BY <1>1, <1>4, <1>5, <2>1, ReadAtOff
      <3> QED BY <3>1
    <2>2. CASE Len(tags) = n
      BY <1>1, <1>4, <1>5, <1>7, <2>2, ReadAtOff
    <2> QED BY <1>6, <2>1, <2>2
  <1>9. FALSE
    BY <1>1, <1>7, <1>8 DEF HasLength
  <1> QED BY <1>9

\* RestoreRecord: one of the records, or the one behind them that was cut short.
LEMMA ReadStep ==
  ASSUME IInv, RestoreRecord, Types', Kept'
  PROVE  AFile'
PROOF
  <1>0. PICK l, k : l = LenAt(off) /\ k = Len(tags)
    OBVIOUS
  <1>1. /\ mode = "restore" /\ ~AtEnd /\ HasLength /\ off + LenSize + l <= size
        /\ tags' = Append(tags, NameAt(off + LenSize, l))
        /\ off' = off + LenSize + l
        /\ UNCHANGED <<disk, size, mode, page, pos, next, cur, todo, issued, harm>>
    BY <1>0 DEF RestoreRecord
  <1>2. PICK n \in Nat : \E s \in [1 .. n + 1 -> 0 .. MaxSize] : File(n, s)
    BY <1>1 DEF IInv, Kept, AFile
  <1>3. PICK s \in [1 .. n + 1 -> 0 .. MaxSize] : File(n, s)
    BY <1>2
  <1>4. /\ LenSize \in Nat \ {0} /\ MaxTag \in Nat /\ MaxSize \in Nat /\ size \in 0 .. MaxSize
        /\ Types /\ tags \in Seq(Seq(Nat)) /\ disk \in [Byte -> Nat]
    BY TagStoreAssumption DEF IInv, Types, TypeOK
  <1>5. k \in 0 .. n /\ off = s[k + 1] /\ off \in Nat /\ off <= size
    BY <1>0, <1>1, <1>3, <1>4, ReadAtOff
  <1>6. /\ next = size /\ page = None /\ cur = <<>>
        /\ \A i \in 1 .. k : tags[i] = Name(s, i)
        /\ Records(n, s) /\ IdsAre(n, s) /\ Blank(size) /\ OneMoreOrBlank(s[n + 1])
        /\ harm = {} => Blank(s[n + 1])
    BY <1>0, <1>1, <1>3 DEF File, Restored
  <1>7. /\ k \in Nat /\ Len(tags') = k + 1
        /\ \A i \in 1 .. k : tags'[i] = tags[i]
        /\ tags'[k + 1] = NameAt(off + LenSize, l)
    <2>1. NameAt(off + LenSize, l) \in Seq(Nat)
      <3>1. tags' \in Seq(Seq(Nat)) /\ Len(tags) \in Nat
        BY <1>4 DEF Types, TypeOK
      <3>2. l \in Nat /\ l <= MaxTag
        <4>1. off \in Byte
          BY <1>1, <1>4, <1>5 DEF HasLength, Byte
        <4> QED BY <1>0, <1>1, <1>4, <4>1 DEF HasLength, LenAt
      <3>3. \A j \in 1 .. l : disk[off + LenSize + j - 1] \in Nat
        <4> SUFFICES ASSUME NEW j \in 1 .. l PROVE off + LenSize + j - 1 \in Byte
          BY <1>4
        <4>1. off + LenSize + l <= size
          BY <1>1
        <4>2. off \in Nat /\ LenSize \in Nat \ {0} /\ MaxSize \in Nat /\ size \in 0 .. MaxSize /\ l \in Nat
          BY <1>4, <1>5, <3>2
        <4>3. off + LenSize + j - 1 \in 0 .. MaxSize - 1
          BY <4>1, <4>2
        <4> QED BY <4>3 DEF Byte
      <3> QED BY <3>2, <3>3, IsASeq DEF NameAt
    <2> QED BY <1>0, <1>1, <1>4, <2>1, AppendProperties, LenProperties
  <1>8. CASE k < n
    <2>1. off' = s[k + 2] /\ NameAt(off + LenSize, l) = Name(s, k + 1)
      BY <1>0, <1>1, <1>3, <1>4, <1>8, ReadAtOff
    <2>2. \A i \in 1 .. k + 1 : tags'[i] = Name(s, i)
      BY <1>6, <1>7, <2>1
    <2>3. Len(tags') <= n /\ off' = s[Len(tags') + 1]
      <3>1. (k + 1) + 1 = k + 2 /\ k + 1 <= n
        BY <1>7, <1>8
      <3> QED BY <1>7, <2>1, <3>1
    <2>4. Restored(n, s)'
      BY <1>1, <1>6, <1>7, <2>2, <2>3, SameFile DEF Restored
    <2>5. File(n, s)'
      BY <1>1, <1>6, <2>4, SameFile DEF File
    <2> QED BY <2>5 DEF AFile
  <1>9. CASE k = n
    <2>1. off + LenSize <= size /\ off = s[n + 1]
      BY <1>1, <1>5, <1>9 DEF HasLength
    <2>2. l \in 1 .. MaxTag /\ l = disk[off] /\ off \in Byte
      <3>1. off \in Byte /\ l = disk[off] /\ l \in 0 .. MaxTag
        BY <1>0, <1>1, <1>3, <1>4, <1>9, <2>1, ReadAtOff
      <3>2. l # 0
        BY <1>0, <1>1, <2>1 DEF AtEnd
      <3> QED BY <1>4, <3>1, <3>2
    <2>3. LenAt(s[n + 1])' = l /\ s[n + 1] + LenSize + l <= size'
      BY <1>0, <1>1, <2>1 DEF LenAt
    <2>4. Records(n, s)'
      BY <1>1, <1>6, SameFile
    <2>5. PICK r \in [1 .. (n + 1) + 1 -> 0 .. MaxSize] :
            /\ Records(n + 1, r)'
            /\ \A i \in 1 .. n + 1 : r[i] = s[i]
            /\ r[(n + 1) + 1] = s[n + 1] + LenSize + l
            /\ \A i \in 1 .. n : Name(r, i)' = Name(s, i)'
            /\ Name(r, n + 1)' = NameAt(s[n + 1] + LenSize, l)'
      <3>1. /\ Types' /\ n \in Nat /\ s \in [1 .. n + 1 -> 0 .. MaxSize] /\ Records(n, s)' /\ l \in 1 .. MaxTag
            /\ LenAt(s[n + 1])' = l /\ s[n + 1] + LenSize + l <= size'
        BY <2>2, <2>3, <2>4
      <3>2. PICK r : Longer(n, s, l, r)'
        BY ONLY <3>1, OneMore
      <3> QED BY ONLY <3>2 DEF Longer
    <2>6. \A i \in 1 .. n : Name(r, i)' = Name(s, i)
      BY <1>1, <2>5, SameFile
    <2>7. Name(r, n + 1)' = NameAt(off + LenSize, l)
      BY <1>1, <2>1, <2>5 DEF NameAt
    <2>8. IdsAre(n + 1, r)'
      <3>1. \A h \in issued : h[2] \in Nat
        BY DEF IInv, Types, TypeOK
      <3> QED BY <1>1, <1>6, <2>6, <3>1 DEF IdsAre
    <2>9. Blank(r[(n + 1) + 1])'
      <3> SUFFICES ASSUME NEW o \in Byte, o >= off + LenSize + l PROVE disk[o] = 0
        BY <1>1, <2>1, <2>5 DEF Blank
      <3>1. o >= off /\ o # off /\ ~(o < off + LenSize + l)
        <4>1. off \in Nat /\ LenSize \in Nat \ {0} /\ MaxTag \in Nat /\ l \in 1 .. MaxTag /\ MaxSize \in Nat
          BY <1>4, <1>5, <2>2
        <4>2. o \in Int
          BY <4>1 DEF Byte
        <4> QED BY <4>1, <4>2
      <3> QED BY <1>6, <2>1, <2>2, <3>1 DEF OneMoreOrBlank
    <2>10. OneMoreOrBlank(r[(n + 1) + 1])'
      BY <2>9 DEF Blank, OneMoreOrBlank
    <2>11. Restored(n + 1, r)'
      <3>1. \A i \in 1 .. n + 1 : tags'[i] = Name(r, i)'
        BY <1>6, <1>7, <1>9, <2>6, <2>7
      <3>2. Len(tags') = n + 1 /\ off' = r[(n + 1) + 1]
        BY <1>1, <1>7, <1>9, <2>1, <2>5
      <3> QED BY <1>1, <1>6, <3>1, <3>2 DEF Restored
    <2>12. File(n + 1, r)'
      BY <1>1, <1>6, <2>5, <2>8, <2>9, <2>10, <2>11, SameFile DEF File
    <2> QED BY <2>5, <2>12 DEF AFile
  <1> QED BY <1>5, <1>8, <1>9

\* RestoreBeyondFile: only a record that was cut short claims to end beyond the file.
LEMMA BeyondStep ==
  ASSUME IInv, RestoreBeyondFile
  PROVE  (Kept' => AFile') /\ harm' # {}
PROOF
  <1>1. /\ mode = "restore" /\ ~AtEnd /\ HasLength /\ off + LenSize + LenAt(off) > size
        /\ mode' = "bus"
        /\ UNCHANGED <<disk, size, page, pos, next, off, tags, cur, todo, issued, harm>>
    BY DEF RestoreBeyondFile
  <1>2. LenSize \in Nat \ {0} /\ MaxTag \in Nat /\ size \in Nat /\ Types
    BY TagStoreAssumption DEF IInv, Types, TypeOK
  <1>3. ASSUME Kept
        PROVE  AFile' /\ harm # {}
    <2>1. PICK n \in Nat : \E s \in [1 .. n + 1 -> 0 .. MaxSize] : File(n, s)
      BY <1>3 DEF IInv, AFile
    <2>2. PICK s \in [1 .. n + 1 -> 0 .. MaxSize] : File(n, s)
      BY <2>1
    <2>3. File(n, s)'
      BY <1>1, <2>2, SameFile DEF File
    <2>4. ASSUME harm = {} PROVE FALSE
      <3>1. Len(tags) \in 0 .. n /\ off = s[Len(tags) + 1] /\ off + LenSize <= size
        BY <1>1, <1>2, <2>2, ReadAtOff DEF HasLength
      <3>2. CASE Len(tags) < n
        <4>1. off + LenSize + LenAt(off) <= size /\ LenAt(off) \in 1 .. MaxTag /\ off \in Nat
          BY <1>1, <1>2, <2>2, <3>2, ReadAtOff
        <4> QED BY <1>1, <1>2, <4>1
      <3>3. CASE Len(tags) = n
        <4>1. off \in Byte /\ LenAt(off) = disk[off]
          BY <1>1, <1>2, <2>2, <3>1, <3>3, ReadAtOff
        <4>2. Blank(off)
          BY <1>1, <2>2, <2>4, <3>1, <3>3 DEF File
        <4>3. off >= off
          BY <4>1, TagStoreAssumption DEF Byte
        <4> QED BY <1>1, <3>1, <4>1, <4>2, <4>3 DEF Blank, AtEnd
      <3> QED BY <3>1, <3>2, <3>3
    <2> QED BY <2>3, <2>4 DEF AFile
  <1> QED BY <1>1, <1>3 DEF Kept

\* FindTag: the id found is that of a record.
LEMMA FindStep ==
  ASSUME IInv, NEW t \in Tag, FindTag(t), Kept'
  PROVE  AFile'
PROOF
  <1>1. /\ mode = "run" /\ cur = <<>>
        /\ UNCHANGED <<disk, size, mode, page, pos, next, off, tags, cur, todo, harm>>
    BY DEF FindTag, Idle
  <1>2. PICK n \in Nat : \E s \in [1 .. n + 1 -> 0 .. MaxSize] : File(n, s)
    BY <1>1 DEF IInv, Kept, AFile
  <1>3. PICK s \in [1 .. n + 1 -> 0 .. MaxSize] : File(n, s)
    BY <1>2
  <1>4. PICK i \in Positions(t) : issued' = issued \cup {<<t, i - 1>>}
    BY DEF FindTag
  <1>5. /\ Len(tags) = n /\ \A j \in 1 .. n : tags[j] = Name(s, j)
        /\ IdsAre(n, s)
    BY <1>1, <1>3 DEF File, Pushed
  <1>6. i \in 1 .. n /\ Name(s, i) = t /\ i - 1 < n /\ (i - 1) + 1 = i
    BY <1>4, <1>5 DEF Positions
  <1>7. IdsAre(n, s)'
    <2>1. \A h : Name(s, h[2] + 1)' = Name(s, h[2] + 1)
      BY <1>1, SameFile
    <2> SUFFICES ASSUME NEW h \in issued' PROVE h[2] < n /\ Name(s, h[2] + 1) = h[1]
      BY <2>1 DEF IdsAre
    <2>2. CASE h \in issued
      BY <1>5, <2>2 DEF IdsAre
    <2>3. CASE h = <<t, i - 1>>
      BY <1>6, <2>3
    <2> QED BY <1>4, <2>2, <2>3
  <1>8. Pushed(n, s)'
    BY <1>1, <1>3, SameFile DEF File, Pushed, Done
  <1>9. File(n, s)'
    BY <1>1, <1>3, <1>7, <1>8, SameFile DEF File
  <1> QED BY <1>9 DEF AFile

\* AppendTag: nothing of the record is in the file yet.
LEMMA AppendStep ==
  ASSUME IInv, NEW t \in Tag, AppendTag(t), Kept'
  PROVE  AFile'
PROOF
  <1>1. /\ mode = "run" /\ cur = <<>> /\ cur' = t /\ todo' = Record(t)
        /\ UNCHANGED <<disk, size, mode, page, pos, next, off, tags, issued, harm>>
    BY DEF AppendTag, Idle
  <1>2. PICK n \in Nat : \E s \in [1 .. n + 1 -> 0 .. MaxSize] : File(n, s)
    BY <1>1 DEF IInv, Kept, AFile
  <1>3. PICK s \in [1 .. n + 1 -> 0 .. MaxSize] : File(n, s)
    BY <1>2
  <1>4. /\ Record(t) \in Seq(Nat) /\ Len(Record(t)) \in Nat \ {0} /\ t # <<>>
    BY RecordBytes, TagStoreAssumption
  <1>5. Done = 0 /\ Done' = 0
    BY <1>1, <1>4 DEF Done
  <1>6. s[n + 1] \in 0 .. MaxSize /\ s[n + 1] + 0 = s[n + 1]
    BY TagStoreAssumption
  <1>7. Pushed(n, s)'
    <2>1. Len(todo') \in 1 .. Len(Record(cur'))
      BY <1>1, <1>4
    <2>2. \A i \in 1 .. Len(todo') : todo'[i] = Record(cur')[0 + i]
      BY <1>1, <1>4
    <2>3. /\ Len(tags) = n /\ \A i \in 1 .. n : tags[i] = Name(s, i)
          /\ Blank(s[n + 1])
          /\ page = None => next = size /\ size + PageSize > MaxSize
          /\ page # None => next = page /\ page + pos = s[n + 1]
      BY <1>1, <1>3, <1>5, <1>6 DEF File, Pushed
    <2>8. Blank(s[n + 1] + Done)'
      BY <1>1, <1>5, <1>6, <2>3 DEF Blank
    <2>4. \A i \in 1 .. n : Name(s, i)' = Name(s, i)
      BY <1>1, SameFile
    <2>9. \A i \in 1 .. Done' : disk'[s[n + 1] + i - 1] = Record(cur')[i]
      BY <1>5
    <2>5. \A i \in 1 .. Len(todo') : todo'[i] = Record(cur')[Done' + i]
      BY <1>5, <2>2
    <2>6. /\ page' = None => next' = size' /\ size' + PageSize > MaxSize /\ Done' = 0
          /\ page' # None => next' = page' /\ page' + pos' = s[n + 1] + Done'
      BY <1>1, <1>5, <1>6, <2>3
    <2>7. Len(tags') = n /\ \A i \in 1 .. n : tags'[i] = Name(s, i)'
      BY <1>1, <2>3, <2>4
    <2> QED BY <2>1, <2>5, <2>6, <2>7, <2>8, <2>9 DEF Pushed
  <1>8. File(n, s)'
    BY <1>1, <1>3, <1>7, SameFile DEF File
  <1> QED BY <1>8 DEF AFile

\* A new page is only had by mapping an old one again: the room on the disk is used up, or
\* the page after the one Restore mapped is that page.
LEMMA NoNewPage ==
  ASSUME IInv, AllocatePage, Kept'
  PROVE  FALSE
PROOF
  <1>1. /\ mode = "run" /\ next + PageSize <= MaxSize
        /\ harm' = IF next < size THEN harm \cup {"remapped"} ELSE harm
    BY DEF AllocatePage, NeedsPage
  <1>2. ~(next < size) /\ harm' = harm
    BY <1>1 DEF Kept
  <1>3. PICK n : \E s : File(n, s)
    BY <1>2 DEF IInv, Kept, AFile
  <1>6. PICK s : File(n, s)
    BY <1>3
  <1>4. /\ page = None => next = size /\ size + PageSize > MaxSize
        /\ page # None => next = page /\ page + PageSize <= size
    BY <1>1, <1>6 DEF File, Pushed, IInv, Types, TypeOK
  <1>5. size \in Nat /\ next \in Nat /\ PageSize \in Nat \ {0} /\ MaxSize \in Nat
    BY TagStoreAssumption DEF IInv, Types, TypeOK
  <1> QED BY <1>1, <1>2, <1>4, <1>5

\* AllocatePageFails: of a record none of which was copied nothing is left.
LEMMA FailStep ==
  ASSUME IInv, AllocatePageFails, Kept'
  PROVE  AFile'
PROOF
  <1>1. /\ mode = "run" /\ cur # <<>>
        /\ harm' = IF todo # Record(cur) THEN harm \cup {"failed"} ELSE harm
        /\ cur' = <<>> /\ todo' = <<>>
        /\ UNCHANGED <<disk, size, mode, page, pos, next, off, tags, issued>>
    BY DEF AllocatePageFails, NeedsPage
  <1>2. todo = Record(cur) /\ harm' = harm
    BY <1>1 DEF Kept
  <1>3. PICK n \in Nat : \E s \in [1 .. n + 1 -> 0 .. MaxSize] : File(n, s)
    BY <1>2 DEF IInv, Kept, AFile
  <1>4. PICK s \in [1 .. n + 1 -> 0 .. MaxSize] : File(n, s)
    BY <1>3
  <1>5. Done = 0 /\ Done' = 0
    <2>1. cur \in Tag
      BY <1>1 DEF IInv, Types, TypeOK
    <2>2. Len(Record(cur)) \in Nat
      BY <2>1, RecordBytes, LenProperties
    <2> QED BY <1>1, <1>2, <2>2 DEF Done
  <1>6. Pushed(n, s)'
    BY <1>1, <1>4, <1>5, SameFile DEF File, Pushed
  <1>7. File(n, s)'
    BY <1>1, <1>2, <1>4, <1>6, SameFile DEF File
  <1> QED BY <1>7 DEF AFile

\* Kill: what was copied of a record stays behind the others.
LEMMA KillStep ==
  ASSUME IInv, Kill, Kept'
  PROVE  AFile'
PROOF
  <1>1. /\ mode \in {"restore", "run"} /\ mode' = "down"
        /\ page' = None /\ tags' = <<>> /\ cur' = <<>>
        /\ harm' = IF cur # <<>> /\ todo # Record(cur) THEN harm \cup {"torn"} ELSE harm
        /\ UNCHANGED <<disk, size, issued>>
    BY DEF Kill
  <1>2. PICK n \in Nat : \E s \in [1 .. n + 1 -> 0 .. MaxSize] : File(n, s)
    BY <1>1 DEF IInv, Kept, AFile
  <1>3. PICK s \in [1 .. n + 1 -> 0 .. MaxSize] : File(n, s)
    BY <1>2
  <1>4. ASSUME harm' = {} PROVE Blank(s[n + 1])
    <2>1. harm = {} /\ (cur = <<>> \/ todo = Record(cur))
      BY <1>1, <1>4
    <2>2. CASE mode = "restore"
      BY <1>3, <2>1, <2>2 DEF File
    <2>3. CASE mode = "run"
      <3>1. Done = 0
        <4>1. CASE cur = <<>>
          BY <4>1 DEF Done
        <4>2. CASE cur # <<>>
          <5>1. cur \in Tag
            BY <4>2 DEF IInv, Types, TypeOK
          <5>2. Len(Record(cur)) \in Nat
            BY <5>1, RecordBytes, LenProperties
          <5> QED BY <2>1, <4>2, <5>2 DEF Done
        <4> QED BY <4>1, <4>2
      <3>2. Blank(s[n + 1] + 0) /\ s[n + 1] \in 0 .. MaxSize /\ s[n + 1] + 0 = s[n + 1]
        BY <1>3, <2>3, <3>1, TagStoreAssumption DEF File, Pushed
      <3> QED BY <3>2
    <2> QED BY <1>1, <2>2, <2>3
  <1>5. File(n, s)'
    BY <1>1, <1>3, <1>4, SameFile DEF File
  <1> QED BY <1>5 DEF AFile

(***************************************************************************)
(* Push, memcpy: t is the name that is pushed, d how much of its record    *)
(* there was, w how much was left, and e where it starts.                  *)
(***************************************************************************)
LEMMA CopyStep ==
  ASSUME IInv, NEW c \in 1 .. PageSize, Copy(c), Types', Kept'
  PROVE  AFile'
PROOF
  <1>1. /\ mode = "run" /\ page # None /\ cur # <<>> /\ c <= Least(Len(todo), PageSize - pos)
        /\ disk' = [o \in Byte |->
                      IF o >= page + pos /\ o < page + pos + c THEN todo[o - (page + pos) + 1]
                      ELSE disk[o]]
        /\ pos' = pos + c /\ todo' = SubSeq(todo, c + 1, Len(todo))
        /\ UNCHANGED <<size, mode, page, next, off, harm>>
    BY DEF Copy
  <1>2. PICK n \in Nat : \E s \in [1 .. n + 1 -> 0 .. MaxSize] : File(n, s)
    BY <1>1 DEF IInv, Kept, AFile
  <1>3. PICK s \in [1 .. n + 1 -> 0 .. MaxSize] : File(n, s)
    BY <1>2
  <1>4. PICK t, d, e, w, z : t = cur /\ d = Done /\ e = s[n + 1] /\ w = Len(todo) /\ z = size
    OBVIOUS
  <1>5. Types /\ TypeOK
    BY DEF IInv, Types
  <1>6. /\ todo \in Seq(Nat) /\ tags \in Seq(Seq(Nat)) /\ disk \in [Byte -> Nat]
        /\ issued \subseteq Tag \X Nat /\ t \in Tag /\ w \in Nat
    BY <1>1, <1>4, <1>5, LenProperties DEF TypeOK
  <1>7. /\ PageSize \in Nat \ {0} /\ LenSize \in Nat \ {0} /\ MaxTag \in Nat /\ MaxSize \in Nat
        /\ e \in 0 .. MaxSize /\ z \in 0 .. MaxSize /\ c \in Nat \ {0}
    BY <1>4, <1>5, TagStoreAssumption DEF TypeOK
  <1>8. /\ t \in Seq(Nat) /\ t # <<>> /\ Len(t) \in 1 .. MaxTag
        /\ Len(Record(t)) = LenSize + Len(t) /\ Record(t) \in Seq(Nat)
        /\ Record(t)[1] = Len(t)
        /\ \A i \in 2 .. LenSize : Record(t)[i] = 0
        /\ \A i \in 1 .. Len(t) : Record(t)[LenSize + i] = t[i]
    BY <1>6, RecordBytes
  <1>9. /\ Records(n, s) /\ IdsAre(n, s)
        /\ Len(tags) = n /\ \A i \in 1 .. n : tags[i] = Name(s, i)
        /\ w \in 1 .. Len(Record(t))
        /\ \A i \in 1 .. w : todo[i] = Record(t)[d + i]
        /\ \A i \in 1 .. d : disk[e + i - 1] = Record(t)[i]
        /\ Blank(e + d)
        /\ next = page /\ page + pos = e + d
        /\ d = Len(Record(t)) - w
    BY <1>1, <1>3, <1>4 DEF File, Pushed, Done
  <1> DEFINE k == Len(t)
             f == e + d + c
  \* The record t begins at e and ends at e + LenSize + k; its part up to f is there now.
  <1>10. /\ k \in 1 .. MaxTag /\ k \in Nat \ {0} /\ d \in Nat /\ d + w = LenSize + k
         /\ c \in 1 .. w /\ f \in Nat /\ f <= z /\ f <= MaxSize /\ e + d <= f
         /\ f <= e + LenSize + k /\ e < f
    <2>1. page \in Nat /\ pos \in 0 .. PageSize /\ page + PageSize <= z
      BY <1>1, <1>4, <1>5 DEF TypeOK, Byte
    <2>2. c <= w /\ c <= PageSize - pos
      BY <1>1, <1>4, <1>6, <1>7, <2>1 DEF Least
    <2>3. k \in 1 .. MaxTag /\ Len(Record(t)) = LenSize + k
      BY <1>8
    <2> HIDE DEF k
    <2>4. d = Len(Record(t)) - w /\ w \in 1 .. Len(Record(t)) /\ page + pos = e + d
      BY <1>9
    <2>5. k \in 1 .. MaxTag /\ d = (LenSize + k) - w /\ w \in 1 .. LenSize + k /\ page + pos = e + d
      BY <2>3, <2>4
    <2>6. d \in Nat /\ k \in Nat \ {0} /\ d + w = LenSize + k /\ c \in 1 .. w
      BY <1>7, <2>2, <2>5
    <2>7. page + pos + c <= z
      BY <1>7, <2>1, <2>2
    <2>8. e + d + c <= z
      BY <2>5, <2>7
    <2> QED BY <1>7, <2>5, <2>6, <2>8
  <1>11. \A i \in 1 .. d + c : e + i - 1 \in Byte
    <2> HIDE DEF k
    <2>1. ASSUME NEW i \in 1 .. d + c PROVE e + i - 1 \in 0 .. MaxSize - 1
      BY <1>7, <1>10
    <2> QED BY <2>1 DEF Byte
  <1>12. \A o \in Byte : disk'[o] = IF o >= e + d /\ o < f THEN todo[o - (e + d) + 1] ELSE disk[o]
    BY <1>1, <1>9
  <1> HIDE DEF f, k
  <1>13. ASSUME NEW i \in 1 .. d + c PROVE disk'[e + i - 1] = Record(t)[i]
    <2>1. e + i - 1 \in Byte
      BY <1>11
    <2>2. CASE i <= d
      <3>1. ~(e + i - 1 >= e + d) /\ i \in 1 .. d
        BY <1>7, <1>10, <2>2
      <3> QED BY <1>9, <1>12, <2>1, <3>1
    <2>3. CASE ~(i <= d)
      <3>1. /\ e + i - 1 >= e + d /\ e + i - 1 < f
            /\ (e + i - 1) - (e + d) + 1 = i - d /\ i - d \in 1 .. w /\ d + (i - d) = i
        <4>1. d \in Nat /\ e \in Nat /\ c \in 1 .. w /\ w \in Nat /\ i \in 1 .. d + c /\ i > d
          BY <1>6, <1>7, <1>10, <2>3
        <4>2. e + i - 1 >= e + d /\ e + i - 1 < e + d + c
          BY <4>1
        <4>3. (e + i - 1) - (e + d) + 1 = i - d /\ d + (i - d) = i
          BY <4>1
        <4>4. i - d \in 1 .. w
          BY <4>1
        <4> QED BY <4>2, <4>3, <4>4 DEF f
      <3>2. disk'[e + i - 1] = todo[(e + i - 1) - (e + d) + 1]
        BY <1>12, <2>1, <3>1
      <3>3. disk'[e + i - 1] = todo[i - d]
        BY <3>1, <3>2
      <3> QED BY <1>9, <3>1, <3>3
    <2> QED BY <2>2, <2>3
  <1>14. Blank(f)'
    <2> SUFFICES ASSUME NEW o \in Byte, o >= f PROVE disk'[o] = 0
      BY DEF Blank
    <2>1. o \in Int
      BY <1>7 DEF Byte
    <2>2. ~(o < f) /\ o >= e + d
      BY <1>7, <1>10, <2>1
    <2> QED BY <1>9, <1>12, <2>2 DEF Blank
  <1>15. Records(n, s)' /\ \A i \in 1 .. n : Name(s, i)' = Name(s, i)
    <2>1. ASSUME NEW o \in Byte, o < s[n + 1] PROVE disk'[o] = disk[o]
      <3>1. o \in Int /\ o < e
        BY <1>4, <1>7, <2>1 DEF Byte
      <3>2. ~(o >= e + d)
        BY <1>7, <1>10, <3>1
      <3> QED BY <1>12, <3>2
    <2>2. s[n + 1] <= size'
      BY <1>1, <1>9 DEF Records
    <2> QED BY <1>5, <1>9, <2>1, <2>2, KeptBelow
  <1>16. Blank(size)'
    <2> SUFFICES ASSUME NEW o \in Byte, o >= z PROVE disk'[o] = 0
      BY <1>1, <1>4 DEF Blank
    <2>1. o \in Int
      BY <1>7 DEF Byte
    <2>2. o >= f
      BY <1>7, <1>10, <2>1
    <2> QED BY <1>14, <2>2 DEF Blank
  <1>17. OneMoreOrBlank(e)'
    <2> SUFFICES ASSUME NEW o \in Byte, o >= e, disk'[o] # 0
                 PROVE  /\ disk'[e] \in 1 .. MaxTag
                        /\ o = e \/ (o >= e + LenSize /\ o < e + LenSize + disk'[e])
      BY DEF OneMoreOrBlank
    <2>1. o \in Int
      BY <1>7 DEF Byte
    <2>2. o < f
      <3>1. ~(o >= f)
        BY <1>14 DEF Blank
      <3> QED BY <1>10, <2>1, <3>1
    <2>3. PICK i \in 1 .. d + c : o = e + i - 1
      <3>1. o - e + 1 \in 1 .. d + c /\ o = e + (o - e + 1) - 1
        BY <1>7, <1>10, <2>1, <2>2 DEF f
      <3> QED BY <3>1
    <2>4. disk'[o] = Record(t)[i] /\ i \notin 2 .. LenSize
      BY <1>8, <1>13, <2>3
    <2>5. disk'[e] = k
      <3>1. 1 \in 1 .. d + c /\ e + 1 - 1 = e
        BY <1>7, <1>10
      <3> QED BY <1>8, <1>13, <3>1 DEF k
    <2>6. i = 1 \/ i > LenSize
      BY <1>7, <1>10, <2>4
    <2>7. o = e \/ (o >= e + LenSize /\ o < e + LenSize + k)
      BY <1>7, <1>10, <2>1, <2>2, <2>3, <2>6
    <2> QED BY <1>10, <2>5, <2>7
  <1>18. page \in Nat /\ pos \in Nat /\ page + pos = e + d /\ d \in Nat
    <2>1. page \in Nat /\ pos \in Nat
      BY <1>1, <1>5, <1>7 DEF TypeOK, Byte
    <2> QED BY <1>9, <1>10, <2>1
  <1>19. CASE c # w
    <2>1. UNCHANGED <<tags, issued, cur>>
      BY <1>4, <1>19 DEF Copy
    <2>2. /\ Len(todo') = w - c /\ w - c \in 1 .. LenSize + k
          /\ \A i \in 1 .. w - c : todo'[i] = todo[c + i]
      <3>1. c + 1 \in Nat /\ c + 1 \in 1 .. w /\ w \in 1 .. w /\ w - (c + 1) + 1 = w - c
            /\ w - c \in 1 .. LenSize + k /\ \A i \in Int : (c + 1) + i - 1 = c + i
        BY <1>6, <1>7, <1>10, <1>19
      <3>2. /\ Len(todo') = w - (c + 1) + 1
            /\ \A i \in 1 .. w - (c + 1) + 1 : todo'[i] = todo[(c + 1) + i - 1]
        BY <1>1, <1>4, <1>6, <3>1, SubSeqProperties
      <3> QED BY <3>1, <3>2
    <2>3. Done' = d + c
      <3>1. Done' = (LenSize + k) - (w - c)
        BY <1>4, <1>8, <2>1, <2>2 DEF Done, k
      <3>2. (LenSize + k) - (w - c) = d + c
        BY <1>6, <1>7, <1>10
      <3> QED BY <3>1, <3>2
    <2>4. \A i \in 1 .. w - c : todo'[i] = Record(t)[(d + c) + i]
      <3> SUFFICES ASSUME NEW i \in 1 .. w - c PROVE todo[c + i] = Record(t)[(d + c) + i]
        BY <2>2
      <3>1. c + i \in 1 .. w /\ d + (c + i) = (d + c) + i
        BY <1>6, <1>7, <1>10
      <3> QED BY <1>9, <3>1
    <2>5. e + (d + c) = f
      BY <1>7, <1>10 DEF f
    <2>6. Blank(s[n + 1] + Done)'
      BY <1>4, <1>14, <2>3, <2>5 DEF Blank
    <2>7. page' # None /\ next' = page' /\ page' + pos' = s[n + 1] + Done'
      <3>1. page + (pos + c) = f
        BY <1>7, <1>18 DEF f
      <3> QED BY <1>1, <1>4, <1>9, <2>3, <2>5, <3>1
    <2>8. /\ Len(tags') = n /\ \A i \in 1 .. n : tags'[i] = Name(s, i)'
          /\ cur' = t /\ Len(Record(t)) = LenSize + k
      BY <1>4, <1>8, <1>9, <1>15, <2>1 DEF k
    <2>9. Pushed(n, s)'
      BY <1>4, <1>13, <2>2, <2>3, <2>4, <2>6, <2>7, <2>8 DEF Pushed
    <2>10. IdsAre(n, s)'
      BY <1>6, <1>9, <1>15, <2>1 DEF IdsAre
    <2>11. File(n, s)'
      BY <1>1, <1>4, <1>15, <1>16, <1>17, <2>9, <2>10 DEF File
    <2> QED BY <2>11 DEF AFile
  <1>20. CASE c = w
    <2>1. tags' = Append(tags, t) /\ issued' = issued \cup {<<t, n>>} /\ cur' = <<>>
      BY <1>4, <1>9, <1>20 DEF Copy
    <2>2. d + c = LenSize + k /\ f = e + LenSize + k
      BY <1>6, <1>7, <1>10, <1>20 DEF f
    <2>3. LenAt(s[n + 1])' = k
      <3>1. ASSUME NEW j \in 0 .. LenSize - 1 PROVE disk'[e + j] = Record(t)[j + 1]
        <4>1. j + 1 \in 1 .. d + c /\ e + (j + 1) - 1 = e + j
          BY <1>7, <1>10, <2>2
        <4>2. disk'[e + (j + 1) - 1] = Record(t)[j + 1]
          BY <1>13, <4>1
        <4> QED BY <4>1, <4>2
      <3>2. disk'[e] = k
        <4>1. 0 \in 0 .. LenSize - 1 /\ e + 0 = e /\ 0 + 1 = 1
          BY <1>7
        <4> QED BY <1>8, <3>1, <4>1 DEF k
      <3>3. ASSUME NEW j \in 1 .. LenSize - 1 PROVE disk'[e + j] = 0
        <4>1. j \in 0 .. LenSize - 1 /\ j + 1 \in 2 .. LenSize
          BY <1>7
        <4> QED BY <1>8, <3>1, <4>1
      <3> QED BY <1>4, <3>2, <3>3 DEF LenAt
    <2>4. s[n + 1] + LenSize + k <= size'
      BY <1>1, <1>4, <1>10, <2>2
    <2>5. PICK r \in [1 .. (n + 1) + 1 -> 0 .. MaxSize] :
            /\ Records(n + 1, r)'
            /\ \A i \in 1 .. n + 1 : r[i] = s[i]
            /\ r[(n + 1) + 1] = s[n + 1] + LenSize + k
            /\ \A i \in 1 .. n : Name(r, i)' = Name(s, i)'
            /\ Name(r, n + 1)' = NameAt(s[n + 1] + LenSize, k)'
      <3>1. /\ Types' /\ n \in Nat /\ s \in [1 .. n + 1 -> 0 .. MaxSize] /\ Records(n, s)' /\ k \in 1 .. MaxTag
            /\ LenAt(s[n + 1])' = k /\ s[n + 1] + LenSize + k <= size'
        BY <1>10, <1>15, <2>3, <2>4
      <3>2. PICK r : Longer(n, s, k, r)'
        BY ONLY <3>1, OneMore
      <3> QED BY ONLY <3>2 DEF Longer
    <2>6. Name(r, n + 1)' = t
      <3>1. ASSUME NEW i \in 1 .. k PROVE disk'[e + LenSize + i - 1] = t[i]
        <4>1. LenSize + i \in 1 .. d + c /\ e + (LenSize + i) - 1 = e + LenSize + i - 1
          BY <1>7, <1>10, <2>2
        <4>2. disk'[e + (LenSize + i) - 1] = Record(t)[LenSize + i]
          BY <1>13, <4>1
        <4> QED BY <1>8, <4>1, <4>2 DEF k
      <3>2. NameAt(e + LenSize, k)' = [i \in 1 .. k |-> t[i]]
        BY <3>1 DEF NameAt
      <3>3. t = [i \in 1 .. k |-> t[i]]
        BY <1>8 DEF k
      <3> QED BY <1>4, <2>5, <3>2, <3>3
    <2>7. \A i \in 1 .. n : Name(r, i)' = Name(s, i)
      BY <1>15, <2>5
    <2>8. Len(tags') = n + 1 /\ \A i \in 1 .. n + 1 : tags'[i] = Name(r, i)'
      <3>1. t \in Seq(Nat) /\ tags \in Seq(Seq(Nat)) /\ Len(tags) = n
        BY <1>6, <1>8, <1>9
      <3> DEFINE a == Append(tags, t)
      <3>2. Len(a) = Len(tags) + 1 /\ a[Len(tags) + 1] = t /\ \A i \in 1 .. Len(tags) : a[i] = tags[i]
        <4>1. tags \in Seq(Seq(Nat)) /\ t \in Seq(Nat)
          BY <3>1
        <4> QED BY ONLY <4>1, AppendProperties
      <3> HIDE DEF a
      <3>3. Len(a) = n + 1 /\ a[n + 1] = t /\ \A i \in 1 .. n : a[i] = tags[i]
        BY <3>1, <3>2
      <3>4. tags' = a
        BY <2>1 DEF a
      <3>5. \A i \in 1 .. n : tags'[i] = Name(r, i)'
        BY <1>9, <2>7, <3>3, <3>4
      <3>6. tags'[n + 1] = Name(r, n + 1)'
        BY <2>6, <3>3, <3>4
      <3>7. \A i \in 1 .. n + 1 : i \in 1 .. n \/ i = n + 1
        OBVIOUS
      <3> QED BY <3>3, <3>4, <3>5, <3>6, <3>7
    <2>9. Done' = 0 /\ r[(n + 1) + 1] = f /\ f + 0 = f
      BY <1>4, <1>10, <2>1, <2>2, <2>5 DEF Done
    <2>10. Blank(r[(n + 1) + 1] + Done)' /\ OneMoreOrBlank(r[(n + 1) + 1])'
      BY <1>14, <2>9 DEF Blank, OneMoreOrBlank
    <2>11. page' # None /\ next' = page' /\ page' + pos' = r[(n + 1) + 1] + Done'
      <3>1. page + (pos + c) = f
        BY <1>7, <1>18 DEF f
      <3> QED BY <1>1, <1>9, <2>9, <3>1
    <2>12. Pushed(n + 1, r)'
      BY <2>1, <2>8, <2>9, <2>10, <2>11 DEF Pushed
    <2>13. IdsAre(n + 1, r)'
      <3> SUFFICES ASSUME NEW h \in issued' PROVE h[2] < n + 1 /\ Name(r, h[2] + 1)' = h[1]
        BY DEF IdsAre
      <3>1. CASE h \in issued
        <4>1. h[2] \in Nat /\ h[2] < n /\ Name(s, h[2] + 1) = h[1]
          BY <1>6, <1>9, <3>1 DEF IdsAre
        <4> QED BY <2>7, <4>1
      <3>2. CASE h = <<t, n>>
        BY <2>6, <3>2
      <3> QED BY <2>1, <3>1, <3>2
    <2>14. File(n + 1, r)'
      BY <1>1, <1>16, <2>5, <2>10, <2>12, <2>13 DEF File
    <2> QED BY <2>5, <2>14 DEF AFile
  <1> QED BY <1>19, <1>20

\* Every step keeps the invariant.
LEMMA StepIInv == IInv /\ [Next]_vars => IInv'
PROOF
  <1> SUFFICES ASSUME IInv, [Next]_vars PROVE IInv'
    OBVIOUS
  <1>1. CASE UNCHANGED vars
    <2>1. Types' /\ Kept' = Kept /\ (mode = "bus" => harm # {})'
      BY <1>1 DEF IInv, Types, TypeOK, Kept, vars
    <2>2. AFile' = AFile
      BY <1>1 DEF AFile, File, Records, IdsAre, Name, NameAt, LenAt, Blank, OneMoreOrBlank, Restored,
                  Pushed, Done, vars
    <2> QED BY <2>1, <2>2 DEF IInv
  <1>2. CASE Next
    <2>1. Types'
      BY <1>2, TypesStep DEF IInv
    <2>2. Kept' => AFile'
      <3> SUFFICES ASSUME Kept' PROVE AFile'
        OBVIOUS
      <3>1. CASE Start
        BY <3>1, StartStep
      <3>2. CASE RestoreEnds
        BY <3>2, EndStep
      <3>3. CASE RestoreGivesUp
        BY <3>3, GiveUpStep
      <3>4. CASE RestoreRecord
        BY <2>1, <3>4, ReadStep
      <3>5. CASE RestoreBeyondFile
        BY <3>5, BeyondStep
      <3>6. CASE \E t \in Tag : FindTag(t) \/ AppendTag(t)
        BY <3>6, FindStep, AppendStep
      <3>7. CASE AllocatePage
        BY <3>7, NoNewPage
      <3>8. CASE AllocatePageFails
        BY <3>8, FailStep
      <3>9. CASE \E c \in 1 .. PageSize : Copy(c)
        BY <2>1, <3>9, CopyStep
      <3>10. CASE Kill
        BY <3>10, KillStep
      <3>11. CASE Dead
        BY <1>1, <3>11 DEF Dead, IInv
      <3> QED BY <1>2, <3>1, <3>2, <3>3, <3>4, <3>5, <3>6, <3>7, <3>8, <3>9, <3>10, <3>11 DEF Next
    <2>3. (mode = "bus" => harm # {})'
      <3>1. CASE RestoreBeyondFile
        BY <3>1, BeyondStep
      <3>2. CASE Dead
        BY <1>1, <3>2 DEF Dead, IInv, vars
      <3>3. CASE ~RestoreBeyondFile /\ ~Dead
        BY <1>2, <3>3 DEF Next, Start, RestoreEnds, RestoreGivesUp, RestoreRecord, FindTag, AppendTag,
                          Idle, AllocatePage, AllocatePageFails, NeedsPage, Copy, Kill
      <3> QED BY <3>1, <3>2, <3>3
    <2> QED BY <2>1, <2>2, <2>3 DEF IInv
  <1> QED BY <1>1, <1>2

(***************************************************************************)
(* While nothing but kills has befallen it, the file is a row of records   *)
(* from its first byte on, behind which there is at most one more that was *)
(* cut short; those that Restore has read are _tags, in their order, the   *)
(* ids handed out are their numbers, and Push puts the next byte where     *)
(* they end (TagStore, LogWriteBuf, store.h).                               *)
(***************************************************************************)
THEOREM Inductive == Spec => []IInv
  BY InitIInv, StepIInv, PTL DEF Spec
-----------------------------------------------------------------------------
(***************************************************************************)
(* Every variable keeps its type, and the page that is mapped lies within  *)
(* the file (LogWriteBuf::SetPosition and AllocatePage).                   *)
(***************************************************************************)
THEOREM TypeCorrect == Spec => []TypeOK
PROOF
  <1>1. IInv => TypeOK
    BY DEF IInv, Types
  <1> QED BY <1>1, Inductive, PTL

(***************************************************************************)
(* An id stands for the name it was handed out for, over any number of     *)
(* starts and of kills, also in the middle of a record, as long as a page  *)
(* was had when one was needed, Restore read to the end and no page was    *)
(* mapped over again (TagStore::Restore, GetOrCreateTag).                   *)
(***************************************************************************)
THEOREM TagsKeptHolds == Spec => []TagsKept
PROOF
  <1>1. ASSUME IInv PROVE TagsKept
    <2> SUFFICES ASSUME mode = "run", harm \subseteq {"torn"}, NEW h \in issued
                 PROVE  h[2] < Len(tags) /\ tags[h[2] + 1] = h[1]
      BY DEF TagsKept
    <2>1. PICK n \in Nat : \E s : File(n, s)
      BY <1>1 DEF IInv, Kept, AFile
    <2>2. PICK s : File(n, s)
      BY <2>1
    <2>3. /\ Len(tags) = n /\ \A i \in 1 .. n : tags[i] = Name(s, i)
          /\ h[2] < n /\ Name(s, h[2] + 1) = h[1]
      BY <2>2 DEF File, Pushed, IdsAre
    <2>4. h[2] \in Nat
      BY <1>1 DEF IInv, Types, TypeOK
    <2>5. h[2] + 1 \in 1 .. n
      BY <2>3, <2>4
    <2> QED BY <2>3, <2>5
  <1> QED BY <1>1, Inductive, PTL

(***************************************************************************)
(* The program can start on its file again unless something has befallen   *)
(* it: the length of every record Restore reads is that of a name within   *)
(* the file (TagStore::Restore, LogReadBuf::Pop).                           *)
(***************************************************************************)
THEOREM StartsAgainHolds == Spec => []StartsAgain
PROOF
  <1>1. IInv => StartsAgain
    BY DEF IInv, StartsAgain
  <1> QED BY <1>1, Inductive, PTL

(***************************************************************************)
(* No byte of the file that was written is written again, whatever page    *)
(* and position Restore has left the log at (LogWriteBuf::SetPosition,      *)
(* Push), as long as no page is mapped over again.                         *)
(***************************************************************************)
THEOREM AppendOnlyHolds == Spec => AppendOnly
PROOF
  <1> DEFINE Appends == harm' \subseteq {"torn"} => \A o \in Byte : disk[o] # 0 => disk'[o] = disk[o]
  <1>1. ASSUME IInv, Next PROVE Appends
    <2> SUFFICES ASSUME Kept', NEW o \in Byte, disk[o] # 0 PROVE disk'[o] = disk[o]
      BY DEF Kept
    <2>1. CASE AllocatePage
      BY <1>1, <2>1, NoNewPage
    <2>2. ASSUME NEW c \in 1 .. PageSize, Copy(c) PROVE disk'[o] = disk[o]
      <3>1. /\ mode = "run" /\ page # None /\ harm' = harm
            /\ disk' = [a \in Byte |->
                          IF a >= page + pos /\ a < page + pos + c THEN todo[a - (page + pos) + 1]
                          ELSE disk[a]]
        BY <2>2 DEF Copy
      <3>2. PICK n : \E s : File(n, s)
        BY <1>1, <3>1 DEF IInv, Kept, AFile
      <3>3. PICK s : File(n, s)
        BY <3>2
      <3>4. page + pos = s[n + 1] + Done /\ Blank(s[n + 1] + Done)
        BY <3>1, <3>3 DEF File, Pushed
      <3>5. ~(o >= page + pos)
        BY <2>2, <3>4 DEF Blank
      <3> QED BY <3>1, <3>5
    <2>3. CASE UNCHANGED disk
      BY <2>3
    <2>4. AllocatePage \/ (\E c \in 1 .. PageSize : Copy(c)) \/ UNCHANGED disk
      BY <1>1 DEF Next, Start, RestoreEnds, RestoreGivesUp, RestoreRecord, RestoreBeyondFile, FindTag,
                  AppendTag, AllocatePageFails, Kill, Dead, vars
    <2> QED BY <2>1, <2>2, <2>3, <2>4
  <1>2. IInv /\ [Next]_vars => [Appends]_vars
    BY <1>1
  <1> QED BY <1>2, Inductive, PTL DEF Spec, AppendOnly
=============================================================================
