------------------------------- MODULE Ticker -------------------------------
(***************************************************************************)
(* The ticker messages of GDAX: each is numbered and pushed to the cache   *)
(* (SeqCache), its trade is published and tagged (TagStream).  Both files  *)
(* are read again at the next start: the cache from the files of all runs, *)
(* the tags from one file that goes on where its last page ended, while    *)
(* the published stream, whose offsets they hold, starts a new file.       *)
(***************************************************************************)
EXTENDS TagStream, SeqCache

CONSTANTS
  Kinds,      \* the records queued: [tag, fd, persistent, len]
  MaxRecords, \* bounds on the records of the tag file, on the records of the
  MaxTicks,   \* cache and on the runs
  MaxRuns

ASSUME TickerAssumption ==
  /\ Kinds \subseteq [tag : Nat, fd : Int, persistent : BOOLEAN, len : Nat]
  /\ MaxRuns \in Nat \ {0} /\ MaxRecords \in Nat /\ MaxTicks \in Nat

VARIABLES
  run,      \* the number of this run
  records,  \* the records in the cache's files of all runs, in their order
  restored, \* how many of them the SequenceCache has
  cache     \* the SequenceCache

cacheVars == <<run, records, restored, cache>>
vars == <<tagVars, cacheVars>>

Init ==
  /\ TagInit(<<>>)
  /\ run = 1 /\ records = <<>> /\ restored = 0 /\ cache = EmptyCache

TypeOK ==
  /\ TagTypeOK
  /\ run \in 1 .. MaxRuns
  /\ restored \in 0 .. Len(records)
  /\ cache.next \in Nat /\ DOMAIN cache.latest \subseteq {k.tag : k \in Kinds}
-----------------------------------------------------------------------------
\* RestoreStore is done, and the loop runs.
Up == restored = Len(records)

\* RestoreStore, one record of the files.
RestoreStore ==
  /\ ~Up
  /\ cache' = Restore(cache, records[restored + 1]) /\ restored' = restored + 1
  /\ UNCHANGED <<tagVars, run, records>>

\* Ticker messages, by the record they queue: one for no descriptor in particular,
\* or none (of length 0) when there is no trade in the message.
Ticks == {k \in Kinds : k.fd = -1 /\ k.persistent}

Room == Len(log) < MaxRecords

\* A ticker message.  One without a trade is cached only: no reader sees it, so it
\* is bounded to the time before there are readers.
Tick(k) ==
  /\ Up /\ Runs /\ Len(records) < MaxTicks
  /\ records' = Append(records, Stamp(cache, k.tag)) /\ cache' = Push(cache, k.tag)
  /\ restored' = restored + 1
  /\ \/ k.len > 0 /\ Room /\ Queue(k)
     \/ k.len = 0 /\ (\A fd \in Fd : reader[fd].state = "none") /\ UNCHANGED tagVars
  /\ UNCHANGED run

\* A record queued by another user of the class: see the tests.
QueueOther(k) == Up /\ Runs /\ Room /\ Queue(k) /\ UNCHANGED cacheVars

\* The next run, over files that hold these records.
NextRun(cached, tags) ==
  /\ run < MaxRuns /\ Len(Padded(tags)) < MaxRecords
  /\ run' = run + 1
  /\ records' = cached /\ restored' = 0 /\ cache' = EmptyCache
  /\ log' = Padded(tags) /\ next' = Len(log')
  /\ offset' = 0 /\ readable' = FALSE /\ armed' = {}
  /\ reader' = [fd \in Fd |-> NoReader]
  /\ sent' = [fd \in Fd |-> <<>>]
  /\ hung' = 0

\* A kill, also while the cache is restored.
Kill == NextRun(records, log)

(***************************************************************************)
(* A kill in the middle of a ticker message: the key of the cached record  *)
(* has been copied and its number not, or the record is there and no tag,  *)
(* or the flags of the tag are missing.                                    *)
(***************************************************************************)
KillInTick(k) ==
  /\ Up /\ Runs /\ Room /\ Len(records) < MaxTicks
  /\ LET whole == Append(records, Stamp(cache, k.tag))
     IN \/ NextRun(Append(records, [key |-> k.tag, no |-> 0]), log)
        \/ NextRun(whole, log)
        \/ k.len > 0 /\ NextRun(whole, Append(log, [Record(k) EXCEPT !.persistent = FALSE]))

Next ==
  \/ RestoreStore
  \/ Up /\ OnTags /\ UNCHANGED cacheVars
  \/ \E k \in Ticks : Tick(k) \/ KillInTick(k)
  \/ \E k \in Kinds \ Ticks : QueueOther(k)
  \/ Kill

Spec == Init /\ [][Next]_vars
FairSpec == Spec /\ TagFairness
-----------------------------------------------------------------------------
Whole(r) == r.no > 0

(***************************************************************************)
(* The numbers in the files grow from record to record and from run to     *)
(* run, none is used twice, although Restore leaves the last number as the *)
(* next one: Push never uses the first of the two numbers a message takes. *)
(* And the cache holds the last record of each key it has read or pushed,  *)
(* which after a kill may be one without a number.                         *)
(***************************************************************************)
Sequenced ==
  /\ \A i, j \in DOMAIN records :
       i < j /\ Whole(records[i]) /\ Whole(records[j]) => records[i].no < records[j].no
  /\ \A i \in 1 .. restored :
       (\A j \in 1 .. restored : records[j].key = records[i].key => j <= i)
         => cache.latest[records[i].key] = records[i]
=============================================================================
