------------------------------ MODULE RunLog ------------------------------
(***************************************************************************)
(* The log of one run, from the daemon's batcher to the sealed object:     *)
(* LogBatcher (packages/cli/src/daemon/support.ts), appendRunLog           *)
(* (api/runner-protocol.ts), appendLogTail (supervisor/logic.ts) and the   *)
(* spill, compaction and sealing of supervisor/run-log.ts.                 *)
(*                                                                         *)
(* A chunk of output is its number, all chunks have one size, and the tail *)
(* kept in the row holds TailCap of them; an object of the bucket is the   *)
(* sequence of chunks it holds, <<>> when it is missing.  Each step is one *)
(* statement on the database or one call of the bucket.  `Keepers' are the *)
(* callers of compactRunLog and sealRunLog: the sweep, and the end of a    *)
(* run.  RunLifecycle decides when the run ends; here it may end any time. *)
(*                                                                         *)
(* Events: "cut" lets the daemon lose a request the server is handling or  *)
(* has answered, and "evict" kills a handler between two statements, or    *)
(* between two calls of the bucket.  MaxEvictions bounds how many times a  *)
(* keeper is killed.                                                       *)
(***************************************************************************)
EXTENDS Integers, Sequences, SequencesExt, FiniteSets

CONSTANTS Chunks,          \* chunks the harness produces
          TailCap,         \* RUN_LOG_MAX_BYTES, in chunks
          CompactTrigger,  \* COMPACT_TRIGGER
          CompactMax,      \* COMPACT_MAX_PER_PASS
          MaxPending,      \* maxPendingBytes, in chunks
          Appends,         \* request handlers of the log endpoint
          Keepers,         \* callers of compaction and sealing
          Events,
          MaxEvictions,
          None

ASSUME SizeAssumption ==
  /\ Chunks \in Nat /\ TailCap \in Nat \ {0}
  /\ CompactTrigger \in Nat \ {0} /\ CompactMax \in Nat /\ CompactTrigger <= CompactMax
  /\ MaxPending \in Nat \ {0}
  /\ None \notin Appends
  /\ MaxEvictions \in Nat
  /\ Events \subseteq {"cut", "evict"}

VARIABLES
  active,                          \* the run's status is an active one
  log, dropped, partCount, compacted, sealed, logSeq,    \* its row
  head, part, full,                                      \* its objects
  produced, pending, inflight,                           \* the daemon's LogBatcher
  spilled,                                 \* history: the chunks the row has dropped
  append, keeper,                                        \* what each handler holds
  evictions

rowVars == <<log, dropped, partCount, compacted, sealed, logSeq, spilled>>
bucketVars == <<head, part, full>>
batchVars == <<produced, pending, inflight>>
vars == <<active, rowVars, bucketVars, batchVars, append, keeper, evictions>>

IdleAppend == [pc |-> "idle", seq |-> 0, reads |-> 0, log |-> <<>>,
               dropped |-> 0, parts |-> 0, answer |-> "none"]
IdleKeeper == [pc |-> "idle", job |-> "none", from |-> 1, to |-> 0, next |-> 1,
               buf |-> <<>>, tail |-> <<>>]

Init ==
  /\ active = TRUE
  /\ log = <<>> /\ dropped = 0 /\ partCount = 0 /\ compacted = 0 /\ sealed = FALSE
  /\ logSeq = 0
  /\ head = <<>> /\ part = [n \in 1..Chunks |-> <<>>] /\ full = <<>>
  /\ produced = 0 /\ pending = <<>> /\ inflight = None /\ spilled = <<>>
  /\ append = [a \in Appends |-> IdleAppend]
  /\ keeper = [k \in Keepers |-> IdleKeeper]
  /\ evictions = 0

-----------------------------------------------------------------------------
(* The daemon: flush queues a numbered chunk, drain sends the oldest one.   *)

\* trimPending: the oldest chunks go (a marker in the text of the new head is
\* all that says so).
TrimPending(queue) ==
  IF Len(queue) <= MaxPending THEN queue
  ELSE SubSeq(queue, Len(queue) - MaxPending + 1, Len(queue))

Flush ==
  /\ produced < Chunks
  /\ produced' = produced + 1
  /\ pending' = TrimPending(Append(pending, produced + 1))
  /\ UNCHANGED <<active, rowVars, bucketVars, inflight, append, keeper, evictions>>

Send(a) ==
  /\ inflight = None /\ pending # <<>> /\ append[a].pc = "idle"
  /\ inflight' = a
  /\ append' = [append EXCEPT ![a] = [IdleAppend EXCEPT !.pc = "read", !.seq = Head(pending)]]
  /\ UNCHANGED <<active, rowVars, bucketVars, produced, pending, keeper, evictions>>

\* The send settles: on success drain shifts whatever is at the head by now,
\* on an error the chunk stays for the next flush.
Shifts(a) == inflight = a /\ append[a].answer = "ok"

Reply(a) ==
  /\ append[a].pc = "reply"
  /\ append' = [append EXCEPT ![a] = IdleAppend]
  /\ inflight' = IF inflight = a THEN None ELSE inflight
  /\ pending' = IF Shifts(a) THEN Tail(pending) ELSE pending
  /\ UNCHANGED <<active, rowVars, bucketVars, produced, keeper, evictions>>

\* The daemon sees an error while the request goes on; the chunk keeps its
\* place and its number.
Cut(a) ==
  /\ "cut" \in Events /\ inflight = a
  /\ inflight' = None
  /\ UNCHANGED <<active, rowVars, bucketVars, produced, pending, append, keeper, evictions>>

-----------------------------------------------------------------------------
(* appendRunLog.                                                            *)

Applied_Never(seq) == FALSE
Applied(seq) == seq <= logSeq

\* How many chunks appendLogTail evicts from `tail' when one more arrives.
Evicted(tail) == IF Len(tail) + 1 > TailCap THEN Len(tail) + 1 - TailCap ELSE 0

Refusal(a) ==
  CASE ~active -> "closed"
    [] active /\ Applied(append[a].seq) -> "ok"
    [] active /\ ~Applied(append[a].seq) /\ append[a].reads = 2 -> "conflict"
    [] OTHER -> "none"

\* loadRunnerRun, at first and after a lost update.
AppendRead(a) ==
  /\ append[a].pc = "read"
  /\ append' = [append EXCEPT ![a] =
       IF Refusal(a) # "none"
         THEN [IdleAppend EXCEPT !.pc = "reply", !.seq = append[a].seq, !.answer = Refusal(a)]
         ELSE [append[a] EXCEPT !.pc = IF Evicted(log) > 0 THEN "spill" ELSE "write",
                                !.log = log, !.dropped = dropped, !.parts = partCount]]
  /\ UNCHANGED <<active, rowVars, bucketVars, batchVars, keeper, evictions>>

Combined(a) == Append(append[a].log, append[a].seq)

\* spillEvicted: the object lands before the row says so.
SpillEvicted(a) ==
  /\ append[a].pc = "spill"
  /\ part' = [part EXCEPT ![append[a].parts + 1] =
                SubSeq(Combined(a), 1, Evicted(append[a].log))]
  /\ append' = [append EXCEPT ![a].pc = "write"]
  /\ UNCHANGED <<active, rowVars, head, full, batchVars, keeper, evictions>>

Unraced_WhenEnded(a) == partCount = append[a].parts
Unraced(a) == active /\ partCount = append[a].parts

AppendWrite(a) ==
  LET cut == Evicted(append[a].log) IN
  /\ append[a].pc = "write"
  /\ IF Unraced(a)
       THEN /\ log' = SubSeq(Combined(a), cut + 1, Len(Combined(a)))
            /\ dropped' = append[a].dropped + cut
            /\ partCount' = append[a].parts + (IF cut > 0 THEN 1 ELSE 0)
            /\ logSeq' = append[a].seq
            /\ spilled' = spilled \o SubSeq(Combined(a), 1, cut)
            /\ append' = [append EXCEPT ![a] = [IdleAppend EXCEPT
                 !.pc = "reply", !.seq = append[a].seq, !.answer = "ok"]]
       ELSE /\ append' = [append EXCEPT ![a] = [IdleAppend EXCEPT
                 !.pc = "read", !.seq = append[a].seq, !.reads = append[a].reads + 1]]
            /\ UNCHANGED <<log, dropped, partCount, logSeq, spilled>>
  /\ UNCHANGED <<active, compacted, sealed, bucketVars, batchVars, keeper, evictions>>

AppendEvicted(a) ==
  /\ "evict" \in Events /\ append[a].pc # "idle"
  /\ append' = [append EXCEPT ![a] = IdleAppend]
  /\ inflight' = IF inflight = a THEN None ELSE inflight
  /\ UNCHANGED <<active, rowVars, bucketVars, produced, pending, keeper, evictions>>

\* Some call of endRun: from here on no append is accepted.
EndRun ==
  /\ active /\ active' = FALSE
  /\ UNCHANGED <<rowVars, bucketVars, batchVars, append, keeper, evictions>>

-----------------------------------------------------------------------------
(* compactRunLog and sealRunLog: read head and parts in turn, put the whole *)
(* and delete the pieces.                                                   *)

Compactable_WhileActive == active /\ partCount - compacted >= CompactTrigger
Compactable == partCount - compacted >= CompactTrigger

MergeTo ==
  IF partCount <= compacted + CompactMax THEN partCount ELSE compacted + CompactMax

Sealable ==
  ~active /\ dropped > 0 /\ ~sealed /\ partCount - compacted <= CompactMax

CompactRunLog(k) ==
  /\ keeper[k].pc = "idle" /\ Compactable
  /\ keeper' = [keeper EXCEPT ![k] = [IdleKeeper EXCEPT !.pc = "head", !.job = "compact",
                  !.from = compacted + 1, !.next = compacted + 1, !.to = MergeTo]]
  /\ UNCHANGED <<active, rowVars, bucketVars, batchVars, append, evictions>>

SealRunLog(k) ==
  /\ keeper[k].pc = "idle" /\ Sealable
  /\ keeper' = [keeper EXCEPT ![k] = [IdleKeeper EXCEPT !.pc = "head", !.job = "seal",
                  !.next = compacted + 1, !.to = partCount, !.tail = log]]
  /\ UNCHANGED <<active, rowVars, bucketVars, batchVars, append, evictions>>

ReadHead(k) ==
  /\ keeper[k].pc = "head"
  /\ keeper' = [keeper EXCEPT ![k].pc = "parts", ![k].buf = head]
  /\ UNCHANGED <<active, rowVars, bucketVars, batchVars, append, evictions>>

\* readParts: a missing part is skipped.
ReadPart(k) ==
  /\ keeper[k].pc = "parts" /\ keeper[k].next <= keeper[k].to
  /\ keeper' = [keeper EXCEPT ![k].next = @ + 1, ![k].buf = @ \o part[keeper[k].next]]
  /\ UNCHANGED <<active, rowVars, bucketVars, batchVars, append, evictions>>

PutMerged(k) ==
  /\ keeper[k].pc = "parts" /\ keeper[k].next > keeper[k].to
  /\ IF keeper[k].job = "compact"
       THEN /\ head' = keeper[k].buf /\ UNCHANGED full
            /\ keeper' = [keeper EXCEPT ![k].pc = "delete"]
       ELSE /\ full' = keeper[k].buf \o keeper[k].tail /\ UNCHANGED head
            /\ keeper' = [keeper EXCEPT ![k].pc = "record"]
  /\ UNCHANGED <<active, rowVars, part, batchVars, append, evictions>>

\* The parts a job has merged, and may delete.
Merged_AllSpilled(k) == 1..partCount
Merged(k) == keeper[k].from..keeper[k].to

\* Compaction deletes what it merged and then records it; sealing deletes last.
DeletePieces(k) ==
  /\ keeper[k].pc = "delete"
  /\ part' = [n \in 1..Chunks |-> IF n \in Merged(k) THEN <<>> ELSE part[n]]
  /\ IF keeper[k].job = "compact"
       THEN keeper' = [keeper EXCEPT ![k].pc = "record"] /\ UNCHANGED head
       ELSE keeper' = [keeper EXCEPT ![k] = IdleKeeper] /\ head' = <<>>
  /\ UNCHANGED <<active, rowVars, full, batchVars, append, evictions>>

RecordCompacted(k) ==
  /\ keeper[k].pc = "record" /\ keeper[k].job = "compact"
  /\ compacted' = IF compacted = keeper[k].from - 1 THEN keeper[k].to ELSE compacted
  /\ keeper' = [keeper EXCEPT ![k] = IdleKeeper]
  /\ UNCHANGED <<active, log, dropped, partCount, sealed, logSeq, spilled>>
  /\ UNCHANGED <<bucketVars, batchVars, append, evictions>>

RecordSealed(k) ==
  /\ keeper[k].pc = "record" /\ keeper[k].job = "seal"
  /\ sealed' = TRUE
  /\ keeper' = [keeper EXCEPT ![k] = IF sealed THEN IdleKeeper ELSE [keeper[k] EXCEPT !.pc = "delete"]]
  /\ UNCHANGED <<active, log, dropped, partCount, compacted, logSeq, spilled>>
  /\ UNCHANGED <<bucketVars, batchVars, append, evictions>>

KeeperEvicted(k) ==
  /\ "evict" \in Events /\ keeper[k].pc # "idle" /\ evictions < MaxEvictions
  /\ keeper' = [keeper EXCEPT ![k] = IdleKeeper]
  /\ evictions' = evictions + 1
  /\ UNCHANGED <<active, rowVars, bucketVars, batchVars, append>>

-----------------------------------------------------------------------------
KeeperStep(k) ==
  \/ CompactRunLog(k) \/ SealRunLog(k) \/ ReadHead(k) \/ ReadPart(k) \/ PutMerged(k)
  \/ DeletePieces(k) \/ RecordCompacted(k) \/ RecordSealed(k)

Next ==
  \/ Flush \/ EndRun
  \/ \E a \in Appends : Send(a) \/ AppendRead(a) \/ SpillEvicted(a) \/ AppendWrite(a)
                          \/ Reply(a) \/ Cut(a) \/ AppendEvicted(a)
  \/ \E k \in Keepers : KeeperStep(k) \/ KeeperEvicted(k)

Spec == Init /\ [][Next]_vars

\* The sweep runs every five minutes for as long as there is something to do.
KeepersRun == \A k \in Keepers : WF_vars(KeeperStep(k))

LiveSpec == Spec /\ KeepersRun

-----------------------------------------------------------------------------
\* What readRunLog assembles: one object, or head, unmerged parts and tail.
Unmerged == [j \in 1..(partCount - compacted) |-> part[compacted + j]]
ReadRunLog == IF sealed THEN full ELSE head \o FlattenSeq(Unmerged) \o log

\* A compaction whose head is written and not yet recorded.
Merging(k) == keeper[k].job = "compact" /\ keeper[k].pc \in {"delete", "record"}

Readable == ToSet(ReadRunLog)

Promise == INSTANCE StoredText WITH stored <- Readable \ ToSet(log), tail <- log, open <- active

Texts == Seq(1..Chunks)

\* Every variable has its type; compaction never claims a part that was not spilled.
TypeOK ==
  /\ active \in BOOLEAN /\ sealed \in BOOLEAN
  /\ log \in Texts /\ Len(log) <= TailCap /\ spilled \in Texts
  /\ dropped \in 0..Chunks /\ partCount \in 0..Chunks /\ compacted \in 0..partCount
  /\ logSeq \in 0..Chunks
  /\ head \in Texts /\ part \in [1..Chunks -> Texts] /\ full \in Texts
  /\ produced \in 0..Chunks /\ pending \in Texts /\ Len(pending) <= MaxPending
  /\ evictions \in 0..MaxEvictions
  /\ inflight \in Appends \cup {None}
  /\ append \in [Appends -> [pc : {"idle", "read", "spill", "write", "reply"}, seq : 0..Chunks,
                             reads : 0..2, log : Texts, dropped : 0..Chunks,
                             parts : 0..Chunks, answer : {"none", "ok", "closed", "conflict"}]]
  /\ keeper \in [Keepers -> [pc : {"idle", "head", "parts", "delete", "record"},
                             job : {"none", "compact", "seal"}, from : 1..(Chunks + 1),
                             to : 0..Chunks, next : 1..(Chunks + 1), buf : Texts, tail : Texts]]

\* Whatever the row has dropped a reader is given, with the tail and nothing else:
\* while late handlers spill again, and from a compaction that was killed between
\* two of its calls as from the sealed object (spillEvicted, compactRunLog,
\* sealRunLog).  This and the next two are stated around what the code gets wrong:
\* two keepers that overlap may drop or repeat parts, and a late handler may put
\* another part over a spilled one if the queue is trimmed meanwhile.
DroppedIsStored == Readable = ToSet(spilled \o log)

\* A chunk that is sent again (its response was lost), spilled again by a late
\* handler, merged and sealed is in the log once, but for a compaction killed
\* before it was recorded, which leaves one more copy; and leaving the copies out,
\* the log is in the order it was written (appendRunLog's seq, compactRunLog).
\* The code stores one copy more per killed compaction: see NothingTwice.
RepeatsAreTorn ==
  LET text == ReadRunLog
      torn == evictions + Cardinality({k \in Keepers : Merging(k)})
  IN  /\ \A c \in Readable : Cardinality({n \in 1..Len(text) : text[n] = c}) <= 1 + torn
      /\ \A m, n \in 1..Len(text) :
           m < n /\ text[n] < text[m] => \E j \in 1..(m - 1) : text[j] = text[n]

\* What was spilled is never lost and never moves, the tail goes on where it ends,
\* and the log of an ended run stands, wherever retries, late handlers, killed
\* compactions and sealing are (appendRunLog, run-log.ts).  Of the tail it says only
\* that it goes on where the stored text ends: a late handler may write back an
\* older one, without a chunk that was acknowledged meanwhile.
KeepsPromise == Promise!Spec

\* The log of an ended run that outgrew its tail ends up in one object, however
\* many parts are left, and although sweeps are evicted on the way (sweepRunLogs).
LogSeals == ~active /\ dropped > 0 ~> sealed

-----------------------------------------------------------------------------
(* What the comments of run-log.ts say, and the code does not quite do: it  *)
(* is refuted by a run of its own.                                          *)

\* "parts + head + current tail always equals the complete log, with no byte
\* stored twice", and of a compaction killed between its put and its update: "the
\* next pass re-merges them into head -- identical bytes, so still correct".  The
\* next pass appends the parts to a head that has them: with every part merged
\* and no keeper on its way, the head holds them twice.
NothingTwice ==
  compacted = partCount /\ (\A k \in Keepers : ~Merging(k)) =>
    \A m, n \in 1..Len(ReadRunLog) : m < n => ReadRunLog[m] < ReadRunLog[n]
=============================================================================
