--------------------------- MODULE RunLog_proofs ---------------------------
(***************************************************************************)
(* Theorems about RunLog, for any number of chunks, handlers and keepers,  *)
(* any sizes of tail, queue and compaction, and any set of events.         *)
(***************************************************************************)
EXTENDS RunLog, SequenceTheorems, WellFoundedInduction, TLAPS

-----------------------------------------------------------------------------
(* The inductive invariant.                                                 *)

AppendRows ==
  [pc : {"idle", "read", "spill", "write", "reply"}, seq : 0..Chunks, reads : 0..2, log : Texts,
   dropped : 0..Chunks, parts : 0..Chunks, answer : {"none", "ok", "closed", "conflict"}]
KeeperRows ==
  [pc : {"idle", "head", "parts", "delete", "record"}, job : {"none", "compact", "seal"},
   from : 1..(Chunks + 1), to : 0..Chunks, next : 1..(Chunks + 1), buf : Texts, tail : Texts]

\* A row that an append has read, however long ago: its tail and its parts are
\* of chunks numbered below the one that the append brings.
AppendFits(x) ==
  /\ x.pc # "idle" => x.seq \in 1..Chunks
  /\ x.pc \in {"spill", "write"} =>
       /\ x.reads < 2 /\ x.dropped = x.parts /\ Len(x.log) <= TailCap
       /\ x.parts + Len(x.log) < x.seq

\* A keeper merges parts that were spilled, one after the other.
KeeperFits(x) == x.pc # "idle" => x.to <= partCount /\ x.next <= x.to + 1

LogInv ==
  /\ TypeOK /\ (inflight # None => pending # <<>>)
  /\ dropped = partCount /\ Len(spilled) = partCount /\ partCount + Len(log) <= logSeq
  /\ \A a \in Appends : AppendFits(append[a])
  /\ \A k \in Keepers : KeeperFits(keeper[k])

-----------------------------------------------------------------------------
(* Tails, queues and handlers.                                              *)

\* A tail that takes one more chunk evicts at most what exceeds the cap.
LEMMA TailTakes ==
  ASSUME NEW l \in Texts, Len(l) <= TailCap, NEW s \in 1..Chunks
  PROVE  LET c == Append(l, s)
             cut == Evicted(l)
         IN  /\ cut \in {0, 1} /\ Len(c) = Len(l) + 1
             /\ SubSeq(c, 1, cut) \in Texts /\ Len(SubSeq(c, 1, cut)) = cut
             /\ SubSeq(c, cut + 1, Len(c)) \in Texts
             /\ Len(SubSeq(c, cut + 1, Len(c))) = Len(l) + 1 - cut
             /\ Len(l) + 1 - cut <= TailCap
<1> DEFINE c == Append(l, s)
           cut == Evicted(l)
<1>1. c \in Seq(1..Chunks) /\ Len(c) = Len(l) + 1 /\ Len(l) \in Nat
  BY AppendProperties, LenProperties DEF Texts
<1>2. cut \in {0, 1} /\ Len(l) + 1 - cut <= TailCap
  BY <1>1, SizeAssumption DEF Evicted
<1> HIDE DEF c, cut
<1>3. \A j \in 1..Len(c) : c[j] \in 1..Chunks
  BY <1>1, ElementOfSeq
<1>4. SubSeq(c, 1, cut) \in Seq(1..Chunks) /\ Len(SubSeq(c, 1, cut)) = cut
  <2>1. cut \in Int /\ 1 \in Int /\ \A j \in 1..cut : c[j] \in 1..Chunks
    BY <1>1, <1>2, <1>3
  <2>2. /\ SubSeq(c, 1, cut) \in Seq(1..Chunks)
        /\ Len(SubSeq(c, 1, cut)) = IF 1 <= cut THEN cut - 1 + 1 ELSE 0
    BY <2>1, SubSeqProperties
  <2> QED BY <1>2, <2>2
<1>5. /\ SubSeq(c, cut + 1, Len(c)) \in Seq(1..Chunks)
      /\ Len(SubSeq(c, cut + 1, Len(c))) = Len(l) + 1 - cut
  <2>1. /\ cut + 1 \in Int /\ Len(c) \in Int
        /\ \A j \in (cut + 1)..Len(c) : c[j] \in 1..Chunks
    BY <1>1, <1>2, <1>3
  <2>2. /\ SubSeq(c, cut + 1, Len(c)) \in Seq(1..Chunks)
        /\ Len(SubSeq(c, cut + 1, Len(c)))
             = IF cut + 1 <= Len(c) THEN Len(c) - (cut + 1) + 1 ELSE 0
    BY <2>1, SubSeqProperties
  <2> QED BY <1>1, <1>2, <2>2
<1> QED BY <1>1, <1>2, <1>4, <1>5 DEF c, cut, Texts

\* A trimmed queue has no more than it may, and is not emptied.
LEMMA TrimKeeps ==
  ASSUME NEW q \in Texts, q # <<>>
  PROVE  /\ TrimPending(q) \in Texts /\ TrimPending(q) # <<>>
         /\ Len(TrimPending(q)) <= MaxPending
<1> DEFINE from == Len(q) - MaxPending + 1
           t == SubSeq(q, from, Len(q))
<1>1. Len(q) \in Nat \ {0} /\ MaxPending \in Nat \ {0}
  BY EmptySeq, LenProperties, SizeAssumption DEF Texts
<1>2. CASE Len(q) <= MaxPending
  BY <1>2 DEF TrimPending
<1>3. CASE ~(Len(q) <= MaxPending)
  <2>1. from \in 1..Len(q) /\ Len(q) - from + 1 = MaxPending /\ TrimPending(q) = t
    BY <1>1, <1>3 DEF TrimPending
  <2>2. \A j \in 1..Len(q) : q[j] \in 1..Chunks
    BY ElementOfSeq DEF Texts
  <2> HIDE DEF from
  <2>3. \A j \in from..Len(q) : q[j] \in 1..Chunks
    BY <1>1, <2>1, <2>2
  <2>4. t \in Seq(1..Chunks) /\ Len(t) = IF from <= Len(q) THEN Len(q) - from + 1 ELSE 0
    BY <1>1, <2>1, <2>3, SubSeqProperties
  <2>5. Len(t) = MaxPending
    BY <2>1, <2>4
  <2>6. t # <<>>
    BY <1>1, <2>4, <2>5, EmptySeq
  <2> HIDE DEF t
  <2> QED BY <1>1, <2>1, <2>4, <2>5, <2>6 DEF Texts
<1> HIDE DEF t, from
<1> QED BY <1>1, <1>2, <1>3

\* The queue's head leaves the rest.
LEMMA HeadLeaves ==
  ASSUME NEW q \in Texts, q # <<>>
  PROVE  /\ Head(q) \in 1..Chunks /\ Head(q) = q[1]
         /\ Tail(q) \in Texts /\ Len(Tail(q)) = Len(q) - 1
<1>1. /\ Head(q) \in 1..Chunks /\ Tail(q) \in Seq(1..Chunks) /\ Len(Tail(q)) = Len(q) - 1
      /\ q \in Seq(1..Chunks)
  BY HeadTailProperties DEF Texts
<1>2. Len(q) \in Nat \ {0} /\ Head(q) = q[1]
  BY <1>1, EmptySeq
<1> QED BY <1>1, <1>2 DEF Texts

-----------------------------------------------------------------------------
(* Types and fits: each step keeps LogInv.                                  *)

\* The types, handler by handler.
LEMMA TypeIs ==
  TypeOK <=>
    /\ active \in BOOLEAN /\ sealed \in BOOLEAN
    /\ log \in Texts /\ Len(log) <= TailCap
    /\ dropped \in 0..Chunks /\ partCount \in 0..Chunks /\ compacted \in 0..partCount
    /\ logSeq \in 0..Chunks
    /\ head \in Texts /\ part \in [1..Chunks -> Texts] /\ full \in Texts
    /\ produced \in 0..Chunks /\ pending \in Texts /\ Len(pending) <= MaxPending
    /\ evictions \in 0..MaxEvictions /\ spilled \in Texts
    /\ inflight \in Appends \cup {None}
    /\ append \in [Appends -> AppendRows] /\ keeper \in [Keepers -> KeeperRows]
BY DEF TypeOK, AppendRows, KeeperRows

\* Empty texts and idle handlers are well typed.
LEMMA IdleFits ==
  /\ <<>> \in Texts /\ Len(<<>>) = 0
  /\ IdleAppend \in AppendRows /\ AppendFits(IdleAppend) /\ IdleAppend.pc = "idle"
  /\ IdleKeeper \in KeeperRows /\ KeeperFits(IdleKeeper)
<1>1. <<>> \in Texts /\ Len(<<>>) = 0
  BY EmptySeq DEF Texts
<1>3. IdleAppend \in AppendRows /\ AppendFits(IdleAppend) /\ IdleAppend.pc = "idle"
  BY <1>1, SizeAssumption DEF IdleAppend, AppendRows, AppendFits
<1>4. IdleKeeper \in KeeperRows /\ KeeperFits(IdleKeeper)
  BY <1>1, SizeAssumption DEF IdleKeeper, KeeperRows, KeeperFits
<1> QED BY <1>1, <1>3, <1>4

\* A log of nothing.
LEMMA LogStart == Init => LogInv
<1> SUFFICES ASSUME Init PROVE LogInv
  OBVIOUS
<1>1. TypeOK
  <2>1. <<>> \in Texts /\ Len(<<>>) = 0
    BY IdleFits
  <2>2. /\ active \in BOOLEAN /\ sealed \in BOOLEAN
        /\ log \in Texts /\ Len(log) <= TailCap
        /\ dropped \in 0..Chunks /\ partCount \in 0..Chunks /\ compacted \in 0..partCount
        /\ logSeq \in 0..Chunks /\ head \in Texts /\ full \in Texts
    <3>1. active = TRUE /\ sealed = FALSE /\ log = <<>> /\ head = <<>> /\ full = <<>>
      BY DEF Init
    <3>2. dropped = 0 /\ partCount = 0 /\ compacted = 0 /\ logSeq = 0
      BY DEF Init
    <3>3. 0 \in 0..Chunks /\ 0 \in 0..0 /\ 0 <= TailCap
      BY SizeAssumption
    <3> QED BY <3>1, <3>2, <3>3, IdleFits
  <2>3. /\ part \in [1..Chunks -> Texts] /\ append \in [Appends -> AppendRows]
        /\ keeper \in [Keepers -> KeeperRows]
    BY IdleFits DEF Init
  <2>4. /\ produced \in 0..Chunks /\ pending \in Texts /\ Len(pending) <= MaxPending
        /\ evictions \in 0..MaxEvictions /\ spilled \in Texts
        /\ inflight \in Appends \cup {None}
    BY <2>1, SizeAssumption DEF Init
  <2> QED BY <2>2, <2>3, <2>4, TypeIs
<1> QED BY <1>1, IdleFits DEF Init, LogInv

\* A step of a handler that leaves the row alone.
LEMMA AppendMoves ==
  ASSUME LogInv, NEW a \in Appends, NEW x \in AppendRows, AppendFits(x),
         append' = [append EXCEPT ![a] = x],
         UNCHANGED <<active, rowVars, head, full, produced, keeper, evictions>>,
         part' \in [1..Chunks -> Texts], inflight' \in Appends \cup {None},
         pending' \in Texts, Len(pending') <= MaxPending, inflight' # None => pending' # <<>>
  PROVE  LogInv'
<1>1. append' \in [Appends -> AppendRows] /\ TypeOK
  BY TypeIs DEF LogInv
<1>3. TypeOK'
  BY <1>1, TypeIs DEF rowVars, AppendRows, KeeperRows, TypeOK
<1>4. \A b \in Appends : AppendFits(append[b])'
  BY <1>1, TypeIs DEF LogInv, AppendFits
<1>5. \A k \in Keepers : KeeperFits(keeper[k])'
  BY DEF LogInv, KeeperFits, rowVars
<1> QED BY <1>3, <1>4, <1>5 DEF LogInv, rowVars

\* A step of a keeper.
LEMMA KeeperMoves ==
  ASSUME LogInv, NEW k \in Keepers, NEW x \in KeeperRows, KeeperFits(x),
         keeper' = [keeper EXCEPT ![k] = x],
         UNCHANGED <<active, log, dropped, partCount, logSeq, spilled, batchVars, append>>,
         compacted' \in 0..partCount, sealed' \in BOOLEAN, head' \in Texts,
         part' \in [1..Chunks -> Texts], full' \in Texts, evictions' \in 0..MaxEvictions
  PROVE  LogInv'
<1>1. keeper' \in [Keepers -> KeeperRows] /\ TypeOK
  BY TypeIs DEF LogInv
<1>2. TypeOK'
  BY <1>1, TypeIs DEF batchVars, AppendRows, KeeperRows, TypeOK
<1>3. \A b \in Appends : AppendFits(append[b])'
  BY DEF LogInv, AppendFits
<1>4. \A j \in Keepers : KeeperFits(keeper[j])'
  BY <1>1, TypeIs DEF LogInv, KeeperFits
<1> QED BY <1>2, <1>3, <1>4 DEF LogInv, batchVars

\* The daemon queues a chunk, and trims the queue.
LEMMA FlushStep ==
  ASSUME LogInv, Flush
  PROVE  LogInv'
<1> DEFINE q == Append(pending, produced + 1)
<1>0. TypeOK /\ produced \in 0..Chunks /\ produced < Chunks /\ pending \in Texts
  BY TypeIs DEF LogInv, Flush
<1>1. produced + 1 \in 1..Chunks /\ produced + 1 \in 0..Chunks
  BY <1>0, SizeAssumption
<1>2. q \in Texts /\ q # <<>>
  BY <1>0, <1>1, AppendProperties DEF Texts
<1> HIDE DEF q
<1>3. /\ pending' \in Texts /\ pending' # <<>> /\ Len(pending') <= MaxPending
      /\ UNCHANGED <<active, rowVars, bucketVars, inflight, append, keeper, evictions>>
      /\ produced' = produced + 1
  BY <1>2, TrimKeeps DEF Flush, q
<1>5. TypeOK'
  BY <1>0, <1>1, <1>3, TypeIs DEF rowVars, bucketVars, AppendRows, KeeperRows, TypeOK
<1>6. \A k \in Keepers : KeeperFits(keeper[k])'
  BY <1>3 DEF LogInv, KeeperFits, rowVars
<1> QED BY <1>3, <1>5, <1>6 DEF LogInv, rowVars, AppendFits

\* An append about a chunk, of which nothing else is known yet.
Fresh(pc, seq, reads, answer) ==
  [pc |-> pc, seq |-> seq, reads |-> reads, log |-> <<>>, dropped |-> 0, parts |-> 0,
   answer |-> answer]

Answered(seq, answer) ==
  [IdleAppend EXCEPT !.pc = "reply", !.seq = seq, !.answer = answer]
Reread(seq, reads) == [IdleAppend EXCEPT !.pc = "read", !.seq = seq, !.reads = reads]

\* What the record of such an append holds.
LEMMA FreshIs ==
  ASSUME NEW seq, NEW reads, NEW answer
  PROVE  /\ [IdleAppend EXCEPT !.pc = "read", !.seq = seq] = Fresh("read", seq, 0, "none")
         /\ Answered(seq, answer) = Fresh("reply", seq, 0, answer)
         /\ Reread(seq, reads) = Fresh("read", seq, reads, "none")
<1> DEFINE w == IdleAppend
           x(pc) == [w EXCEPT !.pc = pc]
           y(pc) == [x(pc) EXCEPT !.seq = seq]
           z == [y("reply") EXCEPT !.answer = answer]
           r == [y("read") EXCEPT !.reads = reads]
<1>1. w = Fresh("idle", 0, 0, "none")
  BY DEF IdleAppend, Fresh
<1>2. /\ [IdleAppend EXCEPT !.pc = "read", !.seq = seq] = y("read")
      /\ Answered(seq, answer) = z /\ Reread(seq, reads) = r
  BY DEF Answered, Reread
<1> HIDE DEF w
<1>3. \A pc : x(pc) = Fresh(pc, 0, 0, "none")
  BY <1>1 DEF Fresh
<1> HIDE DEF x
<1>4. \A pc : y(pc) = Fresh(pc, seq, 0, "none")
  BY <1>3 DEF Fresh
<1> HIDE DEF y
<1>5. z = Fresh("reply", seq, 0, answer)
  BY <1>4 DEF Fresh
<1>6. r = Fresh("read", seq, reads, "none")
  BY <1>4 DEF Fresh
<1> QED BY <1>2, <1>4, <1>5, <1>6

\* The daemon sends the oldest chunk, and sees an answer, an error, or none.
LEMMA SendSteps ==
  ASSUME LogInv, NEW a \in Appends,
         Send(a) \/ Reply(a) \/ Cut(a) \/ AppendEvicted(a)
  PROVE  LogInv'
<1>0. /\ TypeOK /\ append[a] \in AppendRows /\ AppendFits(append[a])
      /\ part \in [1..Chunks -> Texts] /\ inflight \in Appends \cup {None}
      /\ pending \in Texts /\ Len(pending) <= MaxPending
      /\ (inflight # None => pending # <<>>)
  BY TypeIs DEF LogInv
<1>1. CASE Send(a)
  <2> DEFINE x == [IdleAppend EXCEPT !.pc = "read", !.seq = Head(pending)]
  <2>1. PICK i \in 1..Chunks : i = Head(pending)
    BY <1>0, <1>1, HeadLeaves DEF Send
  <2>2. x = [pc |-> "read", seq |-> i, reads |-> 0, log |-> <<>>, dropped |-> 0, parts |-> 0,
             answer |-> "none"]
    BY <2>1, FreshIs DEF Fresh
  <2>3. append' = [append EXCEPT ![a] = x] /\ inflight' = a /\ pending # <<>>
        /\ UNCHANGED <<active, rowVars, bucketVars, produced, pending, keeper, evictions>>
    BY <1>1 DEF Send
  <2> HIDE DEF x
  <2>4. x \in AppendRows /\ AppendFits(x)
    BY <2>2, IdleFits, SizeAssumption DEF AppendRows, AppendFits
  <2> QED BY <1>0, <2>3, <2>4, AppendMoves DEF bucketVars
<1>2. CASE Reply(a)
  <2>1. /\ append' = [append EXCEPT ![a] = IdleAppend]
        /\ UNCHANGED <<active, rowVars, bucketVars, produced, keeper, evictions>>
        /\ inflight' = IF inflight = a THEN None ELSE inflight
        /\ pending' = IF Shifts(a) THEN Tail(pending) ELSE pending
    BY <1>2 DEF Reply
  <2>3. /\ pending' \in Texts /\ Len(pending') <= MaxPending
        /\ inflight' # None => pending' # <<>>
    <3>1. CASE Shifts(a)
      <4>1. pending # <<>> /\ inflight' = None /\ pending' = Tail(pending)
        BY <1>0, <2>1, <3>1, SizeAssumption DEF Shifts
      <4>2. Len(pending) \in Nat
        BY <1>0, LenProperties DEF Texts
      <4> QED BY <1>0, <4>1, <4>2, HeadLeaves, SizeAssumption
    <3>2. CASE ~Shifts(a)
      BY <1>0, <2>1, <3>2
    <3> QED BY <3>1, <3>2
  <2> QED BY <1>0, <2>1, <2>3, IdleFits, AppendMoves DEF bucketVars
<1>3. CASE Cut(a)
  <2>1. append' = [append EXCEPT ![a] = append[a]]
    BY <1>3, TypeIs DEF Cut, LogInv
  <2> QED BY <1>0, <1>3, <2>1, AppendMoves DEF Cut, bucketVars
<1>4. CASE AppendEvicted(a)
  BY <1>0, <1>4, IdleFits, AppendMoves DEF AppendEvicted, bucketVars
<1> QED BY <1>1, <1>2, <1>3, <1>4

\* A handler that goes on, with the row it has read.
Informed(x, pc, l, d, p) == [x EXCEPT !.pc = pc, !.log = l, !.dropped = d, !.parts = p]
Writing(x) == [x EXCEPT !.pc = "write"]

\* What a handler keeps of its record when it goes on.
LEMMA AppendGoes ==
  ASSUME NEW x \in AppendRows
  PROVE  /\ \A pc, l, d, p : Informed(x, pc, l, d, p)
              = [pc |-> pc, seq |-> x.seq, reads |-> x.reads, log |-> l, dropped |-> d,
                 parts |-> p, answer |-> x.answer]
         /\ Writing(x) = [pc |-> "write", seq |-> x.seq, reads |-> x.reads, log |-> x.log,
                          dropped |-> x.dropped, parts |-> x.parts, answer |-> x.answer]
<1>1. x = [pc |-> x.pc, seq |-> x.seq, reads |-> x.reads, log |-> x.log,
           dropped |-> x.dropped, parts |-> x.parts, answer |-> x.answer]
  BY DEF AppendRows
<1>2. ASSUME NEW pc
      PROVE  [x EXCEPT !.pc = pc]
               = [pc |-> pc, seq |-> x.seq, reads |-> x.reads, log |-> x.log,
                  dropped |-> x.dropped, parts |-> x.parts, answer |-> x.answer]
  BY <1>1
<1>3. ASSUME NEW pc, NEW l, NEW d, NEW p
      PROVE  Informed(x, pc, l, d, p)
               = [pc |-> pc, seq |-> x.seq, reads |-> x.reads, log |-> l, dropped |-> d,
                  parts |-> p, answer |-> x.answer]
  <2> DEFINE b == [x EXCEPT !.pc = pc]
             c == [b EXCEPT !.log = l]
             e == [c EXCEPT !.dropped = d]
             f == [e EXCEPT !.parts = p]
  <2>1. b = [pc |-> pc, seq |-> x.seq, reads |-> x.reads, log |-> x.log,
             dropped |-> x.dropped, parts |-> x.parts, answer |-> x.answer]
    BY <1>2
  <2>2. f = Informed(x, pc, l, d, p)
    BY DEF Informed
  <2> HIDE DEF b
  <2>3. c = [pc |-> pc, seq |-> x.seq, reads |-> x.reads, log |-> l,
             dropped |-> x.dropped, parts |-> x.parts, answer |-> x.answer]
    BY <2>1
  <2> HIDE DEF c
  <2>4. e = [pc |-> pc, seq |-> x.seq, reads |-> x.reads, log |-> l,
             dropped |-> d, parts |-> x.parts, answer |-> x.answer]
    BY <2>3
  <2> HIDE DEF e
  <2>5. f = [pc |-> pc, seq |-> x.seq, reads |-> x.reads, log |-> l,
             dropped |-> d, parts |-> p, answer |-> x.answer]
    BY <2>4
  <2> QED BY <2>2, <2>5
<1> QED BY <1>2, <1>3 DEF Writing

\* The append reads the row, and refuses, spills or goes on to write.
LEMMA AppendReadStep ==
  ASSUME LogInv, NEW a \in Appends, AppendRead(a)
  PROVE  LogInv'
<1> DEFINE c == append[a]
           next == IF Evicted(log) > 0 THEN "spill" ELSE "write"
           x == [c EXCEPT !.pc = next, !.log = log, !.dropped = dropped, !.parts = partCount]
           y == [IdleAppend EXCEPT !.pc = "reply", !.seq = c.seq, !.answer = Refusal(a)]
<1>0. /\ TypeOK /\ c \in AppendRows /\ AppendFits(c) /\ c.pc = "read"
      /\ part \in [1..Chunks -> Texts] /\ inflight \in Appends \cup {None}
      /\ pending \in Texts /\ Len(pending) <= MaxPending
      /\ (inflight # None => pending # <<>>)
      /\ log \in Texts /\ Len(log) <= TailCap /\ logSeq \in 0..Chunks
      /\ dropped \in 0..Chunks /\ partCount \in 0..Chunks
  BY TypeIs DEF LogInv, AppendRead
<1>1. UNCHANGED <<active, rowVars, bucketVars, batchVars, keeper, evictions>>
  BY DEF AppendRead
<1>2. CASE Refusal(a) # "none"
  <2>1. append' = [append EXCEPT ![a] = y]
    BY <1>2 DEF AppendRead
  <2>2. Refusal(a) \in {"ok", "closed", "conflict"}
    BY <1>2 DEF Refusal
  <2>3. y = Fresh("reply", c.seq, 0, Refusal(a))
    <3>1. y = Answered(c.seq, Refusal(a))
      BY DEF Answered
    <3> QED BY <3>1, FreshIs
  <2> HIDE DEF y
  <2>4. y \in AppendRows /\ AppendFits(y)
    BY <1>0, <2>2, <2>3, IdleFits, SizeAssumption DEF Fresh, AppendRows, AppendFits
  <2> QED BY <1>0, <1>1, <2>1, <2>4, AppendMoves DEF bucketVars, batchVars
<1>3. CASE Refusal(a) = "none"
  <2>1. append' = [append EXCEPT ![a] = x]
    BY <1>3 DEF AppendRead
  <2>2. next \in {"spill", "write"}
    OBVIOUS
  <2>3. active /\ ~Applied(c.seq) /\ c.reads # 2
    BY <1>3 DEF Refusal
  <2>4. x = [pc |-> next, seq |-> c.seq, reads |-> c.reads, log |-> log, dropped |-> dropped,
             parts |-> partCount, answer |-> c.answer]
    <3>1. x = Informed(c, next, log, dropped, partCount)
      BY DEF Informed
    <3>2. /\ c \in AppendRows /\ next \in {"idle", "read", "spill", "write", "reply"}
          /\ log \in Texts /\ dropped \in 0..Chunks /\ partCount \in 0..Chunks
      BY <1>0
    <3> HIDE DEF c, next, x
    <3>3. Informed(c, next, log, dropped, partCount)
            = [pc |-> next, seq |-> c.seq, reads |-> c.reads, log |-> log, dropped |-> dropped,
               parts |-> partCount, answer |-> c.answer]
      BY <3>2, AppendGoes
    <3> QED BY <3>1, <3>3
  <2> HIDE DEF x, next
  <2>5. x \in AppendRows
    BY <1>0, <2>2, <2>4 DEF AppendRows
  <2>6. Len(log) \in Nat
    BY <1>0, LenProperties DEF Texts
  <2>7. AppendFits(x)
    <3>1. x.seq \in 1..Chunks /\ x.seq > logSeq
      BY <1>0, <2>3, <2>4 DEF AppendFits, Applied
    <3>2. x.reads < 2
      BY <1>0, <2>3, <2>4 DEF AppendRows
    <3>3. x.dropped = x.parts /\ x.parts + Len(x.log) <= logSeq /\ Len(x.log) <= TailCap
      BY <1>0, <2>4 DEF LogInv
    <3>4. x.parts + Len(x.log) < x.seq
      BY <1>0, <2>4, <2>6, <3>1, <3>3, SizeAssumption
    <3> QED BY <3>1, <3>2, <3>3, <3>4 DEF AppendFits
  <2> QED BY <1>0, <1>1, <2>1, <2>5, <2>7, AppendMoves DEF bucketVars, batchVars
<1> QED BY <1>2, <1>3

\* The spilled part lands.
LEMMA SpillStep ==
  ASSUME LogInv, NEW a \in Appends, SpillEvicted(a)
  PROVE  LogInv'
<1> DEFINE c == append[a]
           x == [c EXCEPT !.pc = "write"]
           piece == SubSeq(Combined(a), 1, Evicted(c.log))
<1>0. /\ TypeOK /\ c \in AppendRows /\ AppendFits(c) /\ c.pc = "spill"
      /\ part \in [1..Chunks -> Texts] /\ inflight \in Appends \cup {None}
      /\ pending \in Texts /\ Len(pending) <= MaxPending
      /\ (inflight # None => pending # <<>>) /\ append \in [Appends -> AppendRows]
  BY TypeIs DEF LogInv, SpillEvicted
<1>1. /\ UNCHANGED <<active, rowVars, head, full, batchVars, keeper, evictions>>
      /\ part' = [part EXCEPT ![c.parts + 1] = piece]
      /\ append' = [append EXCEPT ![a] = x]
  BY DEF SpillEvicted
<1>2. piece \in Texts
  <2>1. c.log \in Texts /\ Len(c.log) <= TailCap /\ c.seq \in 1..Chunks
    BY <1>0 DEF AppendRows, AppendFits
  <2> QED BY <2>1, TailTakes DEF Combined
<1> HIDE DEF piece
<1>3. part' \in [1..Chunks -> Texts]
  BY <1>0, <1>1, <1>2
<1>4. x = [pc |-> "write", seq |-> c.seq, reads |-> c.reads, log |-> c.log,
           dropped |-> c.dropped, parts |-> c.parts, answer |-> c.answer]
  <2>1. x = Writing(c)
    BY DEF Writing
  <2> QED BY <1>0, <2>1, AppendGoes
<1> HIDE DEF x
<1>5. x \in AppendRows /\ AppendFits(x)
  BY <1>0, <1>4 DEF AppendRows, AppendFits
<1> QED BY <1>0, <1>1, <1>3, <1>5, AppendMoves DEF batchVars

\* The guarded update of the row: it takes the chunk, or the handler reads again.
LEMMA AppendWriteStep ==
  ASSUME LogInv, NEW a \in Appends, AppendWrite(a)
  PROVE  LogInv'
<1> DEFINE c == append[a]
           cut == Evicted(c.log)
           taken == SubSeq(Combined(a), cut + 1, Len(Combined(a)))
           gone == SubSeq(Combined(a), 1, cut)
           x == [IdleAppend EXCEPT !.pc = "reply", !.seq = c.seq, !.answer = "ok"]
           y == [IdleAppend EXCEPT !.pc = "read", !.seq = c.seq, !.reads = c.reads + 1]
<1>0. /\ TypeOK /\ c \in AppendRows /\ AppendFits(c) /\ c.pc = "write"
      /\ part \in [1..Chunks -> Texts] /\ inflight \in Appends \cup {None}
      /\ pending \in Texts /\ Len(pending) <= MaxPending
      /\ (inflight # None => pending # <<>>) /\ append \in [Appends -> AppendRows]
      /\ partCount \in 0..Chunks /\ compacted \in 0..partCount
  BY TypeIs DEF LogInv, AppendWrite
<1>1. UNCHANGED <<active, compacted, sealed, bucketVars, batchVars, keeper, evictions>>
  BY DEF AppendWrite
<1>2. /\ c.log \in Texts /\ Len(c.log) <= TailCap /\ c.seq \in 1..Chunks
      /\ c.reads \in {0, 1} /\ c.parts \in 0..Chunks /\ c.dropped = c.parts
      /\ c.parts + Len(c.log) < c.seq
  BY <1>0 DEF AppendRows, AppendFits
<1>3. CASE Unraced(a)
  <2>1. /\ cut \in {0, 1} /\ taken \in Texts /\ Len(taken) = Len(c.log) + 1 - cut
        /\ Len(taken) <= TailCap
        /\ gone \in Texts /\ Len(gone) = cut
    BY <1>2, TailTakes DEF Combined
  <2> DEFINE spilt == IF cut > 0 THEN 1 ELSE 0
  <2>2. spilt = cut
    BY <2>1
  <2>3. /\ log' = taken /\ dropped' = c.dropped + cut /\ partCount' = c.parts + spilt
        /\ logSeq' = c.seq /\ append' = [append EXCEPT ![a] = x]
        /\ partCount = c.parts /\ spilled' = spilled \o gone
    BY <1>3 DEF AppendWrite, Unraced
  <2> HIDE DEF taken, gone, cut, spilt, x
  <2>4. Len(c.log) \in Nat
    BY <1>2, LenProperties DEF Texts
  <2>5. /\ dropped' = partCount' /\ partCount' + Len(log') <= logSeq'
        /\ partCount' \in 0..Chunks /\ partCount <= partCount' /\ logSeq' \in 0..Chunks
    <3>1. PICK n \in Nat : n = Len(c.log)
      BY <2>4
    <3>2. Len(log') = n + 1 - cut
      BY <2>1, <2>3, <3>1
    <3>3. partCount' = c.parts + cut
      BY <2>2, <2>3
    <3>4. PICK m \in 0..Chunks, s \in 1..Chunks, d \in {0, 1} :
            m = c.parts /\ s = c.seq /\ d = cut
      BY <1>2, <2>1
    <3>5. /\ dropped' = m + d /\ partCount' = m + d /\ logSeq' = s /\ partCount = m
          /\ Len(log') = n + 1 - d /\ m + n < s
      BY <1>2, <2>3, <3>1, <3>2, <3>3, <3>4
    <3> QED BY <3>5, SizeAssumption
  <2>6. compacted' \in 0..partCount'
    BY <1>0, <1>1, <2>5, SizeAssumption
  <2>11. spilled' \in Texts /\ Len(spilled') = partCount'
    <3>1. spilled \in Texts /\ Len(spilled) = partCount
      BY TypeIs DEF LogInv
    <3>2. spilled \o gone \in Texts /\ Len(spilled \o gone) = partCount + cut
      BY <2>1, <3>1, ConcatProperties DEF Texts
    <3> QED BY <2>2, <2>3, <3>2
  <2>7. x \in AppendRows /\ AppendFits(x)
    <3>1. x = Fresh("reply", c.seq, 0, "ok")
      <4>1. x = Answered(c.seq, "ok")
        BY DEF x, Answered
      <4> QED BY <4>1, FreshIs
    <3> QED BY <1>2, <3>1, IdleFits, SizeAssumption DEF Fresh, AppendRows, AppendFits
  <2>8. append' \in [Appends -> AppendRows] /\ \A b \in Appends : AppendFits(append[b])'
    BY <1>0, <2>3, <2>7 DEF LogInv, AppendFits
  <2>9. TypeOK'
    BY <1>0, <1>1, <2>1, <2>3, <2>5, <2>6, <2>8, <2>11, TypeIs, ZenonT(60)
    DEF bucketVars, batchVars, AppendRows, KeeperRows, TypeOK
  <2>10. \A k \in Keepers : KeeperFits(keeper[k])'
    <3> SUFFICES ASSUME NEW k \in Keepers
                 PROVE  KeeperFits(keeper[k])'
      OBVIOUS
    <3>1. keeper[k].to \in 0..Chunks
      BY <1>0, TypeIs DEF KeeperRows
    <3> QED BY <1>0, <1>1, <2>5, <3>1, SizeAssumption, SMTT(30) DEF LogInv, KeeperFits
  <2> QED BY <1>0, <1>1, <2>5, <2>8, <2>9, <2>10, <2>11 DEF LogInv, batchVars
<1>4. CASE ~Unraced(a)
  <2>1. append' = [append EXCEPT ![a] = y] /\ UNCHANGED <<log, dropped, partCount, logSeq, spilled>>
    BY <1>4 DEF AppendWrite
  <2>2. y = Fresh("read", c.seq, c.reads + 1, "none")
    <3>1. y = Reread(c.seq, c.reads + 1)
      BY DEF Reread
    <3> QED BY <3>1, FreshIs
  <2> HIDE DEF y
  <2>3. y \in AppendRows /\ AppendFits(y)
    BY <1>2, <2>2, IdleFits, SizeAssumption DEF Fresh, AppendRows, AppendFits
  <2> QED BY <1>0, <1>1, <2>1, <2>3, AppendMoves DEF bucketVars, batchVars, rowVars
<1> QED BY <1>3, <1>4

\* The record of a keeper, field by field.
Keeping(pc, job, from, to, next, buf, tail) ==
  [pc |-> pc, job |-> job, from |-> from, to |-> to, next |-> next, buf |-> buf, tail |-> tail]

Compacting(from, to) ==
  [IdleKeeper EXCEPT !.pc = "head", !.job = "compact", !.from = from, !.next = from, !.to = to]
Sealing(next, to, tail) ==
  [IdleKeeper EXCEPT !.pc = "head", !.job = "seal", !.next = next, !.to = to, !.tail = tail]

\* What a keeper that begins holds.
LEMMA KeeperBegins ==
  ASSUME NEW from, NEW to, NEW tail
  PROVE  /\ Compacting(from, to) = Keeping("head", "compact", from, to, from, <<>>, <<>>)
         /\ Sealing(from, to, tail) = Keeping("head", "seal", 1, to, from, <<>>, tail)
<1> DEFINE w == IdleKeeper
           u == [w EXCEPT !.pc = "head"]
           x(job) == [u EXCEPT !.job = job]
           c1 == [x("compact") EXCEPT !.from = from]
           c2 == [c1 EXCEPT !.next = from]
           c3 == [c2 EXCEPT !.to = to]
           s1 == [x("seal") EXCEPT !.next = from]
           s2 == [s1 EXCEPT !.to = to]
           s3 == [s2 EXCEPT !.tail = tail]
<1>1. w = Keeping("idle", "none", 1, 0, 1, <<>>, <<>>)
  BY DEF IdleKeeper, Keeping
<1>2. Compacting(from, to) = c3 /\ Sealing(from, to, tail) = s3
  BY DEF Compacting, Sealing
<1> HIDE DEF w
<1>3. u = Keeping("head", "none", 1, 0, 1, <<>>, <<>>)
  BY <1>1 DEF Keeping
<1> HIDE DEF u
<1>4. \A job : x(job) = Keeping("head", job, 1, 0, 1, <<>>, <<>>)
  BY <1>3 DEF Keeping
<1> HIDE DEF x
<1>5. c1 = Keeping("head", "compact", from, 0, 1, <<>>, <<>>)
  BY <1>4 DEF Keeping
<1>6. s1 = Keeping("head", "seal", 1, 0, from, <<>>, <<>>)
  BY <1>4 DEF Keeping
<1> HIDE DEF c1, s1
<1>7. c2 = Keeping("head", "compact", from, 0, from, <<>>, <<>>)
  BY <1>5 DEF Keeping
<1>8. s2 = Keeping("head", "seal", 1, to, from, <<>>, <<>>)
  BY <1>6 DEF Keeping
<1> HIDE DEF c2, s2
<1>9. c3 = Keeping("head", "compact", from, to, from, <<>>, <<>>)
  BY <1>7 DEF Keeping
<1>10. s3 = Keeping("head", "seal", 1, to, from, <<>>, tail)
  BY <1>8 DEF Keeping
<1> QED BY <1>2, <1>9, <1>10

At(x, pc) == [x EXCEPT !.pc = pc]
HeadRead(x, h) == [x EXCEPT !.pc = "parts", !.buf = h]
PartRead(x, p) == [x EXCEPT !.next = @ + 1, !.buf = @ \o p]

\* What a keeper that goes on keeps.
LEMMA KeeperGoes ==
  ASSUME NEW x \in KeeperRows
  PROVE  /\ \A pc : At(x, pc) = Keeping(pc, x.job, x.from, x.to, x.next, x.buf, x.tail)
         /\ \A h : HeadRead(x, h) = Keeping("parts", x.job, x.from, x.to, x.next, h, x.tail)
         /\ \A p : PartRead(x, p)
                     = Keeping(x.pc, x.job, x.from, x.to, x.next + 1, x.buf \o p, x.tail)
<1>1. x = Keeping(x.pc, x.job, x.from, x.to, x.next, x.buf, x.tail)
  BY DEF KeeperRows, Keeping
<1>2. ASSUME NEW pc
      PROVE  At(x, pc) = Keeping(pc, x.job, x.from, x.to, x.next, x.buf, x.tail)
  BY <1>1 DEF Keeping, At
<1>3. ASSUME NEW h
      PROVE  HeadRead(x, h) = Keeping("parts", x.job, x.from, x.to, x.next, h, x.tail)
  <2> DEFINE y == At(x, "parts")
             z == [y EXCEPT !.buf = h]
  <2>1. HeadRead(x, h) = z
    BY DEF HeadRead, At
  <2>2. y = Keeping("parts", x.job, x.from, x.to, x.next, x.buf, x.tail)
    BY <1>2
  <2> HIDE DEF y
  <2>3. z = Keeping("parts", x.job, x.from, x.to, x.next, h, x.tail)
    BY <2>2 DEF Keeping
  <2> QED BY <2>1, <2>3
<1>4. ASSUME NEW p
      PROVE  PartRead(x, p) = Keeping(x.pc, x.job, x.from, x.to, x.next + 1, x.buf \o p, x.tail)
  <2> DEFINE n == x.next + 1
             b == x.buf \o p
             y == [x EXCEPT !.next = n]
             z == [y EXCEPT !.buf = b]
  <2>1. PartRead(x, p) = z
    <3>1. y.buf = x.buf
      BY <1>1 DEF Keeping
    <3>2. PartRead(x, p) = [y EXCEPT !.buf = @ \o p]
      BY DEF PartRead
    <3> QED BY <3>1, <3>2
  <2> HIDE DEF n, b
  <2>2. y = Keeping(x.pc, x.job, x.from, x.to, n, x.buf, x.tail)
    BY <1>1 DEF Keeping
  <2> HIDE DEF y
  <2>3. z = Keeping(x.pc, x.job, x.from, x.to, n, b, x.tail)
    BY <2>2 DEF Keeping
  <2> QED BY <2>1, <2>3 DEF n, b
<1> QED BY <1>2, <1>3, <1>4

\* What every keeper finds.
LEMMA KeeperFinds ==
  ASSUME LogInv, NEW k \in Keepers
  PROVE  /\ keeper \in [Keepers -> KeeperRows] /\ keeper[k] \in KeeperRows /\ KeeperFits(keeper[k])
         /\ partCount \in 0..Chunks /\ compacted \in 0..partCount /\ sealed \in BOOLEAN
         /\ log \in Texts /\ head \in Texts /\ full \in Texts /\ part \in [1..Chunks -> Texts]
         /\ evictions \in 0..MaxEvictions
BY TypeIs DEF LogInv

\* A well typed record that fits.
LEMMA KeepingFits ==
  ASSUME NEW pc \in {"head", "parts", "delete", "record"}, NEW job \in {"none", "compact", "seal"},
         NEW from \in 1..(Chunks + 1), NEW to \in 0..Chunks, NEW next \in 1..(Chunks + 1),
         NEW buf \in Texts, NEW tail \in Texts, to <= partCount, next <= to + 1
  PROVE  /\ Keeping(pc, job, from, to, next, buf, tail) \in KeeperRows
         /\ KeeperFits(Keeping(pc, job, from, to, next, buf, tail))
BY DEF Keeping, KeeperRows, KeeperFits

\* Compaction and sealing begin.
LEMMA BeginsStep ==
  ASSUME LogInv, NEW k \in Keepers, CompactRunLog(k) \/ SealRunLog(k)
  PROVE  LogInv'
<1>0. UNCHANGED <<active, rowVars, bucketVars, batchVars, append, evictions>>
  BY DEF CompactRunLog, SealRunLog
<1>1. CASE CompactRunLog(k)
  <2>1. MergeTo \in 0..partCount /\ compacted <= MergeTo
    BY KeeperFinds, SizeAssumption DEF MergeTo
  <2>2. keeper' = [keeper EXCEPT ![k] = Compacting(compacted + 1, MergeTo)]
    BY <1>1 DEF CompactRunLog, Compacting
  <2>3. Compacting(compacted + 1, MergeTo)
          = Keeping("head", "compact", compacted + 1, MergeTo, compacted + 1, <<>>, <<>>)
    BY KeeperBegins
  <2>4. Compacting(compacted + 1, MergeTo) \in KeeperRows
        /\ KeeperFits(Compacting(compacted + 1, MergeTo))
    <3>1. /\ compacted + 1 \in 1..(Chunks + 1) /\ MergeTo \in 0..Chunks
          /\ MergeTo <= partCount /\ compacted + 1 <= MergeTo + 1
      BY <2>1, KeeperFinds, SizeAssumption
    <3>2. <<>> \in Texts
      BY IdleFits
    <3> QED BY <2>3, <3>1, <3>2, KeepingFits
  <2> QED BY <1>0, <2>2, <2>4, KeeperFinds, KeeperMoves DEF rowVars, bucketVars
<1>2. CASE SealRunLog(k)
  <2>1. keeper' = [keeper EXCEPT ![k] = Sealing(compacted + 1, partCount, log)]
    BY <1>2 DEF SealRunLog, Sealing
  <2>2. Sealing(compacted + 1, partCount, log)
          = Keeping("head", "seal", 1, partCount, compacted + 1, <<>>, log)
    BY KeeperBegins
  <2>3. Sealing(compacted + 1, partCount, log) \in KeeperRows
        /\ KeeperFits(Sealing(compacted + 1, partCount, log))
    <3>1. /\ compacted + 1 \in 1..(Chunks + 1) /\ 1 \in 1..(Chunks + 1)
          /\ partCount \in 0..Chunks /\ compacted + 1 <= partCount + 1 /\ partCount <= partCount
      BY KeeperFinds, SizeAssumption
    <3>2. <<>> \in Texts /\ log \in Texts
      BY IdleFits, KeeperFinds
    <3> QED BY <2>2, <3>1, <3>2, KeepingFits
  <2> QED BY <1>0, <2>1, <2>3, KeeperFinds, KeeperMoves DEF rowVars, bucketVars
<1> QED BY <1>1, <1>2

\* Head and parts are read in turn.
LEMMA ReadsStep ==
  ASSUME LogInv, NEW k \in Keepers, ReadHead(k) \/ ReadPart(k)
  PROVE  LogInv'
<1> DEFINE c == keeper[k]
<1>0. UNCHANGED <<active, rowVars, bucketVars, batchVars, append, evictions>>
  BY DEF ReadHead, ReadPart
<1>1. CASE ReadHead(k)
  <2>1. keeper' = [keeper EXCEPT ![k] = HeadRead(c, head)] /\ c.pc = "head"
    BY <1>1 DEF ReadHead, HeadRead
  <2>2. HeadRead(c, head) = Keeping("parts", c.job, c.from, c.to, c.next, head, c.tail)
    BY KeeperFinds, KeeperGoes
  <2>3. HeadRead(c, head) \in KeeperRows /\ KeeperFits(HeadRead(c, head))
    BY <2>1, <2>2, KeeperFinds DEF Keeping, KeeperRows, KeeperFits
  <2> QED BY <1>0, <2>1, <2>3, KeeperFinds, KeeperMoves DEF rowVars, bucketVars
<1>2. CASE ReadPart(k)
  <2> DEFINE p == part[c.next]
  <2>1. keeper' = [keeper EXCEPT ![k] = PartRead(c, p)] /\ c.pc = "parts" /\ c.next <= c.to
    BY <1>2 DEF ReadPart, PartRead
  <2>2. PartRead(c, p) = Keeping(c.pc, c.job, c.from, c.to, c.next + 1, c.buf \o p, c.tail)
    BY KeeperFinds, KeeperGoes
  <2>3. /\ c.next \in 1..(Chunks + 1) /\ c.to \in 0..Chunks /\ c.to <= partCount
        /\ c.buf \in Texts
    BY <2>1, KeeperFinds DEF KeeperRows, KeeperFits
  <2>4. c.next \in 1..Chunks /\ c.next + 1 \in 1..(Chunks + 1) /\ c.next + 1 <= c.to + 1
    BY <2>1, <2>3, SizeAssumption
  <2>5. p \in Texts
    BY <2>4, KeeperFinds
  <2>6. c.buf \o p \in Texts
    BY <2>3, <2>5, ConcatProperties DEF Texts
  <2> HIDE DEF p
  <2>7. PartRead(c, p) \in KeeperRows /\ KeeperFits(PartRead(c, p))
    BY <2>1, <2>2, <2>3, <2>4, <2>6, KeeperFinds DEF Keeping, KeeperRows, KeeperFits
  <2> QED BY <1>0, <2>1, <2>7, KeeperFinds, KeeperMoves DEF rowVars, bucketVars
<1> QED BY <1>1, <1>2

\* The whole is put, and the pieces go.
LEMMA PutsStep ==
  ASSUME LogInv, NEW k \in Keepers, PutMerged(k) \/ DeletePieces(k)
  PROVE  LogInv'
<1> DEFINE c == keeper[k]
<1>0. /\ \A pc : At(c, pc) = Keeping(pc, c.job, c.from, c.to, c.next, c.buf, c.tail)
      /\ c.pc # "idle" /\ c \in KeeperRows /\ KeeperFits(c)
  BY KeeperFinds, KeeperGoes DEF PutMerged, DeletePieces
<1>1. ASSUME NEW pc \in {"delete", "record"}
      PROVE  At(c, pc) \in KeeperRows /\ KeeperFits(At(c, pc))
  <2>1. /\ c.job \in {"none", "compact", "seal"} /\ c.from \in 1..(Chunks + 1)
        /\ c.to \in 0..Chunks /\ c.next \in 1..(Chunks + 1) /\ c.buf \in Texts /\ c.tail \in Texts
        /\ c.to <= partCount /\ c.next <= c.to + 1
    BY <1>0 DEF KeeperRows, KeeperFits
  <2>2. At(c, pc) = Keeping(pc, c.job, c.from, c.to, c.next, c.buf, c.tail)
    BY <1>0
  <2> QED BY <2>1, <2>2, KeepingFits
<1>2. CASE PutMerged(k)
  <2>1. UNCHANGED <<active, rowVars, part, batchVars, append, evictions>>
    BY <1>2 DEF PutMerged
  <2>2. /\ head' \in Texts /\ full' \in Texts
        /\ \E pc \in {"delete", "record"} : keeper' = [keeper EXCEPT ![k] = At(c, pc)]
    <3>1. c.buf \in Texts /\ c.buf \o c.tail \in Texts
      BY <1>0, ConcatProperties DEF KeeperRows, Texts
    <3>2. CASE c.job = "compact"
      BY <1>2, <3>1, <3>2, KeeperFinds DEF PutMerged, At
    <3>3. CASE c.job # "compact"
      BY <1>2, <3>1, <3>3, KeeperFinds DEF PutMerged, At
    <3> QED BY <3>2, <3>3
  <2> QED BY <1>1, <2>1, <2>2, KeeperFinds, KeeperMoves DEF rowVars
<1>3. CASE DeletePieces(k)
  <2>1. /\ UNCHANGED <<active, rowVars, full, batchVars, append, evictions>>
        /\ part' = [n \in 1..Chunks |-> IF n \in Merged(k) THEN <<>> ELSE part[n]]
    BY <1>3 DEF DeletePieces
  <2>2. part' \in [1..Chunks -> Texts]
    BY <2>1, KeeperFinds, IdleFits
  <2>3. CASE c.job = "compact"
    <3>1. keeper' = [keeper EXCEPT ![k] = At(c, "record")] /\ head' = head
      BY <1>3, <2>3 DEF DeletePieces, At
    <3> QED BY <1>1, <2>1, <2>2, <3>1, KeeperFinds, KeeperMoves DEF rowVars
  <2>4. CASE c.job # "compact"
    <3>1. keeper' = [keeper EXCEPT ![k] = IdleKeeper] /\ head' = <<>>
      BY <1>3, <2>4 DEF DeletePieces
    <3> QED BY <2>1, <2>2, <3>1, IdleFits, KeeperFinds, KeeperMoves DEF rowVars
  <2> QED BY <2>3, <2>4
<1> QED BY <1>2, <1>3

\* The row learns of it, unless the keeper is killed.
LEMMA RecordsStep ==
  ASSUME LogInv, NEW k \in Keepers, RecordCompacted(k) \/ RecordSealed(k) \/ KeeperEvicted(k)
  PROVE  LogInv'
<1> DEFINE c == keeper[k]
<1>0. c \in KeeperRows /\ KeeperFits(c) /\ c.pc # "idle"
  BY KeeperFinds DEF RecordCompacted, RecordSealed, KeeperEvicted
<1>1. CASE RecordCompacted(k)
  <2>1. /\ UNCHANGED <<active, log, dropped, partCount, sealed, logSeq, spilled, bucketVars,
                       batchVars, append, evictions>>
        /\ keeper' = [keeper EXCEPT ![k] = IdleKeeper] /\ compacted' \in {compacted, c.to}
    BY <1>1 DEF RecordCompacted
  <2>2. c.to \in 0..partCount
    BY <1>0, KeeperFinds, SizeAssumption DEF KeeperRows, KeeperFits
  <2> QED BY <2>1, <2>2, IdleFits, KeeperFinds, KeeperMoves DEF bucketVars
<1>2. CASE RecordSealed(k)
  <2>1. UNCHANGED <<active, log, dropped, partCount, compacted, logSeq, spilled, bucketVars,
                    batchVars, append, evictions>> /\ sealed' = TRUE
    BY <1>2 DEF RecordSealed
  <2>2. At(c, "delete") = Keeping("delete", c.job, c.from, c.to, c.next, c.buf, c.tail)
    BY <1>0, KeeperGoes
  <2>3. At(c, "delete") \in KeeperRows /\ KeeperFits(At(c, "delete"))
    BY <1>0, <2>2 DEF Keeping, KeeperRows, KeeperFits
  <2>4. \/ keeper' = [keeper EXCEPT ![k] = IdleKeeper]
        \/ keeper' = [keeper EXCEPT ![k] = At(c, "delete")]
    BY <1>2 DEF RecordSealed, At
  <2> QED BY <2>1, <2>3, <2>4, IdleFits, KeeperFinds, KeeperMoves DEF bucketVars
<1>3. CASE KeeperEvicted(k)
  <2>1. /\ UNCHANGED <<active, rowVars, bucketVars, batchVars, append>>
        /\ keeper' = [keeper EXCEPT ![k] = IdleKeeper] /\ evictions' \in 0..MaxEvictions
    BY <1>3, KeeperFinds, SizeAssumption DEF KeeperEvicted
  <2> QED BY <2>1, IdleFits, KeeperFinds, KeeperMoves DEF rowVars, bucketVars
<1> QED BY <1>1, <1>2, <1>3

\* Whatever step is taken, the types and the fits stay.
LEMMA LogStep == LogInv /\ [Next]_vars => LogInv'
<1> SUFFICES ASSUME LogInv, [Next]_vars PROVE LogInv'
  OBVIOUS
<1>1. CASE Flush
  BY <1>1, FlushStep
<1>2. CASE EndRun
  <2>1. TypeOK'
    BY <1>2, TypeIs DEF EndRun, LogInv, rowVars, bucketVars, batchVars, AppendRows, KeeperRows, TypeOK
  <2> QED BY <1>2, <2>1 DEF EndRun, LogInv, AppendFits, KeeperFits, rowVars, batchVars
<1>3. ASSUME NEW a \in Appends,
             \/ Send(a) \/ AppendRead(a) \/ SpillEvicted(a) \/ AppendWrite(a)
             \/ Reply(a) \/ Cut(a) \/ AppendEvicted(a)
      PROVE  LogInv'
  BY <1>3, SendSteps, AppendReadStep, SpillStep, AppendWriteStep
<1>4. ASSUME NEW k \in Keepers, KeeperStep(k) \/ KeeperEvicted(k)
      PROVE  LogInv'
  BY <1>4, BeginsStep, ReadsStep, PutsStep, RecordsStep DEF KeeperStep
<1>5. CASE UNCHANGED vars
  <2>1. TypeOK'
    BY <1>5, TypeIs
    DEF vars, LogInv, rowVars, bucketVars, batchVars, AppendRows, KeeperRows, TypeOK
  <2> QED BY <1>5, <2>1 DEF vars, LogInv, AppendFits, KeeperFits, rowVars, batchVars
<1> QED BY <1>1, <1>2, <1>3, <1>4, <1>5 DEF Next

\* The log is well typed for any sizes and any number of handlers: no more
\* parts are spilled than there are chunks, compaction claims none that was not,
\* a tail never exceeds its cap nor the daemon's queue its bound, although an
\* append may write a row it read long ago (appendRunLog, compactRunLog).
THEOREM TypeCorrect == Spec => []TypeOK
<1>1. LogInv => TypeOK
  BY DEF LogInv
<1> QED BY <1>1, LogStart, LogStep, PTL DEF Spec

\* The invariant itself.
THEOREM LogAlwaysFits == Spec => []LogInv
BY LogStart, LogStep, PTL DEF Spec
-----------------------------------------------------------------------------
(* Sequences as sets of what they hold.                                     *)

\* What a sequence holds.
LEMMA InSeq ==
  ASSUME NEW S, NEW s \in Seq(S)
  PROVE  /\ ToSet(s) \subseteq S
         /\ \A x : x \in ToSet(s) <=> \E i \in 1..Len(s) : s[i] = x
<1>1. DOMAIN s = 1..Len(s) /\ \A i \in 1..Len(s) : s[i] \in S
  BY LenProperties, ElementOfSeq
<1> QED BY <1>1 DEF ToSet

\* What a sequence holds that is two others put together.
LEMMA InBoth ==
  ASSUME NEW S, NEW s \in Seq(S), NEW t \in Seq(S)
  PROVE  s \o t \in Seq(S) /\ ToSet(s \o t) = ToSet(s) \cup ToSet(t)
<1>1. /\ s \o t \in Seq(S) /\ Len(s \o t) = Len(s) + Len(t)
      /\ Len(s) \in Nat /\ Len(t) \in Nat
      /\ \A j \in 1..(Len(s) + Len(t)) :
           (s \o t)[j] = IF j <= Len(s) THEN s[j] ELSE t[j - Len(s)]
  BY ConcatProperties, LenProperties
<1> DEFINE u == s \o t
<1> HIDE DEF u
<1>2. ASSUME NEW x \in ToSet(u)
      PROVE  x \in ToSet(s) \cup ToSet(t)
  <2>1. PICK j \in 1..(Len(s) + Len(t)) : u[j] = x
    BY <1>1, InSeq DEF u
  <2>2. CASE j <= Len(s)
    <3>1. j \in 1..Len(s) /\ s[j] = x
      BY <1>1, <2>1, <2>2 DEF u
    <3> QED BY <3>1, InSeq
  <2>3. CASE ~(j <= Len(s))
    <3>1. j - Len(s) \in 1..Len(t) /\ t[j - Len(s)] = x
      BY <1>1, <2>1, <2>3 DEF u
    <3> QED BY <3>1, InSeq
  <2> QED BY <2>2, <2>3
<1>3. ASSUME NEW x \in ToSet(s)
      PROVE  x \in ToSet(u)
  <2>1. PICK j \in 1..Len(s) : s[j] = x
    BY InSeq
  <2>2. j \in 1..Len(u) /\ u[j] = x
    BY <1>1, <2>1 DEF u
  <2> QED BY <1>1, <2>2, InSeq DEF u
<1>4. ASSUME NEW x \in ToSet(t)
      PROVE  x \in ToSet(u)
  <2>1. PICK j \in 1..Len(t) : t[j] = x
    BY InSeq
  <2>2. Len(s) + j \in 1..Len(u) /\ u[Len(s) + j] = t[(Len(s) + j) - Len(s)]
        /\ (Len(s) + j) - Len(s) = j
    BY <1>1, <2>1 DEF u
  <2> QED BY <1>1, <2>1, <2>2, InSeq DEF u
<1> QED BY <1>1, <1>2, <1>3, <1>4 DEF u

\* The empty text, and a text of one chunk.
LEMMA InShort ==
  /\ \A x : x \notin ToSet(<<>>)
  /\ \A x, c : x \in ToSet(<<c>>) <=> x = c
BY DEF ToSet

\* A set of naturals has a least element.
LEMMA LeastNatural ==
  ASSUME NEW T \in SUBSET Nat, T # {}
  PROVE  \E n \in T : \A m \in T : n <= m
<1> DEFINE R == OpToRel(<, Nat)
<1>1. IsWellFoundedOn(R, Nat)
  BY NatLessThanWellFounded
<1>2. \A x, y \in Nat : <<y, x>> \in R <=> y < x
  BY DEF OpToRel
<1> HIDE DEF R
<1>3. PICK n \in T : \A m \in T : ~(<<m, n>> \in R)
  BY <1>1, WFMin
<1>4. ASSUME NEW m \in T
      PROVE  n <= m
  <2>1. n \in Nat /\ m \in Nat
    OBVIOUS
  <2>2. ~(m < n)
    BY <1>2, <1>3, <2>1
  <2> QED BY <2>1, <2>2
<1> QED BY <1>3, <1>4

\* A function that joins the first texts of a sequence of n.
Joins(f, s, n) ==
  f = [i \in 1..n |-> IF i = 1 THEN s[i] ELSE f[i - 1] \o s[i]]

\* There is one, whatever the length: otherwise take the least without.
LEMMA JoinsExist ==
  ASSUME NEW s, NEW n \in Nat
  PROVE  \E f : Joins(f, s, n)
<1> DEFINE T == {m \in Nat : ~\E f : Joins(f, s, m)}
<1> SUFFICES ASSUME T # {} PROVE FALSE
  OBVIOUS
<1>1. PICK m \in T : \A j \in T : m <= j
  <2>1. T \in SUBSET Nat
    OBVIOUS
  <2> HIDE DEF T
  <2> QED BY <2>1, LeastNatural
<1>2. m # 0
  <2>1. Joins([i \in 1..0 |-> 0], s, 0)
    BY DEF Joins
  <2> QED BY <1>1, <2>1
<1>3. m \in Nat /\ m - 1 \in Nat
  BY <1>1, <1>2
<1>4. m - 1 \notin T
  BY <1>1, <1>3
<1>5. PICK f : Joins(f, s, m - 1)
  BY <1>3, <1>4
<1> DEFINE g == [i \in 1..m |-> IF i = 1 THEN s[i] ELSE IF i = m THEN f[i - 1] \o s[i] ELSE f[i]]
<1>6. \A i \in 1..(m - 1) : f[i] = IF i = 1 THEN s[i] ELSE f[i - 1] \o s[i]
  BY <1>5 DEF Joins
<1>7. ASSUME NEW i \in 1..m, i # 1
      PROVE  g[i] = g[i - 1] \o s[i]
  <2>1. i - 1 \in 1..(m - 1) /\ i - 1 \in 1..m /\ i - 1 # m
    BY <1>3, <1>7
  <2>2. g[i - 1] = f[i - 1]
    BY <1>6, <2>1
  <2>3. CASE i = m
    BY <1>7, <2>2, <2>3
  <2>4. CASE i # m
    <3>1. i \in 1..(m - 1)
      BY <1>3, <2>4
    <3> QED BY <1>6, <1>7, <2>2, <2>4, <3>1
  <2> QED BY <2>3, <2>4
<1>8. Joins(g, s, m)
  <2>1. \A i \in 1..m : g[i] = IF i = 1 THEN s[i] ELSE g[i - 1] \o s[i]
    BY <1>7
  <2>2. g = [i \in 1..m |-> g[i]]
    OBVIOUS
  <2> HIDE DEF g
  <2> QED BY <2>1, <2>2 DEF Joins
<1> QED BY <1>1, <1>8

\* FlattenSeq returns the last text of such a function.
LEMMA FlattenIs ==
  ASSUME NEW s, Len(s) \in Nat \ {0}
  PROVE  \E f : Joins(f, s, Len(s)) /\ FlattenSeq(s) = f[Len(s)]
<1> DEFINE g == CHOOSE f : Joins(f, s, Len(s))
<1>1. Joins(g, s, Len(s))
  BY JoinsExist
<1>2. FlattenSeq(s) = g[Len(s)]
  BY DEF FlattenSeq, Joins
<1> QED BY <1>1, <1>2

\* Texts put together hold what each of them holds.
LEMMA FlattenHolds ==
  ASSUME NEW S, NEW n \in Nat, NEW s \in [1..n -> Seq(S)]
  PROVE  /\ FlattenSeq(s) \in Seq(S)
         /\ \A x : x \in ToSet(FlattenSeq(s)) <=> \E i \in 1..n : x \in ToSet(s[i])
<1>1. Len(s) = n
  BY LenProperties
<1>2. CASE n = 0
  <2>1. FlattenSeq(s) = s
    BY <1>1, <1>2 DEF FlattenSeq
  <2>2. s \in Seq(S)
    <3>1. s \in [1..0 -> S]
      BY <1>2
    <3> QED BY <3>1, SeqDef
  <2>3. \A x : x \notin ToSet(s)
    <3>1. \A i \in 1..Len(s) : FALSE
      BY <1>1, <1>2
    <3> QED BY <2>2, <3>1, InSeq
  <2>4. \A i \in 1..n : FALSE
    BY <1>2
  <2> QED BY <2>1, <2>2, <2>3, <2>4
<1>3. CASE n # 0
  <2>1. PICK f : Joins(f, s, n) /\ FlattenSeq(s) = f[n]
    BY <1>1, <1>3, FlattenIs
  <2> DEFINE Good(i) == /\ f[i] \in Seq(S)
                        /\ \A x : x \in ToSet(f[i]) <=> \E j \in 1..i : x \in ToSet(s[j])
             T == {i \in 1..n : ~Good(i)}
  <2>2. \A i \in 1..n : f[i] = IF i = 1 THEN s[i] ELSE f[i - 1] \o s[i]
    BY <2>1 DEF Joins
  <2>3. T = {}
    <3> SUFFICES ASSUME T # {} PROVE FALSE
      OBVIOUS
    <3>1. PICK m \in T : \A j \in T : m <= j
      <4>1. T \in SUBSET Nat
        OBVIOUS
      <4> HIDE DEF T
      <4> QED BY <4>1, LeastNatural
    <3>2. m \in 1..n /\ ~Good(m)
      BY <3>1
    <3>3. m # 1
      <4> SUFFICES ASSUME m = 1 PROVE Good(m)
        BY <3>2
      <4>1. f[m] = s[1] /\ s[1] \in Seq(S)
        BY <2>2, <3>2
      <4>2. \A j \in 1..m : j = 1
        OBVIOUS
      <4>3. 1 \in 1..m
        OBVIOUS
      <4> QED BY <4>1, <4>2, <4>3
    <3>4. m - 1 \in 1..n /\ m - 1 \notin T
      <4>1. m \in Nat /\ m - 1 \in 1..n
        BY <3>2, <3>3
      <4> HIDE DEF T
      <4>2. ASSUME m - 1 \in T PROVE FALSE
        BY <3>1, <4>1, <4>2
      <4> QED BY <4>1, <4>2
    <3>5. Good(m - 1) /\ f[m] = f[m - 1] \o s[m] /\ s[m] \in Seq(S)
      BY <2>2, <3>2, <3>3, <3>4
    <3>6. f[m] \in Seq(S) /\ ToSet(f[m]) = ToSet(f[m - 1]) \cup ToSet(s[m])
      BY <3>5, InBoth
    <3>7. 1..m = 1..(m - 1) \cup {m}
      BY <3>2
    <3>8. Good(m)
      <4>1. \A x : x \in ToSet(f[m - 1]) <=> \E j \in 1..(m - 1) : x \in ToSet(s[j])
        BY <3>5
      <4>2. \A x : x \in ToSet(f[m]) <=> \E j \in 1..m : x \in ToSet(s[j])
        BY <3>6, <3>7, <4>1, Zenon
      <4> QED BY <3>6, <4>2
    <3> QED BY <3>2, <3>8
  <2>4. Good(n)
    <3>1. n \in 1..n
      BY <1>3
    <3> HIDE DEF Good
    <3> QED BY <2>3, <3>1
  <2> QED BY <2>1, <2>4
<1> QED BY <1>2, <1>3

-----------------------------------------------------------------------------
(* Texts that rise.                                                         *)

Rising(s) == \A m, n \in 1..Len(s) : m < n => s[m] < s[n]

\* A text that is not empty begins with a chunk.
LEMMA FirstIs ==
  ASSUME NEW l \in Texts, l # <<>>
  PROVE  l[1] \in 1..Chunks
<1>1. Len(l) \in Nat /\ Len(l) # 0
  BY EmptySeq, LenProperties DEF Texts
<1>2. 1 \in 1..Len(l)
  BY <1>1
<1> QED BY <1>2, ElementOfSeq DEF Texts

\* A spill is one chunk: the first of those it was made from.
LEMMA SpilledIs ==
  ASSUME NEW l \in Texts, Len(l) <= TailCap, NEW s \in 1..Chunks, Evicted(l) > 0
  PROVE  LET e == SubSeq(Append(l, s), 1, Evicted(l))
         IN  /\ l # <<>> /\ Evicted(l) = 1 /\ Len(l) = TailCap
             /\ Len(e) = 1 /\ e[1] = l[1]
<1>1. Len(l) \in Nat /\ (Len(l) = 0 <=> l = <<>>)
  BY EmptySeq, LenProperties DEF Texts
<1>2. Evicted(l) = 1 /\ Len(l) = TailCap /\ Len(l) # 0
  BY <1>1, SizeAssumption DEF Evicted
<1>3. /\ Append(l, s) \in Seq(1..Chunks) /\ Len(Append(l, s)) = Len(l) + 1
      /\ \A j \in 1..Len(l) : Append(l, s)[j] = l[j]
  BY AppendProperties DEF Texts
<1>4. Append(l, s)[1] \in 1..Chunks
  <2>1. PICK t \in Seq(1..Chunks) : t = Append(l, s)
    BY <1>3
  <2>2. 1 \in 1..Len(t)
    BY <1>1, <1>2, <1>3, <2>1
  <2> QED BY <2>1, <2>2, ElementOfSeq
<1>5. /\ Len(SubSeq(Append(l, s), 1, 1)) = 1
      /\ SubSeq(Append(l, s), 1, 1)[1] = Append(l, s)[1]
  <2> DEFINE t == Append(l, s)
  <2>1. t[1] \in 1..Chunks
    BY <1>4
  <2> HIDE DEF t
  <2>2. \A j \in 1..1 : t[j] \in 1..Chunks
    BY <2>1
  <2>3. /\ Len(SubSeq(t, 1, 1)) = IF 1 <= 1 THEN 1 - 1 + 1 ELSE 0
        /\ \A j \in 1..(1 - 1 + 1) : SubSeq(t, 1, 1)[j] = t[1 + j - 1]
    BY <2>2, SubSeqProperties
  <2> QED BY <2>3 DEF t
<1> QED BY <1>1, <1>2, <1>3, <1>5

\* A rising text stays so when a greater chunk comes last, and when its first go.
LEMMA RisingTakes ==
  ASSUME NEW l \in Texts, Rising(l), NEW s \in 1..Chunks, \A j \in 1..Len(l) : l[j] < s,
         NEW cut \in {0, 1}, cut <= Len(l)
  PROVE  LET t == SubSeq(Append(l, s), cut + 1, Len(l) + 1)
         IN  /\ Rising(t) /\ Len(t) = Len(l) + 1 - cut /\ \A j \in 1..Len(t) : t[j] <= s
             /\ cut = 1 => l[1] < t[1]
             /\ cut = 0 /\ l # <<>> => t[1] = l[1]
             /\ cut = 0 /\ l = <<>> => t[1] = s
<1> DEFINE c == Append(l, s)
           t == SubSeq(c, cut + 1, Len(l) + 1)
<1>1. /\ c \in Seq(1..Chunks) /\ Len(c) = Len(l) + 1 /\ Len(l) \in Nat
      /\ \A j \in 1..(Len(l) + 1) : c[j] = IF j <= Len(l) THEN l[j] ELSE s
  BY AppendProperties, LenProperties DEF Texts
<1> HIDE DEF c
<1>2. \A j \in 1..Len(c) : c[j] \in 1..Chunks
  BY <1>1, ElementOfSeq
<1>3. /\ Len(t) = Len(l) + 1 - cut
      /\ \A j \in 1..(Len(l) + 1 - cut) : t[j] = c[cut + j]
  <2>1. \A j \in (cut + 1)..(Len(l) + 1) : c[j] \in 1..Chunks
    BY <1>1, <1>2
  <2>2. cut + 1 \in Int /\ Len(l) + 1 \in Int /\ cut + 1 <= Len(l) + 1
    BY <1>1
  <2>3. /\ Len(t) = (Len(l) + 1) - (cut + 1) + 1
        /\ \A j \in 1..((Len(l) + 1) - (cut + 1) + 1) : t[j] = c[(cut + 1) + j - 1]
    BY <2>1, <2>2, SubSeqProperties
  <2>4. (Len(l) + 1) - (cut + 1) + 1 = Len(l) + 1 - cut
    BY <1>1
  <2>5. ASSUME NEW j \in 1..(Len(l) + 1 - cut)
        PROVE  t[j] = c[cut + j]
    <3>1. (cut + 1) + j - 1 = cut + j
      BY <1>1
    <3> HIDE DEF t
    <3>2. t[j] = c[(cut + 1) + j - 1]
      BY <2>3, <2>4
    <3> QED BY <3>1, <3>2
  <2> HIDE DEF t
  <2> QED BY <2>3, <2>4, <2>5
<1> HIDE DEF t
<1>4. \A j \in 1..Len(l) : l[j] \in 1..Chunks
  BY ElementOfSeq DEF Texts
<1>5. \A m, n \in 1..Len(c) : m < n => c[m] < c[n]
  <2> SUFFICES ASSUME NEW m \in 1..Len(c), NEW n \in 1..Len(c), m < n
               PROVE  c[m] < c[n]
    OBVIOUS
  <2>1. m <= Len(l) /\ m \in 1..Len(l) /\ c[m] = l[m]
    BY <1>1
  <2>2. CASE n <= Len(l)
    BY <1>1, <2>1, <2>2 DEF Rising
  <2>3. CASE ~(n <= Len(l))
    BY <1>1, <2>1, <2>3
  <2> QED BY <2>2, <2>3
<1>6. Rising(t)
  <2> SUFFICES ASSUME NEW m \in 1..Len(t), NEW n \in 1..Len(t), m < n
               PROVE  t[m] < t[n]
    BY DEF Rising
  <2>1. cut + m \in 1..Len(c) /\ cut + n \in 1..Len(c) /\ cut + m < cut + n
    BY <1>1, <1>3
  <2>2. t[m] = c[cut + m] /\ t[n] = c[cut + n]
    BY <1>3
  <2> QED BY <1>5, <2>1, <2>2
<1>7. \A j \in 1..Len(t) : t[j] <= s
  <2> SUFFICES ASSUME NEW j \in 1..Len(t) PROVE t[j] <= s
    OBVIOUS
  <2>1. cut + j \in 1..(Len(l) + 1) /\ t[j] = c[cut + j]
    BY <1>1, <1>3
  <2>2. CASE cut + j <= Len(l)
    <3>1. cut + j \in 1..Len(l)
      BY <1>1, <2>1, <2>2
    <3> QED BY <1>1, <1>4, <2>1, <2>2, <3>1
  <2>3. CASE ~(cut + j <= Len(l))
    BY <1>1, <2>1, <2>3
  <2> QED BY <2>2, <2>3
<1>8. /\ cut = 1 => l[1] < t[1]
      /\ cut = 0 /\ l # <<>> => t[1] = l[1]
      /\ cut = 0 /\ l = <<>> => t[1] = s
  <2>1. l # <<>> => Len(l) # 0
    BY EmptySeq DEF Texts
  <2>2. l = <<>> => Len(l) = 0
    BY EmptySeq
  <2>3. t[1] = c[cut + 1]
    BY <1>1, <1>3
  <2>4. cut = 1 => c[1] < c[2] /\ c[1] = l[1]
    BY <1>1, <1>5
  <2> QED BY <1>1, <2>1, <2>2, <2>3, <2>4
<1> QED BY <1>3, <1>6, <1>7, <1>8 DEF t, c

-----------------------------------------------------------------------------
(* Handlers and keepers, field by field.                                    *)

\* What a keeper holds, field by field.
Holds(x, pc, job, from, to, next, buf, tail) ==
  /\ x.pc = pc /\ x.job = job /\ x.from = from /\ x.to = to /\ x.next = next
  /\ x.buf = buf /\ x.tail = tail

\* What each step leaves the keeper with.
LEMMA KeeperHas ==
  ASSUME LogInv, NEW k \in Keepers
  PROVE  LET c == keeper[k]
             h == keeper'[k]
             Rests == Holds(h, "idle", "none", 1, 0, 1, <<>>, <<>>)
             Turns(pc) == Holds(h, pc, c.job, c.from, c.to, c.next, c.buf, c.tail)
         IN  /\ CompactRunLog(k) =>
                  Holds(h, "head", "compact", compacted + 1, MergeTo, compacted + 1, <<>>, <<>>)
             /\ SealRunLog(k) =>
                  Holds(h, "head", "seal", 1, partCount, compacted + 1, <<>>, log)
             /\ ReadHead(k) => Holds(h, "parts", c.job, c.from, c.to, c.next, head, c.tail)
             /\ ReadPart(k) =>
                  Holds(h, c.pc, c.job, c.from, c.to, c.next + 1, c.buf \o part[c.next], c.tail)
             /\ PutMerged(k) => Turns(IF c.job = "compact" THEN "delete" ELSE "record")
             /\ DeletePieces(k) => IF c.job = "compact" THEN Turns("record") ELSE Rests
             /\ RecordCompacted(k) => Rests
             /\ RecordSealed(k) => IF sealed THEN Rests ELSE Turns("delete")
             /\ KeeperEvicted(k) => Rests
<1> DEFINE c == keeper[k]
<1>0. keeper \in [Keepers -> KeeperRows] /\ c \in KeeperRows
  BY KeeperFinds
<1>1. ASSUME NEW x, keeper' = [keeper EXCEPT ![k] = x]
      PROVE  keeper'[k] = x
  BY <1>0, <1>1
<1>2. \A pc, job, from, to, next, buf, tail :
        Holds(Keeping(pc, job, from, to, next, buf, tail), pc, job, from, to, next, buf, tail)
  BY DEF Holds, Keeping
<1>3. IdleKeeper = Keeping("idle", "none", 1, 0, 1, <<>>, <<>>)
  BY DEF IdleKeeper, Keeping
<1>4. /\ \A pc : At(c, pc) = Keeping(pc, c.job, c.from, c.to, c.next, c.buf, c.tail)
      /\ \A h : HeadRead(c, h) = Keeping("parts", c.job, c.from, c.to, c.next, h, c.tail)
      /\ \A p : PartRead(c, p)
                  = Keeping(c.pc, c.job, c.from, c.to, c.next + 1, c.buf \o p, c.tail)
  BY <1>0, KeeperGoes
<1>5. CompactRunLog(k) => keeper'[k] = Compacting(compacted + 1, MergeTo)
  BY <1>1 DEF CompactRunLog, Compacting
<1>6. SealRunLog(k) => keeper'[k] = Sealing(compacted + 1, partCount, log)
  BY <1>1 DEF SealRunLog, Sealing
<1>7. ReadHead(k) => keeper'[k] = HeadRead(c, head)
  BY <1>1 DEF ReadHead, HeadRead
<1>8. ReadPart(k) => keeper'[k] = PartRead(c, part[c.next])
  BY <1>1 DEF ReadPart, PartRead
<1>9. PutMerged(k) => keeper'[k] = At(c, IF c.job = "compact" THEN "delete" ELSE "record")
  BY <1>1 DEF PutMerged, At
<1>10. DeletePieces(k) => keeper'[k] = IF c.job = "compact" THEN At(c, "record") ELSE IdleKeeper
  BY <1>1 DEF DeletePieces, At
<1>11. RecordCompacted(k) \/ KeeperEvicted(k) => keeper'[k] = IdleKeeper
  BY <1>1 DEF RecordCompacted, KeeperEvicted
<1>12. RecordSealed(k) => keeper'[k] = IF sealed THEN IdleKeeper ELSE At(c, "delete")
  BY <1>1 DEF RecordSealed, At
<1> HIDE DEF c
<1>13. CompactRunLog(k) =>
         Holds(keeper'[k], "head", "compact", compacted + 1, MergeTo, compacted + 1, <<>>, <<>>)
  BY <1>2, <1>5, KeeperBegins
<1>14. SealRunLog(k) =>
         Holds(keeper'[k], "head", "seal", 1, partCount, compacted + 1, <<>>, log)
  BY <1>2, <1>6, KeeperBegins
<1>15. ReadHead(k) => Holds(keeper'[k], "parts", c.job, c.from, c.to, c.next, head, c.tail)
  BY <1>2, <1>4, <1>7
<1>16. ReadPart(k) => Holds(keeper'[k], c.pc, c.job, c.from, c.to, c.next + 1,
                            c.buf \o part[c.next], c.tail)
  BY <1>2, <1>4, <1>8
<1>17. PutMerged(k) => Holds(keeper'[k], IF c.job = "compact" THEN "delete" ELSE "record",
                             c.job, c.from, c.to, c.next, c.buf, c.tail)
  BY <1>2, <1>4, <1>9
<1>18. DeletePieces(k) =>
         IF c.job = "compact"
           THEN Holds(keeper'[k], "record", c.job, c.from, c.to, c.next, c.buf, c.tail)
           ELSE Holds(keeper'[k], "idle", "none", 1, 0, 1, <<>>, <<>>)
  BY <1>2, <1>3, <1>4, <1>10
<1>19. RecordCompacted(k) \/ KeeperEvicted(k) =>
         Holds(keeper'[k], "idle", "none", 1, 0, 1, <<>>, <<>>)
  BY <1>2, <1>3, <1>11
<1>20. RecordSealed(k) =>
         IF sealed THEN Holds(keeper'[k], "idle", "none", 1, 0, 1, <<>>, <<>>)
         ELSE Holds(keeper'[k], "delete", c.job, c.from, c.to, c.next, c.buf, c.tail)
  BY <1>2, <1>3, <1>4, <1>12
<1> QED BY <1>13, <1>14, <1>15, <1>16, <1>17, <1>18, <1>19, <1>20 DEF c

\* What each step leaves an append with.
LEMMA AppendHas ==
  ASSUME LogInv, NEW a \in Appends
  PROVE  LET c == append[a]
             h == append'[a]
             Turns(pc, answer) == h.pc = pc /\ h.seq = c.seq /\ h.answer = answer
         IN  /\ Send(a) => h.pc = "read" /\ h.seq = Head(pending) /\ h.answer = "none"
             /\ AppendRead(a) =>
                  \/ Turns("reply", Refusal(a)) /\ Refusal(a) # "none"
                  \/ /\ Refusal(a) = "none" /\ h.log = log /\ h.parts = partCount
                     /\ Turns(IF Evicted(log) > 0 THEN "spill" ELSE "write", c.answer)
             /\ SpillEvicted(a) => Turns("write", c.answer) /\ h.log = c.log /\ h.parts = c.parts
             /\ AppendWrite(a) =>
                  IF Unraced(a) THEN Turns("reply", "ok") ELSE Turns("read", "none")
             /\ Reply(a) \/ AppendEvicted(a) => h.pc = "idle"
             /\ Cut(a) => h = c
             /\ (\/ Send(a) \/ AppendRead(a) \/ SpillEvicted(a) \/ AppendWrite(a)
                 \/ Reply(a) \/ Cut(a) \/ AppendEvicted(a))
                  => \A b \in Appends : b # a => append'[b] = append[b]
<1> DEFINE c == append[a]
<1>0. append \in [Appends -> AppendRows] /\ c \in AppendRows
  BY TypeIs DEF LogInv
<1>1. ASSUME NEW x, append' = [append EXCEPT ![a] = x]
      PROVE  append'[a] = x /\ \A b \in Appends : b # a => append'[b] = append[b]
  BY <1>0, <1>1
<1> DEFINE Others == \A b \in Appends : b # a => append'[b] = append[b]
<1>2. Send(a) => append'[a].pc = "read" /\ append'[a].seq = Head(pending)
                   /\ append'[a].answer = "none" /\ Others
  <2> SUFFICES ASSUME Send(a)
               PROVE  append'[a].pc = "read" /\ append'[a].seq = Head(pending)
                        /\ append'[a].answer = "none" /\ Others
    OBVIOUS
  <2> DEFINE x == [IdleAppend EXCEPT !.pc = "read", !.seq = Head(pending)]
  <2>1. append' = [append EXCEPT ![a] = x]
    BY DEF Send
  <2>2. x = Fresh("read", Head(pending), 0, "none")
    BY FreshIs
  <2> HIDE DEF x
  <2>3. append'[a] = Fresh("read", Head(pending), 0, "none") /\ Others
    BY <1>1, <2>1, <2>2
  <2> QED BY <2>3 DEF Fresh
<1>3. AppendRead(a) =>
        /\ \/ /\ append'[a].pc = "reply" /\ append'[a].seq = c.seq
              /\ append'[a].answer = Refusal(a) /\ Refusal(a) # "none"
           \/ /\ Refusal(a) = "none" /\ append'[a].log = log /\ append'[a].parts = partCount
              /\ append'[a].pc = IF Evicted(log) > 0 THEN "spill" ELSE "write"
              /\ append'[a].seq = c.seq /\ append'[a].answer = c.answer
        /\ Others
  <2> DEFINE pc == IF Evicted(log) > 0 THEN "spill" ELSE "write"
  <2>1. CASE AppendRead(a) /\ Refusal(a) # "none"
    <3>1. append' = [append EXCEPT ![a] = Answered(c.seq, Refusal(a))]
      BY <2>1 DEF AppendRead, Answered
    <3>2. append'[a] = Fresh("reply", c.seq, 0, Refusal(a)) /\ Others
      BY <1>1, <3>1, FreshIs
    <3> QED BY <2>1, <3>2 DEF Fresh
  <2>2. CASE AppendRead(a) /\ Refusal(a) = "none"
    <3>1. append' = [append EXCEPT ![a] = Informed(c, pc, log, dropped, partCount)]
      BY <2>2 DEF AppendRead, Informed
    <3> HIDE DEF pc, c
    <3>2. append'[a] = [pc |-> pc, seq |-> c.seq, reads |-> c.reads, log |-> log,
                        dropped |-> dropped, parts |-> partCount, answer |-> c.answer] /\ Others
      BY <1>0, <1>1, <3>1, AppendGoes
    <3> QED BY <2>2, <3>2 DEF pc
  <2> QED BY <2>1, <2>2
<1>4. SpillEvicted(a) =>
        /\ append'[a].pc = "write" /\ append'[a].seq = c.seq /\ append'[a].answer = c.answer
        /\ append'[a].log = c.log /\ append'[a].parts = c.parts /\ Others
  <2>1. SpillEvicted(a) => append' = [append EXCEPT ![a] = Writing(c)]
    BY DEF SpillEvicted, Writing
  <2> HIDE DEF c
  <2>2. SpillEvicted(a) =>
          /\ append'[a] = [pc |-> "write", seq |-> c.seq, reads |-> c.reads, log |-> c.log,
                           dropped |-> c.dropped, parts |-> c.parts, answer |-> c.answer]
          /\ Others
    BY <1>0, <1>1, <2>1, AppendGoes
  <2> QED BY <2>2
<1>5. AppendWrite(a) =>
        /\ append'[a].seq = c.seq /\ Others
        /\ IF Unraced(a) THEN append'[a].pc = "reply" /\ append'[a].answer = "ok"
           ELSE append'[a].pc = "read" /\ append'[a].answer = "none"
  <2>1. CASE AppendWrite(a) /\ Unraced(a)
    <3>1. append' = [append EXCEPT ![a] = Answered(c.seq, "ok")]
      BY <2>1 DEF AppendWrite, Answered
    <3>2. append'[a] = Fresh("reply", c.seq, 0, "ok") /\ Others
      BY <1>1, <3>1, FreshIs
    <3> QED BY <2>1, <3>2 DEF Fresh
  <2>2. CASE AppendWrite(a) /\ ~Unraced(a)
    <3>1. append' = [append EXCEPT ![a] = Reread(c.seq, c.reads + 1)]
      BY <2>2 DEF AppendWrite, Reread
    <3>2. append'[a] = Fresh("read", c.seq, c.reads + 1, "none") /\ Others
      BY <1>1, <3>1, FreshIs
    <3> QED BY <2>2, <3>2 DEF Fresh
  <2> QED BY <2>1, <2>2
<1>6. Reply(a) \/ AppendEvicted(a) => append'[a].pc = "idle" /\ Others
  BY <1>1, IdleFits DEF Reply, AppendEvicted
<1>7. Cut(a) => append'[a] = c /\ Others
  BY DEF Cut
<1> QED BY <1>2, <1>3, <1>4, <1>5, <1>6, <1>7

\* A row that takes a chunk has one part more when the first chunk is spilled.
LEMMA WriteTakes ==
  ASSUME LogInv, NEW a \in Appends, AppendWrite(a), Unraced(a)
  PROVE  LET c == append[a]
             cut == Evicted(c.log)
             taken == SubSeq(Append(c.log, c.seq), cut + 1, Len(c.log) + 1)
         IN  /\ active /\ partCount = c.parts /\ cut \in {0, 1} /\ c.log \in Texts
             /\ Len(c.log) <= TailCap /\ c.seq \in 1..Chunks
             /\ c.pc = "write" /\ partCount' = partCount + cut /\ log' = taken
             /\ taken \in Texts /\ Len(taken) = Len(c.log) + 1 - cut
             /\ logSeq' = c.seq /\ spilled' = spilled \o SubSeq(Append(c.log, c.seq), 1, cut)
             /\ UNCHANGED <<active, compacted, sealed, bucketVars, batchVars, keeper, evictions>>
<1> DEFINE c == append[a]
           cut == Evicted(c.log)
           taken == SubSeq(Append(c.log, c.seq), cut + 1, Len(c.log) + 1)
<1>1. c \in AppendRows /\ AppendFits(c) /\ c.pc = "write"
  BY TypeIs DEF LogInv, AppendWrite
<1>2. c.log \in Texts /\ Len(c.log) <= TailCap /\ c.seq \in 1..Chunks
  BY <1>1 DEF AppendRows, AppendFits
<1>3. /\ cut \in {0, 1} /\ Len(Append(c.log, c.seq)) = Len(c.log) + 1
      /\ taken \in Texts /\ Len(taken) = Len(c.log) + 1 - cut
  BY <1>2, TailTakes
<1>4. /\ active /\ partCount = c.parts /\ logSeq' = c.seq
      /\ log' = SubSeq(Combined(a), cut + 1, Len(Combined(a)))
      /\ spilled' = spilled \o SubSeq(Combined(a), 1, cut)
      /\ partCount' = c.parts + IF cut > 0 THEN 1 ELSE 0
      /\ UNCHANGED <<active, compacted, sealed, bucketVars, batchVars, keeper, evictions>>
  BY DEF AppendWrite, Unraced
<1>5. log' = taken /\ spilled' = spilled \o SubSeq(Append(c.log, c.seq), 1, cut)
  BY <1>3, <1>4 DEF Combined
<1>6. (IF cut > 0 THEN 1 ELSE 0) = cut
  BY <1>3
<1> QED BY <1>1, <1>2, <1>3, <1>4, <1>5, <1>6


-----------------------------------------------------------------------------
(* The tail is in order, and a part lands before the row counts it.         *)

\* A handler that has read the row and is about to write it.
Informs(x) == x.pc \in {"spill", "write"}

\* What such a handler holds was in the row once, in order, and what it is to
\* spill is in the bucket before the row is asked to count it.
TailHeld(x) ==
  Informs(x) =>
    /\ Rising(x.log) /\ \A j \in 1..Len(x.log) : x.log[j] < x.seq
    /\ x.parts <= partCount /\ (x.parts > 0 => x.log # <<>>)
    /\ x.pc = "spill" => Evicted(x.log) > 0
    /\ x.pc = "write" /\ Evicted(x.log) > 0 /\ x.parts = partCount => part[x.parts + 1] # <<>>

TailInv ==
  /\ Rising(log) /\ (\A j \in 1..Len(log) : log[j] <= logSeq)
  /\ partCount > 0 => log # <<>>
  /\ \A a \in Appends : TailHeld(append[a])

\* What a handler that has read the row may hold.
LEMMA InformsIs ==
  ASSUME LogInv, NEW a \in Appends, Informs(append[a])
  PROVE  /\ append[a].log \in Texts /\ Len(append[a].log) <= TailCap
         /\ append[a].seq \in 1..Chunks /\ append[a].parts \in 0..(Chunks - 1)
<1> DEFINE c == append[a]
<1>1. c \in AppendRows /\ AppendFits(c) /\ c.pc \in {"spill", "write"}
  BY TypeIs DEF LogInv, Informs
<1>2. /\ c.log \in Texts /\ Len(c.log) <= TailCap /\ c.seq \in 1..Chunks
      /\ c.parts \in 0..Chunks /\ c.parts + Len(c.log) < c.seq
  BY <1>1 DEF AppendRows, AppendFits
<1>3. Len(c.log) \in Nat
  BY <1>2, LenProperties DEF Texts
<1> QED BY <1>2, <1>3, SizeAssumption

\* The first tail is empty.
LEMMA TailStart == Init => TailInv
<1> SUFFICES ASSUME Init PROVE TailInv
  OBVIOUS
<1>1. log = <<>> /\ partCount = 0 /\ Len(log) = 0
  BY IdleFits DEF Init
<1>2. \A j \in 1..Len(log) : FALSE
  BY <1>1
<1>3. \A a \in Appends : append[a].pc = "idle"
  BY IdleFits DEF Init
<1> QED BY <1>1, <1>2, <1>3 DEF TailInv, TailHeld, Informs, Rising

\* A step that leaves the row and the parts alone.
LEMMA TailKept ==
  ASSUME TailInv, UNCHANGED <<log, logSeq, partCount, part, append>>
  PROVE  TailInv'
BY DEF TailInv, TailHeld, Informs, Rising, Evicted

\* A step of one handler that leaves the row alone.
LEMMA TailOthers ==
  ASSUME TailInv, NEW a \in Appends, UNCHANGED <<log, logSeq, partCount, part>>,
         \A b \in Appends : b # a => append'[b] = append[b], TailHeld(append[a])'
  PROVE  TailInv'
<1>1. \A b \in Appends : TailHeld(append[b])'
  BY DEF TailInv, TailHeld, Informs, Rising, Evicted
<1> QED BY <1>1 DEF TailInv, Rising

\* The row is read.
LEMMA TailReads ==
  ASSUME LogInv, TailInv, NEW a \in Appends, AppendRead(a)
  PROVE  TailInv'
<1>1. /\ \/ append'[a].pc = "reply"
         \/ /\ Refusal(a) = "none" /\ append'[a].log = log /\ append'[a].parts = partCount
            /\ append'[a].pc = IF Evicted(log) > 0 THEN "spill" ELSE "write"
            /\ append'[a].seq = append[a].seq
      /\ \A b \in Appends : b # a => append'[b] = append[b]
  BY AppendHas
<1>2. UNCHANGED <<log, logSeq, partCount, part>>
  BY DEF AppendRead, rowVars, bucketVars
<1>3. Refusal(a) = "none" => append[a].seq > logSeq
  <2>1. append[a].seq \in 0..Chunks /\ logSeq \in 0..Chunks
    BY TypeIs DEF LogInv, AppendRows
  <2> QED BY <2>1 DEF Refusal, Applied
<1>4. TailHeld(append[a])'
  <2>1. CASE append'[a].pc = "reply"
    BY <2>1 DEF TailHeld, Informs
  <2>2. CASE append'[a].pc # "reply"
    <3>1. /\ append'[a].log = log /\ append'[a].parts = partCount /\ logSeq < append'[a].seq
          /\ append'[a].pc = "spill" <=> Evicted(log) > 0
          /\ append'[a].pc \in {"spill", "write"}
      BY <1>1, <1>3, <2>2
    <3>2. \A j \in 1..Len(log) : log[j] < append'[a].seq
      <4>1. \A j \in 1..Len(log) : log[j] \in 1..Chunks
        BY TypeIs, ElementOfSeq DEF LogInv, Texts
      <4>2. append'[a].seq \in 0..Chunks /\ logSeq \in 0..Chunks
        BY <1>1, <2>2, TypeIs DEF LogInv, AppendRows
      <4> QED BY <3>1, <4>1, <4>2 DEF TailInv
    <3>3. partCount \in 0..Chunks
      BY TypeIs DEF LogInv
    <3> QED BY <1>2, <3>1, <3>2, <3>3 DEF TailHeld, TailInv, Rising, Evicted
  <2> QED BY <2>1, <2>2
<1> QED BY <1>1, <1>2, <1>4, TailOthers

\* The part lands.
LEMMA TailSpills ==
  ASSUME LogInv, TailInv, NEW a \in Appends, SpillEvicted(a)
  PROVE  /\ TailInv'
         /\ part'[append[a].parts + 1] = SubSeq(Append(append[a].log, append[a].seq), 1,
                                                Evicted(append[a].log))
         /\ append[a].parts + 1 \in 1..Chunks
<1> DEFINE c == append[a]
           piece == SubSeq(Append(c.log, c.seq), 1, Evicted(c.log))
<1>1. /\ append'[a].pc = "write" /\ append'[a].seq = c.seq /\ append'[a].log = c.log
      /\ append'[a].parts = c.parts
      /\ \A b \in Appends : b # a => append'[b] = append[b]
  BY AppendHas
<1>2. UNCHANGED <<log, logSeq, partCount>>
  BY DEF SpillEvicted, rowVars
<1>3. /\ c.log \in Texts /\ Len(c.log) <= TailCap /\ c.seq \in 1..Chunks
      /\ c.parts \in 0..(Chunks - 1) /\ Informs(c)
  BY InformsIs DEF SpillEvicted, Informs
<1>4. part' = [part EXCEPT ![c.parts + 1] = piece] /\ part \in [1..Chunks -> Texts]
  BY TypeIs DEF SpillEvicted, Combined, LogInv
<1>5. c.parts + 1 \in 1..Chunks
  BY <1>3, SizeAssumption
<1>6. /\ part'[c.parts + 1] = piece
      /\ \A n \in 1..Chunks : n # c.parts + 1 => part'[n] = part[n]
  BY <1>4, <1>5
<1>7. Evicted(c.log) > 0 /\ piece # <<>>
  <2>0. Evicted(c.log) > 0
    BY <1>3 DEF TailInv, TailHeld, SpillEvicted
  <2>1. Len(piece) = 1
    BY <1>3, <2>0, SpilledIs
  <2>2. Len(<<>>) = 0
    BY IdleFits
  <2> HIDE DEF piece
  <2> QED BY <2>0, <2>1, <2>2
<1> HIDE DEF piece
<1>8. ASSUME NEW b \in Appends
      PROVE  TailHeld(append[b])'
  <2>1. TailHeld(append[b]) /\ Evicted(append'[b].log) = Evicted(append[b].log)
    BY <1>1 DEF TailInv
  <2>2. CASE b = a
    <3>1. /\ Rising(c.log) /\ (\A j \in 1..Len(c.log) : c.log[j] < c.seq)
          /\ c.parts <= partCount /\ (c.parts > 0 => c.log # <<>>)
      BY <1>3, <2>1, <2>2 DEF TailHeld
    <3>2. part'[c.parts + 1] # <<>>
      BY <1>6, <1>7
    <3> HIDE DEF c
    <3> QED BY <1>1, <1>2, <2>2, <3>1, <3>2 DEF TailHeld, Rising, Evicted, c
  <2>3. CASE b # a
    <3>1. append'[b] = append[b]
      BY <1>1, <2>3
    <3>2. ASSUME Informs(append[b]), append[b].pc = "write", Evicted(append[b].log) > 0,
                 append[b].parts = partCount
          PROVE  part'[append[b].parts + 1] # <<>>
      <4>1. append[b].parts + 1 \in 1..Chunks /\ part[append[b].parts + 1] # <<>>
        <5>1. append[b].parts \in 0..(Chunks - 1)
          BY <3>2, InformsIs
        <5> QED BY <2>1, <3>2, <5>1, SizeAssumption DEF TailHeld
      <4>2. CASE append[b].parts + 1 = c.parts + 1
        BY <1>6, <1>7, <4>2
      <4>3. CASE append[b].parts + 1 # c.parts + 1
        BY <1>6, <4>1, <4>3
      <4> QED BY <4>2, <4>3
    <3> QED BY <1>2, <2>1, <3>1, <3>2 DEF TailHeld, Informs, Rising, Evicted
  <2> QED BY <2>2, <2>3
<1> QED BY <1>2, <1>5, <1>6, <1>8 DEF TailInv, Rising, piece

\* The row is written.
LEMMA TailWrites ==
  ASSUME LogInv, TailInv, NEW a \in Appends, AppendWrite(a)
  PROVE  /\ TailInv'
         /\ partCount' # partCount => part'[partCount'] # <<>>
<1> DEFINE c == append[a]
           cut == Evicted(c.log)
           taken == SubSeq(Append(c.log, c.seq), cut + 1, Len(c.log) + 1)
<1>1. /\ ~Informs(append'[a])
      /\ \A b \in Appends : b # a => append'[b] = append[b]
  BY AppendHas DEF Informs
<1>2. part' = part
  BY DEF AppendWrite, bucketVars
<1>3. TailHeld(append[a])'
  BY <1>1 DEF TailHeld
<1>4. CASE ~Unraced(a)
  <2>1. UNCHANGED <<log, logSeq, partCount>>
    BY <1>4 DEF AppendWrite
  <2> QED BY <1>1, <1>2, <1>3, <2>1, TailOthers
<1>5. CASE Unraced(a)
  <2>1. /\ partCount = c.parts /\ cut \in {0, 1} /\ c.log \in Texts /\ Len(c.log) <= TailCap
        /\ c.seq \in 1..Chunks /\ c.pc = "write" /\ partCount' = partCount + cut
        /\ log' = taken /\ Len(taken) = Len(c.log) + 1 - cut /\ logSeq' = c.seq
    BY <1>5, WriteTakes
  <2>2. Rising(c.log) /\ (\A j \in 1..Len(c.log) : c.log[j] < c.seq)
        /\ (cut > 0 => part[c.parts + 1] # <<>>)
    BY <2>1 DEF TailInv, TailHeld, Informs
  <2>3. Len(c.log) \in Nat /\ (cut = 1 => Len(c.log) # 0)
    <3>1. Len(c.log) \in Nat
      BY <2>1, LenProperties DEF Texts
    <3>2. cut = 1 => c.log # <<>>
      BY <2>1, SpilledIs
    <3>3. Len(c.log) = 0 => c.log = <<>>
      BY <2>1, EmptySeq DEF Texts
    <3> QED BY <3>1, <3>2, <3>3
  <2>4. Rising(taken) /\ \A j \in 1..Len(taken) : taken[j] <= c.seq
    <3>1. cut <= Len(c.log)
      BY <2>1, <2>3
    <3> HIDE DEF c, cut
    <3> QED BY <2>1, <2>2, <3>1, RisingTakes
  <2>5. log' # <<>>
    <3>1. Len(log') # 0
      BY <2>1, <2>3
    <3> QED BY <3>1, IdleFits
  <2> HIDE DEF taken, cut
  <2>6. ASSUME NEW b \in Appends, b # a
        PROVE  TailHeld(append[b])'
    <3>1. append'[b] = append[b] /\ TailHeld(append[b])
      BY <1>1, <2>6 DEF TailInv
    <3>2. ASSUME Informs(append[b])
          PROVE  /\ append[b].parts <= partCount'
                 /\ append[b].parts = partCount' => append[b].parts = partCount
      <4>1. append[b].parts \in 0..(Chunks - 1) /\ append[b].parts <= partCount
        BY <3>1, <3>2, InformsIs DEF TailHeld
      <4>2. partCount \in 0..Chunks
        BY TypeIs DEF LogInv
      <4> QED BY <2>1, <4>1, <4>2, SizeAssumption
    <3> QED BY <1>2, <3>1, <3>2 DEF TailHeld, Informs, Rising, Evicted
  <2>7. TailInv'
    <3>1. \A b \in Appends : TailHeld(append[b])'
      BY <1>3, <2>6
    <3> QED BY <2>1, <2>4, <2>5, <3>1 DEF TailInv, Rising
  <2>8. partCount' # partCount => part'[partCount'] # <<>>
    <3>1. partCount \in 0..Chunks
      BY TypeIs DEF LogInv
    <3>2. partCount' # partCount => cut = 1 /\ partCount' = c.parts + 1
      BY <2>1, <3>1
    <3> QED BY <1>2, <2>2, <3>2
  <2> QED BY <2>7, <2>8
<1> QED BY <1>4, <1>5, <1>2 DEF AppendWrite

\* A keeper deletes no part that the row does not count.
LEMMA TailDeletes ==
  ASSUME LogInv, TailInv, NEW k \in Keepers, DeletePieces(k)
  PROVE  TailInv'
<1>1. UNCHANGED <<log, logSeq, partCount, append>>
  BY DEF DeletePieces, rowVars
<1>2. /\ keeper[k].from \in 1..(Chunks + 1) /\ keeper[k].to \in 0..Chunks
      /\ keeper[k].to <= partCount /\ partCount \in 0..Chunks
  BY KeeperFinds DEF DeletePieces, KeeperRows, KeeperFits
<1>3. partCount + 1 \in 1..Chunks => part'[partCount + 1] = part[partCount + 1]
  <2>1. partCount + 1 \notin Merged(k)
    BY <1>2, SizeAssumption DEF Merged
  <2>2. part' = [n \in 1..Chunks |-> IF n \in Merged(k) THEN <<>> ELSE part[n]]
    BY DEF DeletePieces
  <2> QED BY <2>1, <2>2
<1>4. ASSUME NEW a \in Appends
      PROVE  TailHeld(append[a])'
  <2>1. TailHeld(append[a])
    BY DEF TailInv
  <2>2. Informs(append[a]) /\ append[a].parts = partCount => partCount + 1 \in 1..Chunks
    <3>1. Informs(append[a]) => append[a].parts \in 0..(Chunks - 1)
      BY InformsIs
    <3> QED BY <1>2, <3>1, SizeAssumption
  <2> QED BY <1>1, <1>3, <2>1, <2>2 DEF TailHeld, Informs, Rising, Evicted
<1> QED BY <1>1, <1>4 DEF TailInv, Rising

\* Every step keeps the tail in order, and counts no part that has not landed.
LEMMA TailStep ==
  LogInv /\ TailInv /\ [Next]_vars
    => TailInv' /\ (partCount' # partCount => part'[partCount'] # <<>>)
<1> SUFFICES ASSUME LogInv, TailInv, [Next]_vars
             PROVE  TailInv' /\ (partCount' # partCount => part'[partCount'] # <<>>)
  OBVIOUS
<1>1. CASE Flush \/ EndRun \/ UNCHANGED vars
  <2>1. UNCHANGED <<log, logSeq, partCount, part, append>>
    BY <1>1 DEF Flush, EndRun, vars, rowVars, bucketVars
  <2> QED BY <2>1, TailKept
<1>2. ASSUME NEW a \in Appends, Send(a) \/ Reply(a) \/ Cut(a) \/ AppendEvicted(a)
      PROVE  TailInv' /\ (partCount' # partCount => part'[partCount'] # <<>>)
  <2>1. UNCHANGED <<log, logSeq, partCount, part>>
    BY <1>2 DEF Send, Reply, Cut, AppendEvicted, rowVars, bucketVars
  <2>2. CASE Cut(a)
    BY <2>1, <2>2, TailKept DEF Cut
  <2>3. CASE ~Cut(a)
    <3>1. /\ append'[a].pc \in {"idle", "read"}
          /\ \A b \in Appends : b # a => append'[b] = append[b]
      BY <1>2, <2>3, AppendHas
    <3>2. TailHeld(append[a])'
      BY <3>1 DEF TailHeld, Informs
    <3> QED BY <2>1, <3>1, <3>2, TailOthers
  <2> QED BY <2>2, <2>3
<1>3. ASSUME NEW a \in Appends, AppendRead(a) \/ SpillEvicted(a) \/ AppendWrite(a)
      PROVE  TailInv' /\ (partCount' # partCount => part'[partCount'] # <<>>)
  <2>1. AppendRead(a) \/ SpillEvicted(a) => partCount' = partCount
    BY DEF AppendRead, SpillEvicted, rowVars
  <2> QED BY <1>3, <2>1, TailReads, TailSpills, TailWrites
<1>4. ASSUME NEW k \in Keepers, KeeperStep(k) \/ KeeperEvicted(k)
      PROVE  TailInv' /\ (partCount' # partCount => part'[partCount'] # <<>>)
  <2>1. CASE DeletePieces(k)
    <3>1. partCount' = partCount
      BY <2>1 DEF DeletePieces, rowVars
    <3> QED BY <2>1, <3>1, TailDeletes
  <2>2. CASE ~DeletePieces(k)
    <3>1. UNCHANGED <<log, logSeq, partCount, part, append>>
      BY <1>4, <2>2 DEF KeeperStep, CompactRunLog, SealRunLog, ReadHead, ReadPart, PutMerged,
        RecordCompacted, RecordSealed, KeeperEvicted, rowVars, bucketVars
    <3> QED BY <3>1, TailKept
  <2> QED BY <2>1, <2>2
<1> QED BY <1>1, <1>2, <1>3, <1>4 DEF Next

\* The row counts a part only when its object is in the bucket, however many
\* handlers spill, keepers delete and both are killed, and however late: "The
\* object lands *before* the D1 write" (spillEvicted, compactRunLog's deletes).
THEOREM PartsLandFirst ==
  Spec => [][partCount' # partCount => part'[partCount'] # <<>>]_vars
<1>1. LogInv /\ TailInv /\ [Next]_vars
        => [partCount' # partCount => part'[partCount'] # <<>>]_vars
  BY TailStep
<1>2. LogInv /\ TailInv /\ [Next]_vars => TailInv'
  BY TailStep
<1> QED BY <1>1, <1>2, LogAlwaysFits, TailStart, PTL DEF Spec

\* The tail in the row is in the order it was produced and never goes past the
\* number the row has acknowledged, although late handlers write back what they
\* read before others wrote (appendRunLog's seq and partCount guards).
THEOREM TailInOrder == Spec => []TailInv
<1>1. LogInv /\ TailInv /\ [Next]_vars => TailInv'
  BY TailStep
<1> QED BY <1>1, LogAlwaysFits, TailStart, PTL DEF Spec

-----------------------------------------------------------------------------
(* Which chunk is spilled next.  All who may write agree on it when the     *)
(* daemon loses no request; and when it loses some, but trims no queue      *)
(* while a request about its head is being handled.                         *)

Uncut == "cut" \notin Events

\* Output that comes while a chunk is on the way, or being handled by a late
\* handler, finds room in the queue.
Roomy == Flush => Len(pending) < MaxPending \/ \A a \in Appends : append[a].pc = "idle"

\* A handler that may write the row begins its tail as the row does.
FirstAgrees(x) ==
  Informs(x) /\ x.parts = partCount =>
    IF x.log = <<>> THEN log = <<>> \/ x.seq = log[1] ELSE log # <<>> /\ x.log[1] = log[1]

Agree == \A a \in Appends : FirstAgrees(append[a])

\* With no request lost there is one handler at a time, and it holds the row.
AloneInv ==
  \A a \in Appends :
    /\ append[a].pc # "idle" => inflight = a
    /\ Informs(append[a]) => append[a].log = log /\ append[a].parts = partCount

\* With no queue trimmed, every handler of an empty row brings its first chunk.
RoomyInv ==
  /\ Agree /\ (logSeq > 0 => log # <<>>)
  /\ log = <<>> =>
       \A a \in Appends : append[a].pc # "idle" =>
         pending # <<>> /\ append[a].seq = pending[1] /\ append[a].answer # "ok"

\* A row that is written begins as before, or one chunk later.
LEMMA FirstWritten ==
  ASSUME LogInv, TailInv, Agree, NEW a \in Appends, AppendWrite(a), Unraced(a)
  PROVE  LET c == append[a]
         IN  /\ log' # <<>> /\ logSeq' > 0
             /\ log # <<>> /\ Evicted(c.log) = 0 => log'[1] = log[1]
             /\ log = <<>> => c.log = <<>> /\ log'[1] = c.seq /\ Evicted(c.log) = 0
             /\ Evicted(c.log) > 0 => /\ log # <<>> /\ c.log # <<>> /\ c.log[1] = log[1]
                                      /\ log[1] < log'[1]
<1> DEFINE c == append[a]
           cut == Evicted(c.log)
           taken == SubSeq(Append(c.log, c.seq), cut + 1, Len(c.log) + 1)
<1>1. /\ partCount = c.parts /\ cut \in {0, 1} /\ c.log \in Texts /\ Len(c.log) <= TailCap
      /\ c.seq \in 1..Chunks /\ c.pc = "write"
      /\ log' = taken /\ Len(taken) = Len(c.log) + 1 - cut /\ logSeq' = c.seq
  BY WriteTakes
<1>2. /\ Rising(c.log) /\ (\A j \in 1..Len(c.log) : c.log[j] < c.seq) /\ FirstAgrees(c)
      /\ Informs(c)
  BY <1>1 DEF TailInv, TailHeld, Informs, Agree
<1>3. /\ Len(c.log) \in Nat /\ (Len(c.log) = 0 <=> c.log = <<>>)
      /\ (cut > 0 => c.log # <<>>)
  <2>1. Len(c.log) \in Nat /\ (Len(c.log) = 0 <=> c.log = <<>>)
    BY <1>1, EmptySeq, LenProperties DEF Texts
  <2>2. cut > 0 => c.log # <<>>
    BY <1>1, SpilledIs
  <2> QED BY <2>1, <2>2
<1>4. /\ cut = 1 => c.log[1] < taken[1]
      /\ cut = 0 /\ c.log # <<>> => taken[1] = c.log[1]
      /\ cut = 0 /\ c.log = <<>> => taken[1] = c.seq
  <2>1. cut <= Len(c.log)
    BY <1>1, <1>3
  <2>2. PICK l \in Texts, s \in 1..Chunks, d \in {0, 1} : l = c.log /\ s = c.seq /\ d = cut
    BY <1>1
  <2>3. Rising(l) /\ (\A j \in 1..Len(l) : l[j] < s) /\ d <= Len(l)
    BY <1>2, <2>1, <2>2
  <2>4. taken = SubSeq(Append(l, s), d + 1, Len(l) + 1)
    BY <2>2
  <2> DEFINE t == SubSeq(Append(l, s), d + 1, Len(l) + 1)
  <2>5. /\ d = 1 => l[1] < t[1]
        /\ d = 0 /\ l # <<>> => t[1] = l[1]
        /\ d = 0 /\ l = <<>> => t[1] = s
    BY <2>3, RisingTakes
  <2> HIDE DEF c, cut, taken, t
  <2>6. taken = t
    BY <2>4 DEF t
  <2> QED BY <2>2, <2>5, <2>6
<1>5. log' # <<>>
  <2>1. Len(log') # 0
    BY <1>1, <1>3
  <2> QED BY <2>1, IdleFits
<1>6. IF c.log = <<>> THEN log = <<>> \/ c.seq = log[1] ELSE log # <<>> /\ c.log[1] = log[1]
  BY <1>1, <1>2 DEF FirstAgrees
<1> HIDE DEF taken, cut, c
<1>7. logSeq' > 0
  BY <1>1
<1>8. cut > 0 <=> cut = 1
  BY <1>1
<1> QED BY <1>1, <1>3, <1>4, <1>5, <1>6, <1>7, <1>8 DEF cut, c

\* The row is written and those who read it before still agree.
LEMMA AgreeWrites ==
  ASSUME LogInv, TailInv, Agree, NEW a \in Appends, AppendWrite(a), Unraced(a),
         log = <<>> => \A b \in Appends : Informs(append[b]) => append[b].seq = append[a].seq
  PROVE  Agree'
<1> DEFINE c == append[a]
           cut == Evicted(c.log)
<1>1. partCount' = partCount + cut /\ cut \in {0, 1} /\ partCount \in 0..Chunks
  BY WriteTakes, TypeIs DEF LogInv
<1>2. /\ ~Informs(append'[a])
      /\ \A b \in Appends : b # a => append'[b] = append[b]
  BY AppendHas DEF Informs
<1>3. /\ log' # <<>>
      /\ log # <<>> /\ cut = 0 => log'[1] = log[1]
      /\ log = <<>> => c.log = <<>> /\ log'[1] = c.seq
  BY FirstWritten
<1> HIDE DEF cut, c
<1>4. ASSUME NEW b \in Appends, Informs(append'[b]), append'[b].parts = partCount'
      PROVE  IF append'[b].log = <<>> THEN append'[b].seq = log'[1]
             ELSE append'[b].log[1] = log'[1]
  <2>1. b # a /\ append'[b] = append[b]
    BY <1>2, <1>4
  <2>2. append[b].parts <= partCount /\ append[b].parts \in 0..(Chunks - 1)
    BY <1>4, <2>1, InformsIs DEF TailInv, TailHeld
  <2>3. cut = 0 /\ append[b].parts = partCount
    BY <1>1, <1>4, <2>1, <2>2, SizeAssumption
  <2>4. IF append[b].log = <<>> THEN log = <<>> \/ append[b].seq = log[1]
        ELSE log # <<>> /\ append[b].log[1] = log[1]
    BY <1>4, <2>1, <2>3 DEF Agree, FirstAgrees
  <2>5. log = <<>> => append[b].seq = c.seq
    BY <1>4, <2>1 DEF c
  <2> QED BY <1>3, <2>1, <2>3, <2>4, <2>5
<1> QED BY <1>3, <1>4 DEF Agree, FirstAgrees, Informs

\* A step that leaves the row alone, and no handler with an older one than before.
LEMMA AgreeKept ==
  ASSUME Agree, UNCHANGED <<log, partCount>>,
         \A a \in Appends : Informs(append'[a]) =>
           \/ append'[a].log = log
           \/ /\ Informs(append[a]) /\ append'[a].log = append[a].log
              /\ append'[a].parts = append[a].parts /\ append'[a].seq = append[a].seq
  PROVE  Agree'
BY DEF Agree, FirstAgrees, Informs

\* What a step of the handlers does to those that have read the row.
LEMMA InformedStays ==
  ASSUME LogInv, [Next]_vars,
         ~(\E a \in Appends : AppendWrite(a) /\ Unraced(a))
  PROVE  /\ UNCHANGED <<log, logSeq, partCount, spilled>>
         /\ \A a \in Appends : Informs(append'[a]) =>
              \/ append'[a].log = log /\ append'[a].parts = partCount /\ AppendRead(a)
              \/ /\ Informs(append[a]) /\ append'[a].log = append[a].log
                 /\ append'[a].parts = append[a].parts /\ append'[a].seq = append[a].seq
<1>1. CASE Flush \/ EndRun \/ UNCHANGED vars
  BY <1>1 DEF Flush, EndRun, vars, rowVars
<1>2. ASSUME NEW k \in Keepers, KeeperStep(k) \/ KeeperEvicted(k)
      PROVE  UNCHANGED <<log, logSeq, partCount, spilled, append>>
  BY <1>2 DEF KeeperStep, CompactRunLog, SealRunLog, ReadHead, ReadPart, PutMerged,
    DeletePieces, RecordCompacted, RecordSealed, KeeperEvicted, rowVars
<1>3. ASSUME NEW a \in Appends,
             \/ Send(a) \/ AppendRead(a) \/ SpillEvicted(a) \/ AppendWrite(a)
             \/ Reply(a) \/ Cut(a) \/ AppendEvicted(a)
      PROVE  /\ UNCHANGED <<log, logSeq, partCount, spilled>>
             /\ \A b \in Appends : b # a => append'[b] = append[b]
             /\ Informs(append'[a]) =>
                  \/ append'[a].log = log /\ append'[a].parts = partCount /\ AppendRead(a)
                  \/ /\ Informs(append[a]) /\ append'[a].log = append[a].log
                     /\ append'[a].parts = append[a].parts /\ append'[a].seq = append[a].seq
  <2>1. UNCHANGED <<log, logSeq, partCount, spilled>>
    BY <1>3 DEF Send, AppendRead, SpillEvicted, AppendWrite, Reply, Cut, AppendEvicted, rowVars
  <2>2. \A b \in Appends : b # a => append'[b] = append[b]
    BY <1>3, AppendHas
  <2>3. CASE Send(a) \/ Reply(a) \/ AppendEvicted(a)
    BY <2>1, <2>2, <2>3, AppendHas DEF Informs
  <2>4. CASE AppendRead(a)
    BY <2>1, <2>2, <2>4, AppendHas DEF Informs
  <2>5. CASE SpillEvicted(a)
    BY <2>1, <2>2, <2>5, AppendHas DEF Informs, SpillEvicted
  <2>6. CASE AppendWrite(a)
    <3>1. ~Unraced(a)
      BY <2>6
    <3> QED BY <2>1, <2>2, <2>6, <3>1, AppendHas DEF Informs
  <2>7. CASE Cut(a)
    BY <2>1, <2>2, <2>7 DEF Cut
  <2> QED BY <1>3, <2>3, <2>4, <2>5, <2>6, <2>7
<1>4. CASE \E a \in Appends : \/ Send(a) \/ AppendRead(a) \/ SpillEvicted(a) \/ AppendWrite(a)
                              \/ Reply(a) \/ Cut(a) \/ AppendEvicted(a)
  BY <1>3, <1>4
<1>5. CASE \E k \in Keepers : KeeperStep(k) \/ KeeperEvicted(k)
  BY <1>2, <1>5
<1> QED BY <1>1, <1>4, <1>5 DEF Next

\* With no request lost, at most one handler is at work, on the row as it is.
LEMMA AloneStep ==
  ASSUME Uncut
  PROVE  LogInv /\ AloneInv /\ [Next]_vars => AloneInv'
<1> SUFFICES ASSUME LogInv, AloneInv, [Next]_vars
             PROVE  AloneInv'
  OBVIOUS
<1> DEFINE Alone(b) == /\ append[b].pc # "idle" => inflight = b
                       /\ Informs(append[b]) => append[b].log = log /\ append[b].parts = partCount
<1>1. CASE \/ Flush \/ EndRun \/ UNCHANGED vars
           \/ \E k \in Keepers : KeeperStep(k) \/ KeeperEvicted(k)
  <2>1. UNCHANGED <<log, partCount, append, inflight>>
    BY <1>1 DEF Flush, EndRun, vars, rowVars, batchVars, KeeperStep, CompactRunLog, SealRunLog,
      ReadHead, ReadPart, PutMerged, DeletePieces, RecordCompacted, RecordSealed, KeeperEvicted
  <2> QED BY <2>1 DEF AloneInv, Informs
<1>2. ASSUME NEW a \in Appends,
             \/ Send(a) \/ AppendRead(a) \/ SpillEvicted(a) \/ AppendWrite(a)
             \/ Reply(a) \/ AppendEvicted(a),
             NEW b \in Appends
      PROVE  Alone(b)'
  <2>1. inflight # a => \A c \in Appends : c # inflight => append[c].pc = "idle"
    BY DEF AloneInv
  <2>2. \A c \in Appends : c # a => append[c].pc = "idle" /\ append'[c] = append[c]
    <3>1. inflight = a \/ inflight = None
      BY <1>2 DEF AloneInv, Send, AppendRead, SpillEvicted, AppendWrite, Reply, AppendEvicted
    <3>2. \A c \in Appends : c # a => append[c].pc = "idle"
      BY <3>1, SizeAssumption DEF AloneInv
    <3> QED BY <1>2, <3>2, AppendHas
  <2>3. CASE b # a
    BY <2>2, <2>3 DEF Informs
  <2>4. CASE b = a
    <3>1. CASE Send(a)
      BY <2>4, <3>1, AppendHas DEF Informs, Send
    <3>2. CASE AppendRead(a)
      <4>1. UNCHANGED <<log, partCount, inflight>> /\ inflight = a
        BY <3>2 DEF AppendRead, rowVars, batchVars, AloneInv
      <4> QED BY <2>4, <3>2, <4>1, AppendHas DEF Informs
    <3>3. CASE SpillEvicted(a)
      <4>1. UNCHANGED <<log, partCount, inflight>> /\ inflight = a /\ Informs(append[a])
        BY <3>3 DEF SpillEvicted, rowVars, batchVars, AloneInv, Informs
      <4> QED BY <2>4, <3>3, <4>1, AppendHas DEF Informs, AloneInv
    <3>4. CASE AppendWrite(a)
      <4>1. UNCHANGED inflight /\ inflight = a
        BY <3>4 DEF AppendWrite, batchVars, AloneInv
      <4> QED BY <2>4, <3>4, <4>1, AppendHas DEF Informs
    <3>5. CASE Reply(a) \/ AppendEvicted(a)
      BY <2>4, <3>5, AppendHas DEF Informs
    <3> QED BY <1>2, <3>1, <3>2, <3>3, <3>4, <3>5
  <2> QED BY <2>3, <2>4
<1>3. ASSUME NEW a \in Appends
      PROVE  ~Cut(a)
  BY DEF Cut, Uncut
<1>4. CASE \E a \in Appends : \/ Send(a) \/ AppendRead(a) \/ SpillEvicted(a) \/ AppendWrite(a)
                              \/ Reply(a) \/ AppendEvicted(a)
  BY <1>2, <1>4 DEF AloneInv
<1> QED BY <1>1, <1>3, <1>4 DEF Next

\* The queue's head stays while there is room for what comes.
LEMMA RoomyFlush ==
  ASSUME LogInv, Flush, Len(pending) < MaxPending, pending # <<>>
  PROVE  pending' # <<>> /\ pending'[1] = pending[1]
<1>1. /\ pending \in Seq(1..Chunks) /\ produced + 1 \in 1..Chunks
      /\ Len(pending) \in Nat \ {0} /\ MaxPending \in Nat
  <2>1. pending \in Seq(1..Chunks) /\ produced \in 0..Chunks /\ produced < Chunks
    BY TypeIs DEF LogInv, Texts, Flush
  <2>2. Len(pending) \in Nat \ {0}
    BY <2>1, EmptySeq, LenProperties
  <2> QED BY <2>1, <2>2, SizeAssumption
<1> DEFINE q == Append(pending, produced + 1)
<1>2. q \in Seq(1..Chunks) /\ Len(q) = Len(pending) + 1 /\ q[1] = pending[1]
  BY <1>1, AppendProperties
<1> HIDE DEF q
<1>3. pending' = q
  BY <1>1, <1>2 DEF Flush, TrimPending, q
<1>4. q # <<>>
  BY <1>1, <1>2, IdleFits
<1> QED BY <1>2, <1>3, <1>4

\* With no queue trimmed, all handlers of an empty row bring the same chunk.
LEMMA RoomyStep == LogInv /\ TailInv /\ RoomyInv /\ [Next]_vars /\ [Roomy]_vars => RoomyInv'
<1> SUFFICES ASSUME LogInv, TailInv, RoomyInv, [Next]_vars, [Roomy]_vars
             PROVE  RoomyInv'
  OBVIOUS
<1>1. CASE \E a \in Appends : AppendWrite(a) /\ Unraced(a)
  <2>1. PICK a \in Appends : AppendWrite(a) /\ Unraced(a)
    BY <1>1
  <2>2. log = <<>> => \A b \in Appends : Informs(append[b]) => append[b].seq = append[a].seq
    <3>1. append[a].pc # "idle"
      BY <2>1 DEF AppendWrite
    <3> QED BY <3>1 DEF RoomyInv, Informs
  <2>3. Agree'
    BY <2>1, <2>2, AgreeWrites DEF RoomyInv
  <2>4. log' # <<>>
    BY <2>1, FirstWritten DEF RoomyInv
  <2> QED BY <2>3, <2>4 DEF RoomyInv
<1>2. CASE ~\E a \in Appends : AppendWrite(a) /\ Unraced(a)
  <2>1. UNCHANGED <<log, logSeq, partCount>> /\ Agree'
    <3>1. UNCHANGED <<log, logSeq, partCount>>
      BY <1>2, InformedStays
    <3>2. \A a \in Appends : Informs(append'[a]) =>
            \/ append'[a].log = log
            \/ /\ Informs(append[a]) /\ append'[a].log = append[a].log
               /\ append'[a].parts = append[a].parts /\ append'[a].seq = append[a].seq
      BY <1>2, InformedStays
    <3> QED BY <3>1, <3>2, AgreeKept DEF RoomyInv
  <2>2. ASSUME log = <<>>, NEW b \in Appends, append'[b].pc # "idle"
        PROVE  pending' # <<>> /\ append'[b].seq = pending'[1] /\ append'[b].answer # "ok"
    <3>1. append[b].pc # "idle" =>
            pending # <<>> /\ append[b].seq = pending[1] /\ append[b].answer # "ok"
      BY <2>2 DEF RoomyInv
    <3>2. CASE \/ EndRun \/ UNCHANGED vars
               \/ \E k \in Keepers : KeeperStep(k) \/ KeeperEvicted(k)
      <4>1. UNCHANGED <<append, pending>>
        BY <3>2 DEF EndRun, vars, rowVars, batchVars, KeeperStep, CompactRunLog, SealRunLog,
          ReadHead, ReadPart, PutMerged, DeletePieces, RecordCompacted, RecordSealed, KeeperEvicted
      <4> QED BY <2>2, <3>1, <4>1
    <3>3. CASE Flush
      <4>1. append' = append /\ produced' # produced
        <5>1. append' = append /\ produced' = produced + 1 /\ produced \in 0..Chunks
          BY <3>3, TypeIs DEF Flush, LogInv
        <5> QED BY <5>1
      <4>2. Len(pending) < MaxPending \/ \A a \in Appends : append[a].pc = "idle"
        <5>1. vars' # vars
          BY <4>1 DEF vars, batchVars
        <5> QED BY <3>3, <5>1 DEF Roomy
      <4> QED BY <2>2, <3>1, <3>3, <4>1, <4>2, RoomyFlush
    <3>4. ASSUME NEW a \in Appends,
                 \/ Send(a) \/ AppendRead(a) \/ SpillEvicted(a) \/ AppendWrite(a)
                 \/ Reply(a) \/ Cut(a) \/ AppendEvicted(a)
          PROVE  pending' # <<>> /\ append'[b].seq = pending'[1] /\ append'[b].answer # "ok"
      <4>1. CASE b # a
        <5>1. append'[b] = append[b]
          BY <3>4, <4>1, AppendHas
        <5>2. pending' = pending
          <6>1. CASE Reply(a)
            <7>1. append[a].answer # "ok"
              BY <2>2, <6>1 DEF RoomyInv, Reply
            <7> QED BY <6>1, <7>1 DEF Reply, Shifts
          <6>2. CASE ~Reply(a)
            BY <3>4, <6>2 DEF Send, AppendRead, SpillEvicted, AppendWrite, Cut, AppendEvicted, batchVars
          <6> QED BY <6>1, <6>2
        <5> QED BY <2>2, <3>1, <5>1, <5>2
      <4>2. CASE b = a
        <5>1. CASE Send(a)
          <6>1. pending' = pending /\ pending # <<>> /\ Head(pending) = pending[1]
            BY <5>1, TypeIs, HeadLeaves DEF Send, LogInv
          <6> QED BY <4>2, <5>1, <6>1, AppendHas
        <5>2. CASE AppendRead(a)
          <6>1. append[a].pc = "read" /\ pending' = pending
            BY <5>2 DEF AppendRead, batchVars
          <6>2. Refusal(a) # "ok"
            <7>1. logSeq = 0
              BY <2>2, TypeIs DEF RoomyInv, LogInv
            <7>2. append[a].seq \in 1..Chunks
              BY <6>1, TypeIs DEF LogInv, AppendFits
            <7> QED BY <7>1, <7>2, SizeAssumption DEF Refusal, Applied
          <6> QED BY <3>1, <4>2, <5>2, <6>1, <6>2, AppendHas
        <5>3. CASE SpillEvicted(a)
          <6>1. append[a].pc # "idle" /\ pending' = pending
            BY <5>3 DEF SpillEvicted, batchVars
          <6> QED BY <3>1, <4>2, <5>3, <6>1, AppendHas
        <5>4. CASE AppendWrite(a)
          <6>1. append[a].pc # "idle" /\ pending' = pending /\ ~Unraced(a)
            BY <1>2, <5>4 DEF AppendWrite, batchVars
          <6> QED BY <3>1, <4>2, <5>4, <6>1, AppendHas
        <5>5. CASE Reply(a) \/ AppendEvicted(a)
          BY <2>2, <4>2, <5>5, AppendHas
        <5>6. CASE Cut(a)
          BY <2>2, <3>1, <4>2, <5>6 DEF Cut
        <5> QED BY <3>4, <5>1, <5>2, <5>3, <5>4, <5>5, <5>6
      <4> QED BY <4>1, <4>2
    <3>5. CASE \E a \in Appends : \/ Send(a) \/ AppendRead(a) \/ SpillEvicted(a)
                                  \/ AppendWrite(a) \/ Reply(a) \/ Cut(a) \/ AppendEvicted(a)
      BY <3>4, <3>5
    <3> QED BY <3>2, <3>3, <3>5 DEF Next
  <2> QED BY <2>1, <2>2 DEF RoomyInv
<1> QED BY <1>1, <1>2

\* The hypothesis of the theorems below gives all that they need of the daemon.
LEMMA AlwaysAgree == Spec /\ (Uncut \/ [][Roomy]_vars) => []Agree
<1>1. Init => AloneInv /\ RoomyInv
  <2>1. ASSUME Init
        PROVE  log = <<>> /\ logSeq = 0 /\ \A a \in Appends : append[a].pc = "idle"
    BY <2>1, IdleFits DEF Init
  <2> QED BY <2>1 DEF AloneInv, RoomyInv, Agree, FirstAgrees, Informs
<1>2. ASSUME Uncut PROVE Spec => []Agree
  <2>1. AloneInv => Agree
    BY DEF AloneInv, Agree, FirstAgrees
  <2>2. LogInv /\ AloneInv /\ [Next]_vars => AloneInv'
    BY <1>2, AloneStep
  <2> QED BY <1>1, <2>1, <2>2, LogAlwaysFits, PTL DEF Spec
<1>3. RoomyInv => Agree
  BY DEF RoomyInv
<1>4. Spec /\ [][Roomy]_vars => []Agree
  BY <1>1, <1>3, RoomyStep, LogAlwaysFits, TailInOrder, PTL DEF Spec
<1>5. Uncut => (Spec => []Agree)
  BY <1>2
<1> QED BY <1>4, <1>5, PTL

-----------------------------------------------------------------------------
(* What has been spilled is in the bucket: while all who may write the row  *)
(* agree on its first chunk, and no two keepers are at work at a time.      *)

KeepersApart ==
  \A j, k \in Keepers : keeper[j].pc # "idle" /\ keeper[k].pc # "idle" => j = k

\* A late handler that has yet to spill a part that was counted meanwhile spills
\* the same; one that may write the row has spilled what the row begins with.
StoreHeld(x) ==
  /\ x.pc = "spill" /\ x.parts < partCount => spilled[x.parts + 1] = x.log[1]
  /\ x.pc = "write" /\ Evicted(x.log) > 0 /\ x.parts = partCount =>
       part[partCount + 1] = <<x.log[1]>>

\* A part is where it was put until the head has it, and then it may be in both.
BucketHolds ==
  /\ ToSet(head) \subseteq ToSet(spilled)
  /\ \A n \in 1..partCount :
       \/ n > compacted /\ part[n] = <<spilled[n]>>
       \/ (n > compacted => part[n] = <<>>) /\ spilled[n] \in ToSet(head)

Whole == ToSet(full) = ToSet(spilled) \cup ToSet(log)

\* What a keeper has read: the head and every part up to the next.
Gathers(x) ==
  /\ x.pc = "head" => x.next = compacted + 1
  /\ x.pc = "parts" =>
       /\ ToSet(head) \subseteq ToSet(x.buf) /\ ToSet(x.buf) \subseteq ToSet(spilled)
       /\ \A n \in (compacted + 1)..(x.next - 1) : spilled[n] \in ToSet(x.buf)

Compacts(x) ==
  /\ x.from = compacted + 1 /\ x.next >= x.from /\ Gathers(x)
  /\ x.pc \in {"delete", "record"} => \A n \in x.from..x.to : spilled[n] \in ToSet(head)

Seals(x) ==
  IF x.pc = "delete" THEN sealed
  ELSE /\ ~sealed /\ ~active /\ x.tail = log /\ x.to = partCount /\ x.next > compacted
       /\ Gathers(x) /\ (x.pc = "record" => Whole)

KeeperHolds(x) ==
  x.pc # "idle" => IF x.job = "compact" THEN sealed \/ Compacts(x) ELSE Seals(x)

StoreInv ==
  /\ Rising(spilled) /\ (\A j \in 1..partCount : spilled[j] < log[1])
  /\ \A a \in Appends : StoreHeld(append[a])
  /\ IF sealed THEN ~active /\ Whole ELSE BucketHolds
  /\ \A k \in Keepers : KeeperHolds(keeper[k])

\* The first log has nothing to hold.
LEMMA StoreStart == Init => StoreInv
<1> SUFFICES ASSUME Init PROVE StoreInv
  OBVIOUS
<1>1. /\ partCount = 0 /\ spilled = <<>> /\ Len(spilled) = 0 /\ head = <<>> /\ ~sealed
      /\ \A n \in 1..partCount : FALSE
  BY IdleFits DEF Init
<1>2. \A a \in Appends : append[a].pc = "idle"
  BY IdleFits DEF Init
<1>3. \A k \in Keepers : keeper[k].pc = "idle"
  BY DEF Init, IdleKeeper
<1>4. ToSet(head) \subseteq ToSet(spilled)
  BY <1>1
<1> QED BY <1>1, <1>2, <1>3, <1>4 DEF StoreInv, StoreHeld, BucketHolds, KeeperHolds, Rising

\* What can be said of the types of all that.
LEMMA StoreTypes ==
  ASSUME LogInv
  PROVE  /\ log \in Texts /\ spilled \in Texts /\ head \in Texts /\ full \in Texts
         /\ partCount \in 0..Chunks /\ compacted \in 0..partCount /\ Len(spilled) = partCount
         /\ part \in [1..Chunks -> Texts] /\ sealed \in BOOLEAN /\ active \in BOOLEAN
         /\ \A n \in 1..partCount : n \in 1..Chunks /\ spilled[n] \in 1..Chunks
                                    /\ spilled[n] \in ToSet(spilled)
         /\ \A x : x \in ToSet(spilled) => \E n \in 1..partCount : spilled[n] = x
<1>1. /\ log \in Texts /\ spilled \in Texts /\ head \in Texts /\ full \in Texts
      /\ partCount \in 0..Chunks /\ compacted \in 0..partCount /\ Len(spilled) = partCount
      /\ part \in [1..Chunks -> Texts] /\ sealed \in BOOLEAN /\ active \in BOOLEAN
  BY TypeIs DEF LogInv
<1>2. \A n \in 1..partCount : n \in 1..Chunks /\ spilled[n] \in 1..Chunks
                              /\ spilled[n] \in ToSet(spilled)
  <2>1. \A n \in 1..partCount : n \in 1..Chunks
    BY <1>1, SizeAssumption
  <2>2. \A n \in 1..partCount : spilled[n] \in 1..Chunks
    BY <1>1, ElementOfSeq DEF Texts
  <2>3. \A n \in 1..partCount : spilled[n] \in ToSet(spilled)
    BY <1>1, InSeq DEF Texts
  <2> QED BY <2>1, <2>2, <2>3
<1>3. \A x : x \in ToSet(spilled) => \E n \in 1..partCount : spilled[n] = x
  BY <1>1, InSeq DEF Texts
<1> QED BY <1>1, <1>2, <1>3

\* The parts of the invariant that no handler is part of depend on these alone.
LEMMA StoreAppend ==
  ASSUME StoreInv, NEW a \in Appends,
         UNCHANGED <<active, log, partCount, compacted, sealed, spilled, bucketVars, keeper>>,
         \A b \in Appends : b # a => append'[b] = append[b], StoreHeld(append[a])'
  PROVE  StoreInv'
<1>1. UNCHANGED <<Whole, BucketHolds>>
  BY DEF Whole, BucketHolds, bucketVars
<1>2. \A k \in Keepers : KeeperHolds(keeper[k])'
  BY DEF StoreInv, KeeperHolds, Compacts, Seals, Gathers, Whole, bucketVars
<1>3. \A b \in Appends : StoreHeld(append[b])'
  BY DEF StoreInv, StoreHeld, bucketVars, Evicted
<1> QED BY <1>1, <1>2, <1>3 DEF StoreInv, Rising

\* Steps of a handler that neither spill nor write.
LEMMA StoreReads ==
  ASSUME LogInv, StoreInv, NEW a \in Appends,
         \/ Send(a) \/ AppendRead(a) \/ (AppendWrite(a) /\ ~Unraced(a))
         \/ Reply(a) \/ Cut(a) \/ AppendEvicted(a)
  PROVE  StoreInv'
<1>1. UNCHANGED <<active, log, partCount, compacted, sealed, spilled, bucketVars, keeper>>
  BY DEF Send, AppendRead, AppendWrite, Reply, Cut, AppendEvicted, rowVars
<1>2. \A b \in Appends : b # a => append'[b] = append[b]
  BY AppendHas
<1>3. StoreHeld(append[a])'
  <2>1. CASE Send(a) \/ Reply(a) \/ AppendEvicted(a) \/ (AppendWrite(a) /\ ~Unraced(a))
    BY <2>1, AppendHas DEF StoreHeld
  <2>2. CASE AppendRead(a)
    <3>1. partCount \in Nat
      BY StoreTypes
    <3>2. \/ append'[a].pc = "reply"
          \/ /\ append'[a].log = log /\ append'[a].parts = partCount
             /\ append'[a].pc = IF Evicted(log) > 0 THEN "spill" ELSE "write"
      BY <2>2, AppendHas
    <3> QED BY <1>1, <3>1, <3>2 DEF StoreHeld, Evicted
  <2>3. CASE Cut(a)
    BY <1>1, <2>3, AppendHas DEF StoreHeld, StoreInv, bucketVars, Evicted
  <2> QED BY <2>1, <2>2, <2>3
<1> QED BY <1>1, <1>2, <1>3, StoreAppend

\* A spilled part is one chunk.
LEMMA PieceIs ==
  ASSUME NEW l \in Texts, Len(l) <= TailCap, NEW s \in 1..Chunks, Evicted(l) > 0
  PROVE  SubSeq(Append(l, s), 1, Evicted(l)) = <<l[1]>> /\ l # <<>> /\ l[1] \in 1..Chunks
<1> DEFINE e == SubSeq(Append(l, s), 1, Evicted(l))
<1>1. l # <<>> /\ Len(e) = 1 /\ e[1] = l[1]
  BY SpilledIs
<1>2. l[1] \in 1..Chunks
  BY <1>1, FirstIs
<1>3. e \in Seq(1..Chunks)
  BY TailTakes DEF Texts
<1>4. <<l[1]>> \in Seq(1..Chunks) /\ Len(<<l[1]>>) = 1 /\ <<l[1]>>[1] = l[1]
  BY <1>2
<1>5. e = <<l[1]>>
  <2> DEFINE w == <<l[1]>>
  <2>1. w \in Seq(1..Chunks) /\ Len(w) = 1 /\ w[1] = l[1]
    BY <1>4
  <2> HIDE DEF e, w
  <2>2. \A i \in 1..1 : e[i] = w[i]
    BY <1>1, <2>1
  <2>3. e = w
    BY <1>1, <1>3, <2>1, <2>2, SeqEqual
  <2> QED BY <2>3 DEF w
<1> QED BY <1>1, <1>2, <1>5

\* A part is spilled, perhaps again.
LEMMA StoreSpills ==
  ASSUME LogInv, TailInv, Agree, StoreInv, NEW a \in Appends, SpillEvicted(a)
  PROVE  StoreInv'
<1> DEFINE c == append[a]
           at == c.parts + 1
<1>1. UNCHANGED <<active, log, partCount, compacted, sealed, spilled, head, full, keeper>>
  BY DEF SpillEvicted, rowVars
<1>2. /\ append'[a].pc = "write" /\ append'[a].log = c.log /\ append'[a].parts = c.parts
      /\ \A b \in Appends : b # a => append'[b] = append[b]
  BY AppendHas
<1>3. /\ c.log \in Texts /\ Len(c.log) <= TailCap /\ c.seq \in 1..Chunks
      /\ c.parts \in 0..(Chunks - 1) /\ Informs(c) /\ Evicted(c.log) > 0 /\ c.pc = "spill"
      /\ c.parts <= partCount
  <2>1. Informs(c) /\ c.pc = "spill"
    BY DEF SpillEvicted, Informs
  <2> QED BY <2>1, InformsIs DEF TailInv, TailHeld
<1>4. at \in 1..Chunks /\ part' = [part EXCEPT ![at] = <<c.log[1]>>] /\ c.log # <<>>
  <2>1. SubSeq(Append(c.log, c.seq), 1, Evicted(c.log)) = <<c.log[1]>> /\ c.log # <<>>
    BY <1>3, PieceIs
  <2>2. part' = [part EXCEPT ![at] = SubSeq(Append(c.log, c.seq), 1, Evicted(c.log))]
    BY DEF SpillEvicted, Combined
  <2>3. at \in 1..Chunks
    BY <1>3, SizeAssumption
  <2> HIDE DEF c, at
  <2> QED BY <2>1, <2>2, <2>3
<1>5. part'[at] = <<c.log[1]>> /\ \A n \in 1..Chunks : n # at => part'[n] = part[n]
  <2> HIDE DEF c
  <2> QED BY <1>4, StoreTypes
<1>6. /\ c.parts < partCount => spilled[at] = c.log[1]
      /\ c.parts = partCount => c.log[1] = log[1]
  BY <1>3, <1>4 DEF StoreInv, StoreHeld, Agree, FirstAgrees
<1> HIDE DEF c
<1>7. ASSUME NEW b \in Appends
      PROVE  StoreHeld(append[b])'
  <2>1. StoreHeld(append[b]) /\ FirstAgrees(append[b])
    BY DEF StoreInv, Agree
  <2>2. CASE b = a
    BY <1>1, <1>2, <1>5, <2>2 DEF StoreHeld, Evicted
  <2>3. CASE b # a
    <3>1. append'[b] = append[b]
      BY <1>2, <2>3
    <3>2. ASSUME append[b].pc = "write", Evicted(append[b].log) > 0, append[b].parts = partCount
          PROVE  part'[partCount + 1] = <<append[b].log[1]>>
      <4>1. Informs(append[b]) /\ append[b].log # <<>> /\ partCount + 1 \in 1..Chunks
        <5>1. Informs(append[b])
          BY <3>2 DEF Informs
        <5>2. append[b].parts \in 0..(Chunks - 1) /\ append[b].log # <<>>
          BY <3>2, <5>1, InformsIs, PieceIs
        <5> QED BY <3>2, <5>1, <5>2, SizeAssumption
      <4>2. append[b].log[1] = log[1] /\ part[partCount + 1] = <<append[b].log[1]>>
        BY <2>1, <3>2, <4>1 DEF FirstAgrees, StoreHeld
      <4>3. CASE partCount + 1 = at
        <5>1. c.parts = partCount
          BY <1>3, <4>3, StoreTypes
        <5> QED BY <1>5, <1>6, <4>2, <4>3, <5>1
      <4>4. CASE partCount + 1 # at
        BY <1>5, <4>1, <4>2, <4>4
      <4> QED BY <4>3, <4>4
    <3> QED BY <1>1, <2>1, <3>1, <3>2 DEF StoreHeld, Evicted
  <2> QED BY <2>2, <2>3
<1>8. ~sealed => BucketHolds'
  <2> SUFFICES ASSUME ~sealed, NEW n \in 1..partCount
               PROVE  \/ n > compacted /\ part'[n] = <<spilled[n]>>
                      \/ (n > compacted => part'[n] = <<>>) /\ spilled[n] \in ToSet(head)
    BY <1>1 DEF StoreInv, BucketHolds
  <2>1. \/ n > compacted /\ part[n] = <<spilled[n]>>
        \/ (n > compacted => part[n] = <<>>) /\ spilled[n] \in ToSet(head)
    BY DEF StoreInv, BucketHolds
  <2>2. n \in 1..Chunks /\ compacted \in Nat
    BY StoreTypes
  <2>3. CASE n # at
    BY <1>5, <2>1, <2>2, <2>3
  <2>4. CASE n = at
    <3>1. c.parts < partCount
      BY <1>3, <2>4, StoreTypes
    <3> QED BY <1>5, <1>6, <2>1, <2>2, <2>4, <3>1
  <2> QED BY <2>3, <2>4
<1>9. \A k \in Keepers : KeeperHolds(keeper[k])'
  BY <1>1 DEF StoreInv, KeeperHolds, Compacts, Seals, Gathers, Whole
<1> QED BY <1>1, <1>7, <1>8, <1>9 DEF StoreInv, Whole, Rising

\* What the row has dropped when it is written.
LEMMA SpilledGrows ==
  ASSUME LogInv, TailInv, Agree, NEW a \in Appends, AppendWrite(a), Unraced(a)
  PROVE  LET cut == Evicted(append[a].log)
         IN  /\ cut \in {0, 1} /\ partCount' = partCount + cut /\ spilled' \in Texts
             /\ cut = 0 => spilled' = spilled
             /\ cut = 1 => /\ spilled'[partCount + 1] = log[1] /\ log[1] \in 1..Chunks
                           /\ ToSet(spilled') = ToSet(spilled) \cup {log[1]}
             /\ \A n \in 1..partCount : spilled'[n] = spilled[n]
<1> DEFINE c == append[a]
           cut == Evicted(c.log)
           gone == SubSeq(Append(c.log, c.seq), 1, cut)
<1>1. /\ cut \in {0, 1} /\ c.log \in Texts /\ Len(c.log) <= TailCap /\ c.seq \in 1..Chunks
      /\ partCount' = partCount + cut /\ spilled' = spilled \o gone
  BY WriteTakes
<1>2. spilled \in Seq(1..Chunks) /\ Len(spilled) = partCount /\ partCount \in Nat
  BY StoreTypes DEF Texts
<1>3. gone \in Seq(1..Chunks) /\ Len(gone) = cut
  BY <1>1, TailTakes DEF Texts
<1>4. CASE cut = 0
  <2>1. gone = <<>>
    BY <1>3, <1>4, EmptySeq
  <2> HIDE DEF gone, cut
  <2>2. spilled' = spilled
    BY <1>1, <1>2, <2>1, ConcatEmptySeq
  <2> QED BY <1>1, <1>2, <1>4, <2>2 DEF cut, Texts
<1>5. CASE cut = 1
  <2>1. gone = <<log[1]>> /\ log[1] \in 1..Chunks
    <3>1. gone = <<c.log[1]>> /\ c.log[1] \in 1..Chunks
      BY <1>1, <1>5, PieceIs
    <3>2. c.log[1] = log[1]
      BY <1>5, FirstWritten
    <3> QED BY <3>1, <3>2
  <2> HIDE DEF gone, cut
  <2>2. /\ spilled \o gone \in Seq(1..Chunks)
        /\ ToSet(spilled \o gone) = ToSet(spilled) \cup ToSet(gone)
    BY <1>2, <1>3, InBoth
  <2>3. \A j \in 1..(Len(spilled) + Len(gone)) :
          (spilled \o gone)[j] = IF j <= Len(spilled) THEN spilled[j] ELSE gone[j - Len(spilled)]
    BY <1>2, <1>3, ConcatProperties
  <2>4. gone[1] = log[1]
    BY <2>1
  <2>5. (spilled \o gone)[partCount + 1] = log[1]
    <3>1. /\ partCount + 1 \in 1..(Len(spilled) + Len(gone)) /\ ~(partCount + 1 <= Len(spilled))
          /\ (partCount + 1) - Len(spilled) = 1
      BY <1>2, <1>3, <1>5
    <3> QED BY <2>3, <2>4, <3>1
  <2>6. \A n \in 1..partCount : (spilled \o gone)[n] = spilled[n]
    BY <1>2, <1>3, <1>5, <2>3
  <2>7. ToSet(gone) = {log[1]}
    BY <2>1, InShort
  <2> DEFINE t == spilled \o gone
  <2>8. /\ t \in Texts /\ ToSet(t) = ToSet(spilled) \cup {log[1]} /\ t[partCount + 1] = log[1]
        /\ \A n \in 1..partCount : t[n] = spilled[n]
    BY <2>2, <2>5, <2>6, <2>7 DEF Texts
  <2>9. spilled' = t /\ partCount' = partCount + 1
    BY <1>1, <1>5
  <2> HIDE DEF t
  <2> QED BY <1>5, <2>1, <2>8, <2>9 DEF cut
<1> QED BY <1>1, <1>4, <1>5

\* The row counts a part, and what it has dropped is one chunk more.
LEMMA StoreWrites ==
  ASSUME LogInv, TailInv, Agree, StoreInv, NEW a \in Appends, AppendWrite(a), Unraced(a)
  PROVE  StoreInv'
<1> DEFINE c == append[a]
           cut == Evicted(c.log)
<1>1. /\ active /\ partCount = c.parts /\ c.pc = "write"
      /\ UNCHANGED <<active, compacted, sealed, head, part, full, keeper>>
  BY WriteTakes DEF bucketVars
<1>2. /\ cut \in {0, 1} /\ partCount' = partCount + cut
      /\ cut = 0 => spilled' = spilled
      /\ cut = 1 => /\ spilled'[partCount + 1] = log[1] /\ log[1] \in 1..Chunks
                    /\ ToSet(spilled') = ToSet(spilled) \cup {log[1]}
      /\ \A n \in 1..partCount : spilled'[n] = spilled[n]
  BY SpilledGrows
<1>3. /\ log' # <<>>
      /\ log # <<>> /\ cut = 0 => log'[1] = log[1]
      /\ cut = 1 => log[1] < log'[1] /\ c.log[1] = log[1]
  BY FirstWritten
<1>4. /\ append'[a].pc \in {"read", "reply"}
      /\ \A b \in Appends : b # a => append'[b] = append[b]
  BY AppendHas
<1>5. /\ partCount \in 0..Chunks /\ compacted \in 0..partCount /\ log' \in Texts
      /\ \A n \in 1..partCount : spilled[n] \in 1..Chunks
      /\ Len(spilled) = partCount /\ Len(spilled') = partCount + cut
  <2>1. LogInv'
    BY AppendWriteStep
  <2> QED BY <1>2, <2>1, StoreTypes DEF LogInv, TypeOK
<1>6. ~sealed
  BY <1>1 DEF StoreInv
<1>7. cut = 1 => part[partCount + 1] = <<log[1]>>
  BY <1>1, <1>2, <1>3 DEF StoreInv, StoreHeld
<1>8. partCount > 0 => log # <<>>
  BY DEF TailInv
<1> HIDE DEF cut
<1>9. Rising(spilled') /\ \A j \in 1..partCount' : spilled'[j] < log'[1]
  <2>1. \A j \in 1..partCount : spilled[j] < log[1]
    BY DEF StoreInv
  <2>2. \A m, n \in 1..partCount : m < n => spilled[m] < spilled[n]
    BY <1>5 DEF StoreInv, Rising
  <2>3. CASE cut = 0
    <3>1. \A j \in 1..partCount : spilled'[j] < log'[1]
      BY <1>2, <1>3, <1>5, <1>8, <2>1, <2>3
    <3> QED BY <1>2, <1>5, <2>3, <3>1 DEF StoreInv
  <2>4. CASE cut = 1
    <3>1. log'[1] \in 1..Chunks
      BY <1>3, <1>5, FirstIs
    <3>2. \A j \in 1..(partCount + 1) : j \in 1..partCount \/ j = partCount + 1
      BY <1>5
    <3>3. \A j \in 1..(partCount + 1) : spilled'[j] < log'[1]
      BY <1>2, <1>3, <1>5, <2>1, <2>4, <3>1, <3>2
    <3>4. \A m, n \in 1..(partCount + 1) : m < n => spilled'[m] < spilled'[n]
      <4> SUFFICES ASSUME NEW m \in 1..(partCount + 1), NEW n \in 1..(partCount + 1), m < n
                   PROVE  spilled'[m] < spilled'[n]
        OBVIOUS
      <4>1. m \in 1..partCount
        BY <1>5
      <4>2. CASE n \in 1..partCount
        BY <1>2, <2>2, <4>1, <4>2
      <4>3. CASE n = partCount + 1
        BY <1>2, <2>1, <2>4, <4>1, <4>3
      <4> QED BY <3>2, <4>2, <4>3
    <3> QED BY <1>2, <1>5, <2>4, <3>3, <3>4 DEF Rising
  <2> QED BY <1>2, <2>3, <2>4
<1>10. ASSUME NEW b \in Appends
       PROVE  StoreHeld(append[b])'
  <2>1. CASE b = a
    BY <1>4, <2>1 DEF StoreHeld
  <2>2. CASE b # a
    <3>1. append'[b] = append[b] /\ StoreHeld(append[b]) /\ FirstAgrees(append[b])
      BY <1>4, <2>2 DEF StoreInv, Agree
    <3>2. Informs(append[b]) => append[b].parts \in 0..(Chunks - 1) /\ append[b].parts <= partCount
      BY InformsIs DEF TailInv, TailHeld
    <3>3. ASSUME append[b].pc = "spill", append[b].parts < partCount'
          PROVE  spilled'[append[b].parts + 1] = append[b].log[1]
      <4>0. Informs(append[b])
        BY <3>3 DEF Informs
      <4>1. CASE append[b].parts < partCount
        <5>1. append[b].parts + 1 \in 1..partCount
          BY <1>5, <3>2, <4>0, <4>1
        <5> QED BY <1>2, <3>1, <3>3, <4>1, <5>1 DEF StoreHeld
      <4>2. CASE ~(append[b].parts < partCount)
        <5>1. append[b].parts = partCount /\ cut = 1
          BY <1>2, <1>5, <3>2, <3>3, <4>0, <4>2
        <5>2. append[b].log # <<>>
          <6>1. Evicted(append[b].log) > 0
            BY <3>3, <4>0 DEF TailInv, TailHeld
          <6> QED BY <4>0, <6>1, InformsIs, PieceIs
        <5>3. append[b].log[1] = log[1]
          BY <3>1, <4>0, <5>1, <5>2 DEF FirstAgrees
        <5> QED BY <1>2, <5>1, <5>3
      <4> QED BY <4>1, <4>2
    <3>4. ASSUME append[b].pc = "write", Evicted(append[b].log) > 0, append[b].parts = partCount'
          PROVE  part[partCount' + 1] = <<append[b].log[1]>>
      <4>1. Informs(append[b])
        BY <3>4 DEF Informs
      <4>2. partCount' = partCount
        BY <1>2, <1>5, <3>2, <3>4, <4>1
      <4> QED BY <3>1, <3>4, <4>2 DEF StoreHeld
    <3> QED BY <1>1, <3>1, <3>3, <3>4 DEF StoreHeld, Evicted
  <2> QED BY <2>1, <2>2
<1>11. ToSet(spilled) \subseteq ToSet(spilled')
  BY <1>2
<1>12. BucketHolds'
  <2>1. ASSUME NEW n \in 1..partCount'
        PROVE  \/ n > compacted /\ part[n] = <<spilled'[n]>>
               \/ (n > compacted => part[n] = <<>>) /\ spilled'[n] \in ToSet(head)
    <3>1. CASE n \in 1..partCount
      BY <1>2, <1>6, <3>1 DEF StoreInv, BucketHolds
    <3>2. CASE n \notin 1..partCount
      <4>1. n = partCount + 1 /\ cut = 1 /\ n > compacted
        BY <1>2, <1>5, <3>2
      <4> QED BY <1>2, <1>7, <4>1
    <3> QED BY <3>1, <3>2
  <2> QED BY <1>1, <1>6, <1>11, <2>1 DEF StoreInv, BucketHolds
<1>13. ASSUME NEW k \in Keepers, keeper[k].pc # "idle"
       PROVE  keeper[k].job = "compact" /\ Compacts(keeper[k])'
  <2>1. KeeperHolds(keeper[k])
    BY DEF StoreInv
  <2>2. keeper[k].job = "compact" /\ Compacts(keeper[k])
    BY <1>1, <1>6, <1>13, <2>1 DEF KeeperHolds, Seals
  <2>3. /\ keeper[k].to \in 0..Chunks /\ keeper[k].from \in 1..(Chunks + 1)
        /\ keeper[k].next \in 1..(Chunks + 1)
        /\ keeper[k].to <= partCount /\ keeper[k].next <= keeper[k].to + 1
    BY <1>13, KeeperFinds DEF KeeperRows, KeeperFits
  <2>4. \A n \in (compacted + 1)..(keeper[k].next - 1) : spilled'[n] = spilled[n]
    <3>1. \A n \in (compacted + 1)..(keeper[k].next - 1) : n \in 1..partCount
      BY <1>5, <2>3, SMTT(30)
    <3> QED BY <1>2, <3>1
  <2>5. \A n \in keeper[k].from..keeper[k].to : spilled'[n] = spilled[n]
    <3>1. \A n \in keeper[k].from..keeper[k].to : n \in 1..partCount
      BY <1>5, <2>3, SMTT(30)
    <3> QED BY <1>2, <3>1
  <2> QED BY <1>1, <1>11, <2>2, <2>4, <2>5 DEF Compacts, Gathers
<1>14. \A k \in Keepers : KeeperHolds(keeper[k])'
  BY <1>1, <1>13 DEF KeeperHolds
<1> QED BY <1>1, <1>6, <1>9, <1>10, <1>12, <1>14 DEF StoreInv

\* A keeper at work is the only one.
LEMMA LoneKeeper ==
  ASSUME LogInv, KeepersApart, KeepersApart', NEW k \in Keepers, KeeperStep(k) \/ KeeperEvicted(k),
         KeeperHolds(keeper[k])'
  PROVE  \A j \in Keepers : KeeperHolds(keeper[j])'
<1>1. \A j \in Keepers : j # k => keeper'[j] = keeper[j]
  BY KeeperFinds DEF KeeperStep, CompactRunLog, SealRunLog, ReadHead, ReadPart, PutMerged,
    DeletePieces, RecordCompacted, RecordSealed, KeeperEvicted
<1>2. keeper[k].pc # "idle" \/ keeper'[k].pc # "idle"
  <2>1. CompactRunLog(k) \/ SealRunLog(k) => keeper'[k].pc = "head"
    BY KeeperHas DEF Holds
  <2> QED BY <2>1 DEF KeeperStep, ReadHead, ReadPart, PutMerged, DeletePieces, RecordCompacted,
    RecordSealed, KeeperEvicted
<1>3. \A j \in Keepers : j # k => keeper'[j].pc = "idle"
  BY <1>1, <1>2 DEF KeepersApart
<1>4. \A j \in Keepers : j # k => KeeperHolds(keeper[j])'
  BY <1>3 DEF KeeperHolds
<1> QED BY <1>4

\* A step of a keeper leaves the handlers as they are.
LEMMA StoreKeeper ==
  ASSUME LogInv, StoreInv, KeepersApart, KeepersApart', NEW k \in Keepers,
         KeeperStep(k) \/ KeeperEvicted(k),
         UNCHANGED <<active, log, partCount, spilled, append>>,
         partCount + 1 \in 1..Chunks => part'[partCount + 1] = part[partCount + 1],
         (IF sealed THEN Whole ELSE BucketHolds)', sealed' => ~active, KeeperHolds(keeper[k])'
  PROVE  StoreInv'
<1>1. ASSUME NEW a \in Appends
      PROVE  StoreHeld(append[a])'
  <2>1. StoreHeld(append[a])
    BY DEF StoreInv
  <2>2. append[a].pc = "write" /\ append[a].parts = partCount => partCount + 1 \in 1..Chunks
    <3>1. append[a].pc = "write" => append[a].parts \in 0..(Chunks - 1)
      BY InformsIs DEF Informs
    <3> QED BY <3>1, SizeAssumption
  <2> QED BY <2>1, <2>2 DEF StoreHeld, Evicted
<1>2. \A j \in Keepers : KeeperHolds(keeper[j])'
  BY LoneKeeper
<1> QED BY <1>1, <1>2 DEF StoreInv, Rising

\* Compaction and sealing begin, and the head is read.
LEMMA StoreBegins ==
  ASSUME LogInv, StoreInv, KeepersApart, KeepersApart', NEW k \in Keepers,
         CompactRunLog(k) \/ SealRunLog(k) \/ ReadHead(k)
  PROVE  StoreInv'
<1>1. /\ UNCHANGED <<active, log, partCount, compacted, sealed, spilled, append, head, part, full>>
      /\ KeeperStep(k)
  BY DEF CompactRunLog, SealRunLog, ReadHead, KeeperStep, rowVars, bucketVars
<1>2. compacted \in 0..partCount /\ partCount \in 0..Chunks
  BY StoreTypes
<1>3. KeeperHolds(keeper[k])'
  <2>1. CASE CompactRunLog(k)
    <3>1. /\ keeper'[k].pc = "head" /\ keeper'[k].job = "compact"
          /\ keeper'[k].from = compacted + 1 /\ keeper'[k].next = compacted + 1
      BY <2>1, KeeperHas DEF Holds
    <3> QED BY <1>1, <1>2, <3>1 DEF KeeperHolds, Compacts, Gathers
  <2>2. CASE SealRunLog(k)
    <3>1. /\ keeper'[k].pc = "head" /\ keeper'[k].job = "seal" /\ keeper'[k].tail = log
          /\ keeper'[k].to = partCount /\ keeper'[k].next = compacted + 1
      BY <2>2, KeeperHas DEF Holds
    <3>2. ~sealed /\ ~active
      BY <2>2 DEF SealRunLog, Sealable
    <3> QED BY <1>1, <1>2, <3>1, <3>2 DEF KeeperHolds, Seals, Gathers
  <2>3. CASE ReadHead(k)
    <3>1. Holds(keeper'[k], "parts", keeper[k].job, keeper[k].from, keeper[k].to,
                keeper[k].next, head, keeper[k].tail)
      BY <2>3, KeeperHas
    <3>2. KeeperHolds(keeper[k]) /\ keeper[k].pc = "head"
      BY <2>3 DEF StoreInv, ReadHead
    <3>3. keeper[k].next \in Nat /\ keeper[k].next <= keeper[k].to + 1 /\ keeper[k].to <= partCount
      BY <3>2, KeeperFinds, SizeAssumption DEF KeeperRows, KeeperFits
    <3>4. sealed \/ Gathers(keeper[k])'
      <4> SUFFICES ASSUME ~sealed PROVE Gathers(keeper[k])'
        OBVIOUS
      <4>1. keeper[k].next = compacted + 1
        BY <3>2 DEF KeeperHolds, Compacts, Seals, Gathers
      <4>2. ToSet(head) \subseteq ToSet(spilled)
        BY DEF StoreInv, BucketHolds
      <4>3. \A n \in (compacted + 1)..(keeper[k].next - 1) : FALSE
        BY <1>2, <4>1
      <4> QED BY <1>1, <3>1, <4>2, <4>3 DEF Gathers, Holds
    <3>5. CASE keeper[k].job = "compact"
      BY <1>1, <3>1, <3>2, <3>4, <3>5 DEF KeeperHolds, Compacts, Holds
    <3>6. CASE keeper[k].job # "compact"
      BY <1>1, <3>1, <3>2, <3>4, <3>6 DEF KeeperHolds, Seals, Holds
    <3> QED BY <3>5, <3>6
  <2> QED BY <2>1, <2>2, <2>3
<1>4. (IF sealed THEN Whole ELSE BucketHolds)' /\ (sealed' => ~active)
  BY <1>1 DEF StoreInv, Whole, BucketHolds
<1> QED BY <1>1, <1>3, <1>4, StoreKeeper

\* A part is read after what was read before it.
LEMMA StoreGathers ==
  ASSUME LogInv, StoreInv, KeepersApart, KeepersApart', NEW k \in Keepers, ReadPart(k)
  PROVE  StoreInv'
<1> DEFINE c == keeper[k]
<1>1. /\ UNCHANGED <<active, log, partCount, compacted, sealed, spilled, append, head, part, full>>
      /\ KeeperStep(k)
  BY DEF ReadPart, KeeperStep, rowVars, bucketVars
<1>2. /\ Holds(keeper'[k], "parts", c.job, c.from, c.to, c.next + 1, c.buf \o part[c.next], c.tail)
      /\ c.pc = "parts" /\ c.next <= c.to
  BY KeeperHas DEF ReadPart
<1>3. /\ c.next \in 1..(Chunks + 1) /\ c.to \in 0..Chunks /\ c.to <= partCount
      /\ c.buf \in Seq(1..Chunks) /\ partCount \in 0..Chunks /\ compacted \in 0..partCount
  BY <1>2, KeeperFinds DEF KeeperRows, KeeperFits, Texts
<1>4. c.next \in 1..partCount /\ c.next \in 1..Chunks
  BY <1>2, <1>3, SizeAssumption
<1> DEFINE p == part[c.next]
           b == c.buf \o p
<1>5. p \in Seq(1..Chunks)
  BY <1>4, StoreTypes DEF Texts
<1> HIDE DEF p
<1>6. ToSet(b) = ToSet(c.buf) \cup ToSet(p)
  BY <1>3, <1>5, InBoth
<1>7. KeeperHolds(c)
  BY DEF StoreInv
<1>8. ASSUME ~sealed, Gathers(c), c.next > compacted
      PROVE  Gathers(keeper[k])'
  <2>1. \/ p = <<spilled[c.next]>>
        \/ p = <<>> /\ spilled[c.next] \in ToSet(head)
    BY <1>4, <1>8 DEF StoreInv, BucketHolds, p
  <2>2. spilled[c.next] \in ToSet(spilled)
    BY <1>4, StoreTypes
  <2>3. ToSet(p) \subseteq ToSet(spilled) /\ spilled[c.next] \in ToSet(head) \cup ToSet(p)
    BY <2>1, <2>2, InShort
  <2>4. /\ ToSet(head) \subseteq ToSet(c.buf) /\ ToSet(c.buf) \subseteq ToSet(spilled)
        /\ \A n \in (compacted + 1)..(c.next - 1) : spilled[n] \in ToSet(c.buf)
    BY <1>2, <1>8 DEF Gathers
  <2>5. \A n \in (compacted + 1)..((c.next + 1) - 1) :
          n = c.next \/ n \in (compacted + 1)..(c.next - 1)
    BY <1>3, <1>4
  <2> HIDE DEF c
  <2>6. /\ ToSet(head) \subseteq ToSet(b) /\ ToSet(b) \subseteq ToSet(spilled)
        /\ \A n \in (compacted + 1)..((c.next + 1) - 1) : spilled[n] \in ToSet(b)
    BY <1>6, <2>3, <2>4, <2>5
  <2>7. /\ keeper'[k].pc = "parts" /\ keeper'[k].next = c.next + 1 /\ keeper'[k].buf = b
    BY <1>2 DEF Holds, p
  <2> HIDE DEF b
  <2> QED BY <1>1, <2>6, <2>7 DEF Gathers
<1>9. KeeperHolds(keeper[k])'
  <2>1. CASE c.job = "compact"
    <3>1. ASSUME ~sealed PROVE Compacts(keeper[k])'
      <4>1. Compacts(c)
        BY <1>2, <1>7, <2>1, <3>1 DEF KeeperHolds
      <4>2. Gathers(keeper[k])'
        BY <1>3, <1>8, <3>1, <4>1 DEF Compacts
      <4>3. c.next + 1 >= c.from
        BY <1>3, <4>1 DEF Compacts
      <4> QED BY <1>1, <1>2, <4>1, <4>2, <4>3 DEF Compacts, Holds
    <3> QED BY <1>1, <1>2, <2>1, <3>1 DEF KeeperHolds, Holds
  <2>2. CASE c.job # "compact"
    <3>1. Seals(c)
      BY <1>2, <1>7, <2>2 DEF KeeperHolds
    <3>2. ~sealed /\ Gathers(c) /\ c.next > compacted
      BY <1>2, <3>1 DEF Seals
    <3>3. Gathers(keeper[k])' /\ c.next + 1 > compacted
      BY <1>3, <1>8, <3>2
    <3> QED BY <1>1, <1>2, <2>2, <3>1, <3>3 DEF KeeperHolds, Seals, Holds
  <2> QED BY <2>1, <2>2
<1>10. (IF sealed THEN Whole ELSE BucketHolds)' /\ (sealed' => ~active)
  BY <1>1 DEF StoreInv, Whole, BucketHolds
<1> QED BY <1>1, <1>9, <1>10, StoreKeeper

\* The whole is put: a head with all the parts it merges, or the sealed object.
LEMMA StorePuts ==
  ASSUME LogInv, StoreInv, KeepersApart, KeepersApart', NEW k \in Keepers, PutMerged(k)
  PROVE  StoreInv'
<1> DEFINE c == keeper[k]
<1>1. /\ UNCHANGED <<active, log, partCount, compacted, sealed, spilled, append, part>>
      /\ KeeperStep(k)
  BY DEF PutMerged, KeeperStep, rowVars
<1>2. /\ Holds(keeper'[k], IF c.job = "compact" THEN "delete" ELSE "record", c.job, c.from, c.to,
               c.next, c.buf, c.tail)
      /\ c.pc = "parts" /\ c.next > c.to
  BY KeeperHas DEF PutMerged
<1>3. /\ c.next \in 1..(Chunks + 1) /\ c.to \in 0..Chunks /\ c.to <= partCount
      /\ c.next <= c.to + 1 /\ c.buf \in Seq(1..Chunks)
      /\ partCount \in 0..Chunks /\ compacted \in 0..partCount
  BY <1>2, KeeperFinds DEF KeeperRows, KeeperFits, Texts
<1>4. c.next - 1 = c.to
  <2> HIDE DEF c
  <2>1. c.next \in Nat /\ c.to \in Nat
    BY <1>3
  <2>2. c.next > c.to /\ c.next <= c.to + 1
    BY <1>2, <1>3
  <2> QED BY <2>1, <2>2
<1>5. KeeperHolds(c)
  BY DEF StoreInv
<1>6. CASE c.job = "compact"
  <2>1. head' = c.buf /\ full' = full
    BY <1>6 DEF PutMerged
  <2>2. CASE sealed
    <3>1. KeeperHolds(keeper[k])'
      BY <1>1, <1>2, <1>6, <2>2 DEF KeeperHolds, Holds
    <3> QED BY <1>1, <2>1, <2>2, <3>1, StoreKeeper DEF StoreInv, Whole
  <2>3. CASE ~sealed
    <3>1. Compacts(c)
      BY <1>2, <1>5, <1>6, <2>3 DEF KeeperHolds
    <3>2. /\ ToSet(head) \subseteq ToSet(c.buf) /\ ToSet(c.buf) \subseteq ToSet(spilled)
          /\ \A n \in (compacted + 1)..c.to : spilled[n] \in ToSet(c.buf)
          /\ c.from = compacted + 1 /\ c.next >= c.from
      BY <1>2, <1>4, <3>1 DEF Compacts, Gathers
    <3> HIDE DEF c
    <3>3. BucketHolds'
      BY <1>1, <2>1, <2>3, <3>2 DEF StoreInv, BucketHolds
    <3>4. Compacts(keeper[k])'
      BY <1>1, <1>2, <1>6, <2>1, <3>2 DEF Compacts, Gathers, Holds
    <3>5. KeeperHolds(keeper[k])'
      BY <1>2, <1>6, <3>4 DEF KeeperHolds, Holds
    <3> QED BY <1>1, <2>3, <3>3, <3>5, StoreKeeper
  <2> QED BY <2>2, <2>3
<1>7. CASE c.job # "compact"
  <2>1. full' = c.buf \o c.tail /\ head' = head
    BY <1>7 DEF PutMerged
  <2>2. Seals(c)
    BY <1>2, <1>5, <1>7 DEF KeeperHolds
  <2>3. /\ ~sealed /\ ~active /\ c.tail = log /\ c.to = partCount /\ c.next > compacted
        /\ ToSet(head) \subseteq ToSet(c.buf) /\ ToSet(c.buf) \subseteq ToSet(spilled)
        /\ \A n \in (compacted + 1)..partCount : spilled[n] \in ToSet(c.buf)
    BY <1>2, <1>4, <2>2 DEF Seals, Gathers
  <2>4. ToSet(c.buf) = ToSet(spilled)
    <3>1. \A n \in 1..partCount : spilled[n] \in ToSet(c.buf)
      <4> SUFFICES ASSUME NEW n \in 1..partCount PROVE spilled[n] \in ToSet(c.buf)
        OBVIOUS
      <4>1. CASE n > compacted
        <5>1. n \in (compacted + 1)..partCount
          BY <1>3, <4>1
        <5> QED BY <2>3, <5>1
      <4>2. CASE ~(n > compacted)
        BY <2>3, <4>2 DEF StoreInv, BucketHolds
      <4> QED BY <4>1, <4>2
    <3>2. ASSUME NEW x \in ToSet(spilled) PROVE x \in ToSet(c.buf)
      <4>1. PICK n \in 1..partCount : spilled[n] = x
        BY <3>2, StoreTypes
      <4> QED BY <3>1, <4>1
    <3> QED BY <2>3, <3>2
  <2>5. ToSet(c.buf \o c.tail) = ToSet(c.buf) \cup ToSet(log)
    <3>1. c.tail \in Seq(1..Chunks) /\ c.tail = log
      BY <2>3, StoreTypes DEF Texts
    <3> QED BY <1>3, <3>1, InBoth
  <2>6. Whole'
    <3> HIDE DEF c
    <3> QED BY <1>1, <2>1, <2>4, <2>5 DEF Whole
  <2>7. KeeperHolds(keeper[k])'
    BY <1>1, <1>2, <1>7, <2>3, <2>6 DEF KeeperHolds, Seals, Gathers, Holds
  <2>8. BucketHolds'
    BY <1>1, <2>1, <2>3 DEF StoreInv, BucketHolds
  <2> QED BY <1>1, <2>3, <2>7, <2>8, StoreKeeper
<1> QED BY <1>6, <1>7

\* The pieces go when the head, or the sealed object, has them.
LEMMA StoreDeletes ==
  ASSUME LogInv, StoreInv, KeepersApart, KeepersApart', NEW k \in Keepers, DeletePieces(k)
  PROVE  StoreInv'
<1> DEFINE c == keeper[k]
<1>1. /\ UNCHANGED <<active, log, partCount, compacted, sealed, spilled, append, full>>
      /\ KeeperStep(k) /\ c.pc = "delete"
      /\ part' = [n \in 1..Chunks |-> IF n \in Merged(k) THEN <<>> ELSE part[n]]
  BY DEF DeletePieces, KeeperStep, rowVars
<1>2. /\ c.from \in 1..(Chunks + 1) /\ c.to \in 0..Chunks
      /\ c.to <= partCount /\ partCount \in 0..Chunks /\ compacted \in 0..partCount
  BY <1>1, KeeperFinds DEF KeeperRows, KeeperFits
<1>3. partCount + 1 \in 1..Chunks => part'[partCount + 1] = part[partCount + 1]
  <2>1. partCount + 1 \notin Merged(k)
    BY <1>2, SizeAssumption DEF Merged
  <2> QED BY <1>1, <2>1
<1>4. KeeperHolds(c)
  BY DEF StoreInv
<1>5. CASE c.job = "compact"
  <2>1. /\ Holds(keeper'[k], "record", c.job, c.from, c.to, c.next, c.buf, c.tail)
        /\ head' = head
    BY <1>5, KeeperHas DEF DeletePieces
  <2>2. CASE sealed
    <3>1. KeeperHolds(keeper[k])'
      BY <1>1, <1>5, <2>1, <2>2 DEF KeeperHolds, Holds
    <3> QED BY <1>1, <1>3, <2>2, <3>1, StoreKeeper DEF StoreInv, Whole
  <2>3. CASE ~sealed
    <3>1. Compacts(c)
      BY <1>1, <1>4, <1>5, <2>3 DEF KeeperHolds
    <3>2. \A n \in c.from..c.to : spilled[n] \in ToSet(head)
      BY <1>1, <3>1 DEF Compacts
    <3>3. ASSUME NEW n \in 1..partCount
          PROVE  \/ n > compacted /\ part'[n] = <<spilled[n]>>
                 \/ (n > compacted => part'[n] = <<>>) /\ spilled[n] \in ToSet(head)
      <4>1. n \in 1..Chunks
        BY <1>2, SizeAssumption
      <4>2. CASE n \in Merged(k)
        BY <1>1, <3>2, <4>1, <4>2 DEF Merged
      <4>3. CASE n \notin Merged(k)
        BY <1>1, <2>3, <4>1, <4>3 DEF StoreInv, BucketHolds
      <4> QED BY <4>2, <4>3
    <3>4. BucketHolds'
      BY <1>1, <2>1, <2>3, <3>3 DEF StoreInv, BucketHolds
    <3>5. KeeperHolds(keeper[k])'
      BY <1>1, <1>5, <2>1, <3>1, <3>2 DEF KeeperHolds, Compacts, Gathers, Holds
    <3> QED BY <1>1, <1>3, <2>3, <3>4, <3>5, StoreKeeper
  <2> QED BY <2>2, <2>3
<1>6. CASE c.job # "compact"
  <2>1. sealed
    BY <1>1, <1>4, <1>6 DEF KeeperHolds, Seals
  <2>2. keeper'[k].pc = "idle"
    BY <1>6, KeeperHas DEF Holds
  <2> QED BY <1>1, <1>3, <2>1, <2>2, StoreKeeper DEF StoreInv, Whole, KeeperHolds
<1> QED BY <1>5, <1>6

\* The row learns that its parts are merged, or that it is sealed; or it does not,
\* for the keeper was killed.
LEMMA StoreRecords ==
  ASSUME LogInv, StoreInv, KeepersApart, KeepersApart', NEW k \in Keepers,
         RecordCompacted(k) \/ RecordSealed(k) \/ KeeperEvicted(k)
  PROVE  StoreInv'
<1> DEFINE c == keeper[k]
<1>1. /\ UNCHANGED <<active, log, partCount, spilled, append, head, part, full>>
      /\ KeeperStep(k) \/ KeeperEvicted(k)
  BY DEF RecordCompacted, RecordSealed, KeeperEvicted, KeeperStep, rowVars, bucketVars
<1>2. KeeperHolds(c)
  BY DEF StoreInv
<1>3. CASE RecordCompacted(k)
  <2>1. /\ keeper'[k].pc = "idle" /\ sealed' = sealed /\ c.pc = "record" /\ c.job = "compact"
        /\ compacted' = IF compacted = c.from - 1 THEN c.to ELSE compacted
    BY <1>3, KeeperHas DEF RecordCompacted, Holds
  <2>2. ASSUME ~sealed PROVE BucketHolds'
    <3>1. /\ compacted' = c.to /\ c.from = compacted + 1
          /\ \A n \in c.from..c.to : spilled[n] \in ToSet(head)
      <4>1. c.from = compacted + 1 /\ \A n \in c.from..c.to : spilled[n] \in ToSet(head)
        BY <1>2, <2>1, <2>2 DEF KeeperHolds, Compacts
      <4>2. compacted \in 0..partCount
        BY StoreTypes
      <4> QED BY <2>1, <4>1, <4>2, StoreTypes
    <3>2. compacted \in Nat /\ c.to \in Nat
      BY StoreTypes, KeeperFinds DEF KeeperRows
    <3>3. ASSUME NEW n \in 1..partCount
          PROVE  \/ n > c.to /\ part[n] = <<spilled[n]>>
                 \/ (n > c.to => part[n] = <<>>) /\ spilled[n] \in ToSet(head)
      <4>1. \/ n > compacted /\ part[n] = <<spilled[n]>>
            \/ (n > compacted => part[n] = <<>>) /\ spilled[n] \in ToSet(head)
        BY <2>2 DEF StoreInv, BucketHolds
      <4>2. n > compacted /\ ~(n > c.to) => spilled[n] \in ToSet(head)
        BY <3>1, <3>2
      <4>3. compacted <= c.to
        <5>1. c.next >= c.from /\ c.next <= c.to + 1 /\ c.next \in Nat
          BY <1>2, <2>1, <2>2, KeeperFinds, SizeAssumption
          DEF KeeperHolds, Compacts, KeeperRows, KeeperFits
        <5> QED BY <3>1, <3>2, <5>1
      <4> QED BY <3>2, <4>1, <4>2, <4>3
    <3> QED BY <1>1, <2>2, <3>1, <3>3 DEF StoreInv, BucketHolds
  <2> QED BY <1>1, <2>1, <2>2, StoreKeeper DEF StoreInv, Whole, KeeperHolds
<1>4. CASE RecordSealed(k)
  <2>1. compacted' = compacted /\ sealed' = TRUE /\ c.pc = "record" /\ c.job = "seal"
    BY <1>4 DEF RecordSealed
  <2>2. ~sealed /\ ~active /\ Whole
    BY <1>2, <2>1 DEF KeeperHolds, Seals
  <2>3. keeper'[k].pc = "delete" /\ keeper'[k].job = "seal"
    BY <1>4, <2>1, <2>2, KeeperHas DEF Holds
  <2>4. KeeperHolds(keeper[k])' /\ Whole'
    BY <1>1, <2>1, <2>2, <2>3 DEF KeeperHolds, Seals, Whole
  <2> QED BY <1>1, <2>1, <2>2, <2>4, StoreKeeper
<1>5. CASE KeeperEvicted(k)
  <2>1. UNCHANGED <<compacted, sealed>> /\ keeper'[k].pc = "idle"
    BY <1>5, KeeperHas DEF KeeperEvicted, Holds, rowVars
  <2>2. KeeperHolds(keeper[k])' /\ (IF sealed THEN Whole ELSE BucketHolds)' /\ (sealed' => ~active)
    BY <1>1, <2>1 DEF StoreInv, Whole, BucketHolds, KeeperHolds
  <2> QED BY <1>1, <2>2, StoreKeeper
<1> QED BY <1>3, <1>4, <1>5

\* Every step keeps what is spilled in the bucket, while no two keepers are at work.
LEMMA StoreStep ==
  LogInv /\ TailInv /\ Agree /\ StoreInv /\ KeepersApart /\ KeepersApart' /\ [Next]_vars
    => StoreInv'
<1> SUFFICES ASSUME LogInv, TailInv, Agree, StoreInv, KeepersApart, KeepersApart', [Next]_vars
             PROVE  StoreInv'
  OBVIOUS
<1>1. CASE Flush \/ EndRun \/ UNCHANGED vars
  <2>1. /\ UNCHANGED <<log, partCount, compacted, sealed, spilled, head, part, full, append, keeper>>
        /\ ~active => ~active'
    BY <1>1 DEF Flush, EndRun, vars, rowVars, bucketVars
  <2>2. UNCHANGED <<Whole, BucketHolds>>
    BY <2>1 DEF Whole, BucketHolds
  <2>3. \A k \in Keepers : KeeperHolds(keeper[k])'
    BY <2>1 DEF StoreInv, KeeperHolds, Compacts, Seals, Gathers, Whole
  <2>4. \A b \in Appends : StoreHeld(append[b])'
    BY <2>1 DEF StoreInv, StoreHeld, Evicted
  <2> QED BY <2>1, <2>2, <2>3, <2>4 DEF StoreInv, Rising
<1>2. ASSUME NEW a \in Appends,
             \/ Send(a) \/ AppendRead(a) \/ SpillEvicted(a) \/ AppendWrite(a)
             \/ Reply(a) \/ Cut(a) \/ AppendEvicted(a)
      PROVE  StoreInv'
  BY <1>2, StoreReads, StoreSpills, StoreWrites
<1>3. ASSUME NEW k \in Keepers, KeeperStep(k) \/ KeeperEvicted(k)
      PROVE  StoreInv'
  BY <1>3, StoreBegins, StoreGathers, StorePuts, StoreDeletes, StoreRecords DEF KeeperStep
<1> QED BY <1>1, <1>2, <1>3 DEF Next

\* A reader is given what is in the bucket, and the tail.
LEMMA ReadersFind == LogInv /\ StoreInv => DroppedIsStored
<1> SUFFICES ASSUME LogInv, StoreInv PROVE Readable = ToSet(spilled \o log)
  BY DEF DroppedIsStored
<1>0. /\ log \in Seq(1..Chunks) /\ spilled \in Seq(1..Chunks) /\ head \in Seq(1..Chunks)
      /\ compacted \in 0..partCount /\ partCount \in 0..Chunks
      /\ part \in [1..Chunks -> Seq(1..Chunks)]
  BY StoreTypes DEF Texts
<1>1. ToSet(spilled \o log) = ToSet(spilled) \cup ToSet(log)
  BY <1>0, InBoth
<1>2. CASE sealed
  BY <1>1, <1>2 DEF Readable, ReadRunLog, StoreInv, Whole
<1>3. CASE ~sealed
  <2> DEFINE u == Unmerged
             n == partCount - compacted
  <2>1. n \in Nat /\ \A j \in 1..n : compacted + j \in 1..partCount /\ compacted + j \in 1..Chunks
    BY <1>0, SizeAssumption
  <2>2. u \in [1..n -> Seq(1..Chunks)] /\ \A j \in 1..n : u[j] = part[compacted + j]
    BY <1>0, <2>1 DEF Unmerged
  <2> HIDE DEF u, n
  <2>3. /\ FlattenSeq(u) \in Seq(1..Chunks)
        /\ \A x : x \in ToSet(FlattenSeq(u)) <=> \E i \in 1..n : x \in ToSet(u[i])
    BY <2>1, <2>2, FlattenHolds
  <2> DEFINE f == FlattenSeq(u)
  <2> HIDE DEF f
  <2>4. f \in Seq(1..Chunks)
    BY <2>3 DEF f
  <2>5. ToSet((head \o f) \o log) = ToSet(head) \cup ToSet(f) \cup ToSet(log)
    <3>1. head \o f \in Seq(1..Chunks) /\ ToSet(head \o f) = ToSet(head) \cup ToSet(f)
      BY <1>0, <2>4, InBoth
    <3> DEFINE h == head \o f
    <3> HIDE DEF h
    <3>2. h \in Seq(1..Chunks)
      BY <3>1 DEF h
    <3>3. ToSet(h \o log) = ToSet(h) \cup ToSet(log)
      BY <1>0, <3>2, InBoth
    <3> QED BY <3>1, <3>3 DEF h
  <2>6. ToSet(head) \cup ToSet(f) = ToSet(spilled)
    <3>1. ASSUME NEW x \in ToSet(f) PROVE x \in ToSet(spilled)
      <4>1. PICK i \in 1..n : x \in ToSet(u[i])
        BY <2>3, <3>1 DEF f
      <4>2. x \in ToSet(part[compacted + i]) /\ compacted + i \in 1..partCount
        BY <2>1, <2>2, <4>1
      <4>3. part[compacted + i] = <<spilled[compacted + i]>> \/ part[compacted + i] = <<>>
        BY <1>0, <1>3, <4>2 DEF StoreInv, BucketHolds
      <4>4. x = spilled[compacted + i]
        BY <4>2, <4>3, InShort
      <4> QED BY <4>2, <4>4, StoreTypes
    <3>2. ASSUME NEW x \in ToSet(spilled), x \notin ToSet(head) PROVE x \in ToSet(f)
      <4>1. PICK m \in 1..partCount : spilled[m] = x
        BY <3>2, StoreTypes
      <4>2. m > compacted /\ part[m] = <<x>>
        BY <1>3, <3>2, <4>1 DEF StoreInv, BucketHolds
      <4>3. m - compacted \in 1..n /\ compacted + (m - compacted) = m
        BY <1>0, <4>2 DEF n
      <4>4. u[m - compacted] = <<x>>
        BY <2>2, <4>2, <4>3
      <4> QED BY <2>3, <4>3, <4>4, InShort DEF f
    <3>3. ToSet(head) \subseteq ToSet(spilled)
      BY <1>3 DEF StoreInv, BucketHolds
    <3> QED BY <3>1, <3>2, <3>3
  <2>7. ReadRunLog = (head \o f) \o log
    BY <1>3 DEF ReadRunLog, f, u
  <2> QED BY <1>1, <2>5, <2>6, <2>7 DEF Readable
<1> QED BY <1>2, <1>3

\* No chunk that the row has dropped is missing for whoever reads the log,
\* however many handlers are late, repeat a chunk or are killed, and wherever
\* compactions are killed; provided that no two keepers are at work at a time and
\* that no queue is trimmed while a lost request about its head is being handled
\* (spillEvicted, compactRunLog, sealRunLog): without either it may be.
THEOREM NothingDroppedIsMissing ==
  Spec /\ []KeepersApart /\ (Uncut \/ [][Roomy]_vars) => []DroppedIsStored
BY StoreStart, StoreStep, ReadersFind, LogAlwaysFits, TailInOrder, AlwaysAgree, PTL DEF Spec

\* While the run is active that takes less: only compactions may then be at work,
\* and it is enough that no two of them are.  What a watcher of a run in progress
\* reads lacks nothing, whatever happens when it has ended.
THEOREM LiveLogIsWhole ==
  Spec /\ [](active => KeepersApart) /\ (Uncut \/ [][Roomy]_vars)
    => [](active => DroppedIsStored)
<1>1. Init => (active => StoreInv)
  BY StoreStart
<1>2. [Next]_vars /\ active' => active
  BY DEF Next, Flush, EndRun, Send, AppendRead, SpillEvicted, AppendWrite, Reply, Cut,
    AppendEvicted, KeeperStep, CompactRunLog, SealRunLog, ReadHead, ReadPart, PutMerged,
    DeletePieces, RecordCompacted, RecordSealed, KeeperEvicted, vars
<1>3. LogInv /\ TailInv /\ Agree /\ (active => StoreInv) /\ (active => KeepersApart)
        /\ (active => KeepersApart)' /\ [Next]_vars => (active => StoreInv)'
  BY <1>2, StoreStep
<1>4. LogInv /\ (active => StoreInv) => (active => DroppedIsStored)
  BY ReadersFind
<1> QED BY <1>1, <1>3, <1>4, LogAlwaysFits, TailInOrder, AlwaysAgree, PTL DEF Spec

-----------------------------------------------------------------------------
(* The log keeps its promise.                                               *)

\* What has left the row and not come back is what it has dropped.
LEMMA StoredIs ==
  LogInv /\ TailInv /\ StoreInv =>
    /\ Readable \ ToSet(log) = ToSet(spilled)
    /\ \A c \in ToSet(spilled) : log # <<>> /\ c < log[1]
<1> SUFFICES ASSUME LogInv, TailInv, StoreInv
             PROVE  /\ Readable \ ToSet(log) = ToSet(spilled)
                    /\ \A c \in ToSet(spilled) : log # <<>> /\ c < log[1]
  OBVIOUS
<1>1. Readable = ToSet(spilled) \cup ToSet(log)
  <2>1. log \in Seq(1..Chunks) /\ spilled \in Seq(1..Chunks)
    BY StoreTypes DEF Texts
  <2>2. ToSet(spilled \o log) = ToSet(spilled) \cup ToSet(log)
    BY <2>1, InBoth
  <2> QED BY <2>2, ReadersFind DEF DroppedIsStored
<1>2. \A c \in ToSet(spilled) : log # <<>> /\ c < log[1] /\ c \in 1..Chunks
  <2> SUFFICES ASSUME NEW c \in ToSet(spilled)
               PROVE  log # <<>> /\ c < log[1] /\ c \in 1..Chunks
    OBVIOUS
  <2>1. PICK n \in 1..partCount : spilled[n] = c
    BY StoreTypes
  <2>2. partCount > 0
    BY <2>1, StoreTypes
  <2> QED BY <2>1, <2>2, StoreTypes DEF TailInv, StoreInv
<1>3. \A c \in ToSet(log) : log[1] <= c /\ c \in 1..Chunks
  <2> SUFFICES ASSUME NEW c \in ToSet(log)
               PROVE  log[1] <= c /\ c \in 1..Chunks
    OBVIOUS
  <2>1. log \in Seq(1..Chunks)
    BY StoreTypes DEF Texts
  <2>2. PICK j \in 1..Len(log) : log[j] = c
    BY <2>1, InSeq
  <2>3. Len(log) \in Nat /\ 1 \in 1..Len(log) /\ \A i \in 1..Len(log) : log[i] \in 1..Chunks
    <3>1. Len(log) \in Nat /\ \A i \in 1..Len(log) : log[i] \in 1..Chunks
      BY <2>1, ElementOfSeq, LenProperties
    <3>2. 1 \in 1..Len(log)
      BY <2>2, <3>1
    <3> QED BY <3>1, <3>2
  <2>4. j # 1 => log[1] < log[j]
    BY <2>2, <2>3 DEF TailInv, Rising
  <2> QED BY <2>2, <2>3, <2>4
<1>4. ToSet(log) \cap ToSet(spilled) = {}
  <2> SUFFICES ASSUME NEW c \in ToSet(log), c \in ToSet(spilled) PROVE FALSE
    OBVIOUS
  <2>1. log # <<>> /\ c < log[1] /\ c \in 1..Chunks /\ log[1] <= c
    BY <1>2, <1>3
  <2>2. log[1] \in 1..Chunks
    BY <2>1, FirstIs, StoreTypes
  <2> QED BY <2>1, <2>2
<1> QED BY <1>1, <1>2, <1>4

\* Every step keeps the promise.
LEMMA PromiseStep ==
  LogInv /\ TailInv /\ Agree /\ StoreInv /\ [Next]_vars /\ LogInv' /\ TailInv' /\ StoreInv'
    => [Promise!Next]_<<Readable \ ToSet(log), log, active>>
<1> SUFFICES ASSUME LogInv, TailInv, Agree, StoreInv, [Next]_vars, LogInv', TailInv', StoreInv'
             PROVE  [Promise!Next]_<<Readable \ ToSet(log), log, active>>
  OBVIOUS
<1> DEFINE stored == Readable \ ToSet(log)
<1>1. stored = ToSet(spilled)
  BY StoredIs
<1>2. (stored = ToSet(spilled) /\ \A c \in ToSet(spilled) : log # <<>> /\ c < log[1])'
  <2>1. (LogInv /\ TailInv /\ StoreInv =>
           /\ Readable \ ToSet(log) = ToSet(spilled)
           /\ \A c \in ToSet(spilled) : log # <<>> /\ c < log[1])'
    BY StoredIs, PTL
  <2> QED BY <2>1
<1> HIDE DEF stored
<1>3. CASE \E a \in Appends : AppendWrite(a) /\ Unraced(a)
  <2>1. PICK a \in Appends : AppendWrite(a) /\ Unraced(a)
    BY <1>3
  <2> DEFINE cut == Evicted(append[a].log)
  <2>2. /\ cut \in {0, 1} /\ (cut = 0 => spilled' = spilled)
        /\ cut = 1 => ToSet(spilled') = ToSet(spilled) \cup {log[1]}
    BY <2>1, SpilledGrows
  <2>3. /\ log' # <<>> /\ (log # <<>> /\ cut = 0 => log'[1] = log[1])
        /\ cut = 1 => log # <<>>
    BY <2>1, FirstWritten
  <2>4. active /\ active' = active
    BY <2>1, WriteTakes
  <2>5. log' \in Seq(1..Chunks) \ {<<>>} /\ Promise!Rising(log')
    BY <2>3 DEF LogInv, TypeOK, Texts, TailInv, Rising, Promise!Rising
  <2> HIDE DEF cut
  <2>6. Promise!Keep \/ Promise!Spill
    BY <1>1, <1>2, <2>2, <2>3 DEF Promise!Keep, Promise!Spill, stored
  <2>7. \A c \in stored' : c < log'[1]
    BY <1>2
  <2>8. Promise!Write
    BY <2>4, <2>5, <2>6, <2>7 DEF Promise!Write, stored
  <2> QED BY <2>8 DEF Promise!Next
<1>4. CASE ~\E a \in Appends : AppendWrite(a) /\ Unraced(a)
  <2>1. log' = log /\ spilled' = spilled
    BY <1>4, InformedStays
  <2>2. stored' = stored
    BY <1>1, <1>2, <2>1
  <2>3. active' = active \/ (active /\ active' = FALSE)
    BY DEF Next, Flush, EndRun, Send, AppendRead, SpillEvicted, AppendWrite, Reply, Cut,
      AppendEvicted, KeeperStep, CompactRunLog, SealRunLog, ReadHead, ReadPart, PutMerged,
      DeletePieces, RecordCompacted, RecordSealed, KeeperEvicted, vars
  <2> QED BY <2>1, <2>2, <2>3 DEF Promise!Next, Promise!Close, stored
<1> QED BY <1>3, <1>4

\* Under the same conditions the log implements what StoredText promises: what was
\* spilled is never lost and never moves, the tail goes on where it ends, and once
\* the run is over nothing changes, though compactions are killed anywhere, chunks
\* are sent again and handlers are late (appendRunLog, compactRunLog, sealRunLog).
THEOREM LogKeepsPromise ==
  Spec /\ []KeepersApart /\ (Uncut \/ [][Roomy]_vars) => KeepsPromise
<1>1. Init => Promise!Init
  <2> SUFFICES ASSUME Init PROVE Promise!Init
    OBVIOUS
  <2>1. LogInv /\ TailInv /\ StoreInv
    BY LogStart, TailStart, StoreStart
  <2>2. Readable \ ToSet(log) = ToSet(spilled)
    BY <2>1, StoredIs
  <2>3. log = <<>> /\ active = TRUE /\ ToSet(spilled) = {}
    BY InShort DEF Init
  <2> QED BY <2>2, <2>3 DEF Promise!Init
<1>2. LogInv /\ TailInv /\ Agree /\ StoreInv /\ [Next]_vars /\ LogInv' /\ TailInv' /\ StoreInv'
        => [Promise!Next]_<<Readable \ ToSet(log), log, active>>
  BY PromiseStep
<1> QED BY <1>1, <1>2, StoreStart, StoreStep, LogAlwaysFits, TailInOrder, AlwaysAgree, PTL
    DEF Spec, KeepsPromise, Promise!Spec
=============================================================================
