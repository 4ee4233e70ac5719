---------------------------- MODULE Board_proofs ----------------------------
(***************************************************************************)
(* Theorems about Schedules, for any number of invocations that overlap,   *)
(* any recurrences whose occurrences are strictly later and monotone, and  *)
(* any bounds, and about the board that MCBoard composes: what is proved   *)
(* of each part holds of the whole.                                        *)
(***************************************************************************)
EXTENDS MCBoard, Documents_proofs, Issues_proofs, SequenceTheorems, TLAPS

-----------------------------------------------------------------------------
(* Types *)

HandlerRows == ListedRows \cup RunNowRows \cup EditedRows \cup ArmedRows \cup {Idle}

Issue == [n : Nat, open : BOOLEAN]
Outcome == [due : Nat, rev : Nat]

\* The program counter tells what kind of copy an invocation holds.
LEMMA PcTells ==
  ASSUME NEW x \in HandlerRows
  PROVE  /\ x.pc = "sweep" => x \in ListedRows
         /\ x.pc = "runNow" => x \in RunNowRows
         /\ x.pc = "edit" => x \in EditedRows
         /\ x.pc = "unarchive" => x \in ArmedRows
BY DEF HandlerRows, ListedRows, RunNowRows, EditedRows, ArmedRows, Idle

\* What an invocation reads is a copy of one of the four kinds.
LEMMA ReadsType ==
  ASSUME TypeOK
  PROVE  /\ ListedRow \in HandlerRows /\ RunNowRow \in HandlerRows
         /\ EditedRow \in HandlerRows /\ ArmedRow \in HandlerRows
         /\ Idle \in HandlerRows
<1>1. /\ ListedRow \in ListedRows /\ RunNowRow \in RunNowRows
      /\ EditedRow \in EditedRows /\ ArmedRow \in ArmedRows
  BY DEF TypeOK, Row, ListedRow, RunNowRow, EditedRow, ArmedRow,
         ListedRows, RunNowRows, EditedRows, ArmedRows
<1> QED BY <1>1 DEF HandlerRows

\* Replacing the copy of one invocation keeps the table of copies.
LEMMA HandlerSet ==
  ASSUME TypeOK, NEW h, NEW x \in HandlerRows, handler' = [handler EXCEPT ![h] = x]
  PROVE  handler' \in [Handlers -> HandlerRows]
BY DEF TypeOK, HandlerRows

\* A row whose next occurrence alone is written.
LEMMA Advanced ==
  ASSUME NEW r \in Row, NEW n \in Nat, NEW x, x = [r EXCEPT !.next = n]
  PROVE  /\ x \in Row /\ x.next = n
         /\ x.rev = r.rev /\ x.period = r.period /\ x.count = r.count
BY DEF Row

CountedRow(r, n) == [r EXCEPT !.next = n, !.count = r.count + 1]

\* The row after a sweep that creates.
LEMMA Counted ==
  ASSUME NEW r \in Row, NEW n \in Nat, NEW x, x = CountedRow(r, n)
  PROVE  /\ x \in Row /\ x.next = n
         /\ x.rev = r.rev /\ x.period = r.period /\ x.count = r.count + 1
<1> DEFINE y == [r EXCEPT !.next = n]
<1>1. x = [y EXCEPT !.count = r.count + 1]
  BY DEF CountedRow
<1>2. y \in Row /\ y.next = n /\ y.rev = r.rev /\ y.period = r.period
  BY Advanced
<1> HIDE DEF y
<1> QED BY <1>1, <1>2 DEF Row

RewrittenRow(r, e, g, p, n) ==
  [r EXCEPT !.enabled = e, !.gate = g, !.period = p, !.rev = r.rev + 1, !.next = n]

\* The row after an edit.
LEMMA Edited ==
  ASSUME NEW r \in Row, NEW n \in Nat, NEW e \in BOOLEAN, NEW g \in BOOLEAN, NEW p \in Periods,
         NEW x, x = RewrittenRow(r, e, g, p, n)
  PROVE  /\ x \in Row /\ x.next = n
         /\ x.rev = r.rev + 1 /\ x.period = p /\ x.count = r.count
<1> DEFINE y == [r EXCEPT !.enabled = e]
           z == [y EXCEPT !.gate = g]
           u == [z EXCEPT !.period = p]
           v == [u EXCEPT !.rev = r.rev + 1]
<1>1. x = [v EXCEPT !.next = n]
  BY DEF RewrittenRow
<1>2. y \in Row /\ y.count = r.count
  BY DEF Row
<1> HIDE DEF y
<1>3. z \in Row /\ z.count = r.count
  BY <1>2 DEF Row
<1> HIDE DEF z
<1>4. u \in Row /\ u.count = r.count /\ u.period = p
  BY <1>3 DEF Row
<1> HIDE DEF u
<1>5. v \in Row /\ v.count = r.count /\ v.period = p /\ v.rev = r.rev + 1
  BY <1>4 DEF Row
<1> HIDE DEF v
<1> QED BY <1>1, <1>5 DEF Row

\* A new instance is one more entry, titled with the ordinal after the one read.
LEMMA Created ==
  ASSUME TypeOK, NEW s, s.count \in Nat, CreateInstance(s)
  PROVE  /\ issues' \in Seq(Issue)
         /\ Len(issues') = Len(issues) + 1
         /\ \A k \in DOMAIN issues : issues'[k] = issues[k]
         /\ issues'[Len(issues')].n = s.count + 1
         /\ DOMAIN issues' = 1..Len(issues')
<1>1. issues \in Seq(Issue) /\ [n |-> s.count + 1, open |-> TRUE] \in Issue
  BY DEF TypeOK, Issue
<1> QED BY <1>1, AppendProperties, LenProperties DEF CreateInstance

\* A new outcome is one more entry.
LEMMA Recorded ==
  ASSUME TypeOK, NEW s \in ListedRows, Record(s)
  PROVE  /\ outcomes' \in Seq(Outcome)
         /\ Len(outcomes') = Len(outcomes) + 1
         /\ \A k \in DOMAIN outcomes : outcomes'[k] = outcomes[k]
         /\ outcomes'[Len(outcomes')] = [due |-> s.next, rev |-> sched.rev]
         /\ DOMAIN outcomes' = 1..Len(outcomes')
<1>1. outcomes \in Seq(Outcome) /\ [due |-> s.next, rev |-> sched.rev] \in Outcome
  BY DEF TypeOK, Outcome, Row, ListedRows
<1> QED BY <1>1, AppendProperties, LenProperties DEF Record

\* Occurrences are numbers, after the instant they are computed from.
LEMMA Occurs ==
  ASSUME NEW p \in Periods, NEW t \in Instants
  PROVE  NextAfter(p, t) \in Nat /\ NextAfter(p, t) > t
BY OccurrenceAssumption

\* What the sweep writes to the row.
LEMMA SweepWrites ==
  ASSUME TypeOK, NEW h \in Handlers, SweepCreates(h) \/ SweepSkips(h)
  PROVE  /\ handler[h] \in ListedRows
         /\ sched' \in Row
         /\ sched'.next = NextAfter(handler[h].period, handler[h].now)
         /\ sched'.rev = sched.rev /\ sched'.period = sched.period
         /\ SweepCreates(h) => sched'.count = sched.count + 1
         /\ SweepSkips(h) => sched'.count = sched.count
<1>0. sched \in Row /\ handler \in [Handlers -> HandlerRows]
  BY DEF TypeOK, HandlerRows
<1>1. handler[h] \in ListedRows
  BY <1>0, PcTells DEF SweepCreates, SweepSkips
<1> DEFINE n == NextAfter(handler[h].period, handler[h].now)
<1>2. n \in Nat
  BY <1>1, Occurs DEF ListedRows
<1>3. SweepCreates(h) => sched' = CountedRow(sched, n)
  BY DEF SweepCreates, CountedRow
<1>4. SweepSkips(h) => sched' = [sched EXCEPT !.next = n]
  BY DEF SweepSkips
<1>7. (SweepCreates(h) => ~Blocked) /\ (SweepSkips(h) => Blocked)
  BY DEF SweepCreates, SweepSkips
<1> HIDE DEF n
<1>5. CASE SweepCreates(h)
  <2>1. /\ sched' \in Row /\ sched'.next = n /\ sched'.rev = sched.rev
        /\ sched'.period = sched.period /\ sched'.count = sched.count + 1
    BY <1>0, <1>2, <1>3, <1>5, Counted
  <2>2. ~SweepSkips(h)
    BY <1>5, <1>7
  <2> QED BY <1>1, <2>1, <2>2 DEF n
<1>6. CASE SweepSkips(h)
  <2>1. /\ sched' \in Row /\ sched'.next = n /\ sched'.rev = sched.rev
        /\ sched'.period = sched.period /\ sched'.count = sched.count
    BY <1>0, <1>2, <1>4, <1>6, Advanced
  <2>2. ~SweepCreates(h)
    BY <1>6, <1>7
  <2> QED BY <1>1, <2>1, <2>2 DEF n
<1> QED BY <1>5, <1>6

\* What an edit writes to the row.
LEMMA EditWrites ==
  ASSUME TypeOK, NEW h \in Handlers, NEW enabled \in BOOLEAN, NEW gate \in BOOLEAN,
         NEW edited \in BOOLEAN, NEW p \in Periods, UpdateCommit(h, enabled, gate, p, edited)
  PROVE  /\ handler[h] \in EditedRows
         /\ sched' \in Row
         /\ sched'.next = NextRunAt(handler[h], enabled, p, edited)
         /\ sched'.rev = sched.rev + 1 /\ sched'.period = p /\ sched'.count = sched.count
<1>0. sched \in Row /\ handler \in [Handlers -> HandlerRows]
  BY DEF TypeOK, HandlerRows
<1>1. handler[h] \in EditedRows
  BY <1>0, PcTells DEF UpdateCommit
<1> DEFINE n == NextRunAt(handler[h], enabled, p, edited)
<1>2. NextAfter(p, handler[h].now) \in Nat
  BY <1>1, Occurs DEF EditedRows
<1>3. n \in Nat
  BY <1>0, <1>2 DEF NextRunAt, Row
<1>4. sched' = RewrittenRow(sched, enabled, gate, p, n)
  BY DEF UpdateCommit, RewrittenRow
<1> HIDE DEF n
<1>5. /\ sched' \in Row /\ sched'.next = n /\ sched'.rev = sched.rev + 1
      /\ sched'.period = p /\ sched'.count = sched.count
  BY <1>0, <1>3, <1>4, Edited
<1> QED BY <1>1, <1>5 DEF n

\* What an unarchive that re-arms writes to the row.
LEMMA RearmWrites ==
  ASSUME TypeOK, NEW h \in Handlers, UnarchiveCommit(h)
  PROVE  /\ handler[h] \in ArmedRows
         /\ sched' \in Row /\ sched'.rev = sched.rev /\ sched'.period = sched.period
         /\ sched'.count = sched.count
         /\ Rearms(handler[h]) =>
              sched'.next = NextAfter(handler[h].period, handler[h].now)
         /\ ~Rearms(handler[h]) => sched' = sched /\ armed' = armed
<1>0. sched \in Row /\ handler \in [Handlers -> HandlerRows]
  BY DEF TypeOK, HandlerRows
<1>1. handler[h] \in ArmedRows
  BY <1>0, PcTells DEF UnarchiveCommit
<1> DEFINE n == NextAfter(handler[h].period, handler[h].now)
<1>2. n \in Nat
  BY <1>1, Occurs DEF ArmedRows
<1>3. Rearms(handler[h]) => sched' = [sched EXCEPT !.next = n]
  BY DEF UnarchiveCommit
<1>4. ~Rearms(handler[h]) => sched' = sched /\ armed' = armed
  BY DEF UnarchiveCommit
<1> HIDE DEF n
<1>5. Rearms(handler[h]) =>
        /\ sched' \in Row /\ sched'.next = n /\ sched'.rev = sched.rev
        /\ sched'.period = sched.period /\ sched'.count = sched.count
  BY <1>0, <1>2, <1>3, Advanced
<1>6. CASE Rearms(handler[h])
  BY <1>1, <1>5, <1>6 DEF n
<1>7. CASE ~Rearms(handler[h])
  <2>1. sched' = sched /\ armed' = armed
    BY <1>4, <1>7
  <2> QED BY <1>0, <1>1, <1>7, <2>1
<1> QED BY <1>6, <1>7

\* The types hold at first.
LEMMA TypeInit == Init => TypeOK
<1> SUFFICES ASSUME Init PROVE TypeOK
  OBVIOUS
<1>1. 0 \in Instants
  BY MaxTimeAssumption DEF Instants
<1>2. sched \in Row
  BY <1>1, Occurs DEF Init, Row
<1>3. issues \in Seq(Issue)
  <2>1. [n |-> 1, open |-> TRUE] \in Issue
    BY DEF Issue
  <2>2. issues = <<>> \/ issues = <<[n |-> 1, open |-> TRUE]>>
    BY DEF Init
  <2>3. CASE issues = <<>>
    BY <2>3
  <2>4. CASE issues = <<[n |-> 1, open |-> TRUE]>>
    <3> DEFINE first == [n |-> 1, open |-> TRUE]
    <3>1. issues = <<first>> /\ first \in Issue
      BY <2>1, <2>4
    <3> HIDE DEF first
    <3> QED BY <3>1
  <2> QED BY <2>2, <2>3, <2>4
<1>4. <<>> \in Seq(Outcome)
  OBVIOUS
<1>6. outcomes \in Seq(Outcome) /\ clock \in Instants /\ archived \in BOOLEAN
  BY <1>1, <1>4 DEF Init
<1>5. armed \in [at : Instants, rev : Nat] /\ handler \in [Handlers -> HandlerRows]
  BY <1>1 DEF Init, HandlerRows
<1> QED BY <1>2, <1>3, <1>6, <1>5 DEF TypeOK, Issue, Outcome, HandlerRows

\* The type of every part, for steps that are shown part by part.
LEMMA TypeParts ==
  ASSUME clock' \in Instants, archived' \in BOOLEAN, sched' \in Row,
         issues' \in Seq(Issue), outcomes' \in Seq(Outcome),
         armed' \in [at : Instants, rev : Nat], handler' \in [Handlers -> HandlerRows]
  PROVE  TypeOK'
BY DEF TypeOK, Issue, Outcome, HandlerRows, ListedRows, RunNowRows, EditedRows, ArmedRows, Idle

\* Every step keeps them.
LEMMA TypeStep == TypeOK /\ [Next]_vars => TypeOK'
<1> SUFFICES ASSUME TypeOK, [Next]_vars PROVE TypeOK'
  OBVIOUS
<1> USE DEF world, history
<1>0. /\ clock \in Instants /\ archived \in BOOLEAN /\ sched \in Row
      /\ issues \in Seq(Issue) /\ outcomes \in Seq(Outcome)
      /\ armed \in [at : Instants, rev : Nat] /\ handler \in [Handlers -> HandlerRows]
  BY DEF TypeOK, Issue, Outcome, HandlerRows
<1>1. ASSUME NEW h \in Handlers, SweepList(h) PROVE TypeOK'
  <2>1. handler' \in [Handlers -> HandlerRows]
    BY <1>1, ReadsType, HandlerSet DEF SweepList
  <2> QED BY <1>0, <1>1, <2>1, TypeParts DEF SweepList
<1>2. ASSUME NEW h \in Handlers, SweepCreates(h) PROVE TypeOK'
  <2>1. handler[h] \in ListedRows
    BY <1>0, <1>2, PcTells DEF SweepCreates
  <2>2. handler' \in [Handlers -> HandlerRows]
    BY <1>2, ReadsType, HandlerSet DEF SweepCreates, SweepDone
  <2>3. issues' \in Seq(Issue) /\ outcomes' \in Seq(Outcome)
    <3>1. handler[h].count \in Nat
      BY <2>1 DEF ListedRows
    <3> QED BY <1>2, <2>1, <3>1, Created, Recorded DEF SweepCreates
  <2>4. sched' \in Row
    BY <1>2, SweepWrites
  <2> QED BY <1>0, <1>2, <2>2, <2>3, <2>4, TypeParts DEF SweepCreates, SweepDone
<1>3. ASSUME NEW h \in Handlers, SweepSkips(h) PROVE TypeOK'
  <2>1. handler[h] \in ListedRows
    BY <1>0, <1>3, PcTells DEF SweepSkips
  <2>2. handler' \in [Handlers -> HandlerRows]
    BY <1>3, ReadsType, HandlerSet DEF SweepSkips, SweepDone
  <2>3. outcomes' \in Seq(Outcome)
    BY <1>3, <2>1, Recorded DEF SweepSkips
  <2>4. sched' \in Row
    BY <1>3, SweepWrites
  <2> QED BY <1>0, <1>3, <2>2, <2>3, <2>4, TypeParts DEF SweepSkips, SweepDone
<1>4. ASSUME NEW h \in Handlers, SweepMisses(h) PROVE TypeOK'
  <2>1. handler' \in [Handlers -> HandlerRows]
    BY <1>4, ReadsType, HandlerSet DEF SweepMisses, SweepDone
  <2> QED BY <1>0, <1>4, <2>1, TypeParts DEF SweepMisses, SweepDone
<1>5. ASSUME NEW h \in Handlers, RunNowRead(h) \/ RunNowRetries(h) PROVE TypeOK'
  <2>1. handler' \in [Handlers -> HandlerRows]
    BY <1>5, ReadsType, HandlerSet DEF RunNowRead, RunNowRetries
  <2> QED BY <1>0, <1>5, <2>1, TypeParts DEF RunNowRead, RunNowRetries
<1>6. ASSUME NEW h \in Handlers, RunNowCreates(h) PROVE TypeOK'
  <2>1. handler[h] \in RunNowRows
    BY <1>0, <1>6, PcTells DEF RunNowCreates
  <2>2. handler' \in [Handlers -> HandlerRows]
    BY <1>6, ReadsType, HandlerSet DEF RunNowCreates
  <2>3. issues' \in Seq(Issue)
    <3>1. handler[h].count \in Nat
      BY <2>1 DEF RunNowRows
    <3> QED BY <1>6, <3>1, Created DEF RunNowCreates
  <2>4. sched' \in Row
    BY <1>0, <1>6, SMTT(30) DEF RunNowCreates, Row
  <2> QED BY <1>0, <1>6, <2>2, <2>3, <2>4, TypeParts DEF RunNowCreates
<1>7. ASSUME NEW h \in Handlers, RequestFails(h) PROVE TypeOK'
  <2>1. handler' \in [Handlers -> HandlerRows]
    BY <1>7, ReadsType, HandlerSet DEF RequestFails
  <2> QED BY <1>0, <1>7, <2>1, TypeParts DEF RequestFails
<1>8. ASSUME NEW h \in Handlers, UpdateRead(h) \/ UnarchiveRead(h) PROVE TypeOK'
  <2>1. handler' \in [Handlers -> HandlerRows]
    BY <1>8, ReadsType, HandlerSet DEF UpdateRead, UnarchiveRead
  <2> QED BY <1>0, <1>8, <2>1, TypeParts DEF UpdateRead, UnarchiveRead
<1>9. ASSUME NEW h \in Handlers, NEW enabled \in BOOLEAN, NEW gate \in BOOLEAN,
             NEW edited \in BOOLEAN, NEW p \in Periods, UpdateCommit(h, enabled, gate, p, edited)
      PROVE  TypeOK'
  <2>1. handler[h] \in EditedRows
    BY <1>0, <1>9, PcTells DEF UpdateCommit
  <2>2. handler' \in [Handlers -> HandlerRows]
    BY <1>9, ReadsType, HandlerSet DEF UpdateCommit
  <2>3. sched' \in Row
    BY <1>9, EditWrites
  <2>4. armed' \in [at : Instants, rev : Nat]
    BY <1>0, <1>9, <2>1 DEF UpdateCommit, EditedRows, Row
  <2> QED BY <1>0, <1>9, <2>2, <2>3, <2>4, TypeParts DEF UpdateCommit
<1>10. ASSUME NEW h \in Handlers, UnarchiveCommit(h) PROVE TypeOK'
  <2>1. handler[h] \in ArmedRows
    BY <1>0, <1>10, PcTells DEF UnarchiveCommit
  <2>2. handler' \in [Handlers -> HandlerRows]
    BY <1>10, ReadsType, HandlerSet DEF UnarchiveCommit
  <2>3. sched' \in Row
    BY <1>10, RearmWrites
  <2>4. armed' \in [at : Instants, rev : Nat]
    BY <1>0, <1>10, <2>1 DEF UnarchiveCommit, Row, ArmedRows
  <2> QED BY <1>0, <1>10, <2>2, <2>3, <2>4, TypeParts DEF UnarchiveCommit
<1>11. CASE DeleteSchedule
  <2>1. sched' \in Row
    BY <1>0, <1>11 DEF DeleteSchedule, Row
  <2> QED BY <1>0, <1>11, <2>1, TypeParts DEF DeleteSchedule
<1>12. CASE ArchiveProject
  BY <1>0, <1>12, TypeParts DEF ArchiveProject
<1>13. CASE Tick
  <2>1. clock' \in Instants
    BY <1>0, <1>13, MaxTimeAssumption DEF Tick, Instants
  <2> QED BY <1>0, <1>13, <2>1, TypeParts DEF Tick
<1>14. CASE WorkflowEdit
  <2>1. ASSUME NEW h \in Handlers, handler[h].pc \in {"sweep", "runNow"}
        PROVE  [handler[h] EXCEPT !.start = FALSE] \in HandlerRows
    <3>1. handler[h] \in ListedRows \/ handler[h] \in RunNowRows
      BY <1>0, <2>1, PcTells
    <3>2. \/ [handler[h] EXCEPT !.start = FALSE] \in ListedRows
          \/ [handler[h] EXCEPT !.start = FALSE] \in RunNowRows
      BY <3>1 DEF ListedRows, RunNowRows
    <3> QED BY <3>2 DEF HandlerRows
  <2>2. handler' \in [Handlers -> HandlerRows]
    BY <1>0, <1>14, <2>1 DEF WorkflowEdit
  <2> QED BY <1>0, <1>14, <2>2, TypeParts DEF WorkflowEdit
<1>15. ASSUME NEW k \in DOMAIN issues, MoveIssue(k) PROVE TypeOK'
  <2>1. k \in 1..Len(issues) /\ issues[k] \in Issue
    BY <1>0, LenProperties, ElementOfSeq
  <2>2. [issues[k] EXCEPT !.open = ~@] \in Issue
    BY <2>1 DEF Issue
  <2>3. issues' \in Seq(Issue)
    BY <1>0, <1>15, <2>1, <2>2, ExceptSeq DEF MoveIssue
  <2> QED BY <1>0, <1>15, <2>3, TypeParts DEF MoveIssue
<1>16. CASE UNCHANGED vars
  BY <1>0, <1>16, TypeParts DEF vars
<1> QED
  BY <1>1, <1>2, <1>3, <1>4, <1>5, <1>6, <1>7, <1>8, <1>9, <1>10, <1>11, <1>12, <1>13,
     <1>14, <1>15, <1>16 DEF Next, SweepStep

\* Every reachable schedule, instance and copy is well typed.
THEOREM TypeCorrect == Spec => []TypeOK
BY TypeInit, TypeStep, PTL DEF Spec

-----------------------------------------------------------------------------
(* Ordinals *)

Created1 == /\ issues' \in Seq(Issue)
            /\ Len(issues') = Len(issues) + 1
            /\ \A k \in DOMAIN issues : issues'[k] = issues[k]
            /\ issues'[Len(issues')].n = sched.count + 1
            /\ sched'.count = sched.count + 1

\* An instance titled with the count, and the count moved with it, keep the numbering.
LEMMA DenseAppend ==
  ASSUME TypeOK, OrdinalsAreDense, Created1
  PROVE  OrdinalsAreDense'
<1>1. DOMAIN issues = 1..Len(issues) /\ DOMAIN issues' = 1..Len(issues')
  BY LenProperties DEF TypeOK, Created1, Issue
<1>2. Len(issues) \in Nat /\ sched.count = Len(issues)
  BY LenProperties DEF TypeOK, OrdinalsAreDense
<1>3. ASSUME NEW k \in DOMAIN issues' PROVE issues'[k].n = k
  <2>1. CASE k \in DOMAIN issues
    BY <2>1 DEF OrdinalsAreDense, Created1
  <2>2. CASE k \notin DOMAIN issues
    <3>1. k = Len(issues')
      BY <1>1, <1>2, <2>2 DEF Created1
    <3> QED BY <1>2, <3>1 DEF Created1
  <2> QED BY <2>1, <2>2
<1> QED BY <1>2, <1>3 DEF OrdinalsAreDense, Created1

\* Every step keeps the ordinals dense.
LEMMA DenseStep == TypeOK /\ OrdinalsAreDense /\ [Next]_vars => OrdinalsAreDense'
<1> SUFFICES ASSUME TypeOK, OrdinalsAreDense, [Next]_vars PROVE OrdinalsAreDense'
  OBVIOUS
<1>0. issues \in Seq(Issue) /\ sched \in Row /\ handler \in [Handlers -> HandlerRows]
  BY DEF TypeOK, Issue, HandlerRows
<1>1. ASSUME NEW h \in Handlers, SweepCreates(h) PROVE OrdinalsAreDense'
  <2>1. handler[h] \in ListedRows /\ sched'.count = sched.count + 1
    BY <1>1, SweepWrites
  <2>2. handler[h].count = sched.count /\ handler[h].count \in Nat
    BY <1>1, <2>1 DEF SweepCreates, CountMatches, ListedRows
  <2>3. CreateInstance(handler[h])
    BY <1>1 DEF SweepCreates
  <2>4. Created1
    BY <2>1, <2>2, <2>3, Created DEF Created1
  <2> QED BY <2>4, DenseAppend
<1>2. ASSUME NEW h \in Handlers, RunNowCreates(h) PROVE OrdinalsAreDense'
  <2>1. handler[h] \in RunNowRows
    BY <1>0, <1>2, PcTells DEF RunNowCreates
  <2>2. handler[h].count = sched.count /\ handler[h].count \in Nat
    BY <1>2, <2>1 DEF RunNowCreates, CountMatches, RunNowRows
  <2>3. CreateInstance(handler[h]) /\ sched'.count = sched.count + 1
    BY <1>0, <1>2 DEF RunNowCreates, Row
  <2>4. Created1
    BY <2>2, <2>3, Created DEF Created1
  <2> QED BY <2>4, DenseAppend
<1>3. ASSUME issues' = issues, sched'.count = sched.count PROVE OrdinalsAreDense'
  BY <1>3 DEF OrdinalsAreDense
<1>4. ASSUME NEW h \in Handlers, SweepSkips(h) PROVE OrdinalsAreDense'
  BY <1>3, <1>4, SweepWrites DEF SweepSkips
<1>5. ASSUME NEW h \in Handlers, NEW enabled \in BOOLEAN, NEW gate \in BOOLEAN,
             NEW edited \in BOOLEAN, NEW p \in Periods, UpdateCommit(h, enabled, gate, p, edited)
      PROVE  OrdinalsAreDense'
  <2>1. sched'.count = sched.count /\ issues' = issues
    BY <1>5, EditWrites DEF UpdateCommit
  <2> QED BY <1>3, <2>1
<1>6. ASSUME NEW h \in Handlers, UnarchiveCommit(h) PROVE OrdinalsAreDense'
  BY <1>3, <1>6, RearmWrites DEF UnarchiveCommit
<1>7. CASE DeleteSchedule
  <2>1. sched'.count = sched.count
    BY <1>0, <1>7 DEF DeleteSchedule, Row
  <2> QED BY <1>3, <1>7, <2>1 DEF DeleteSchedule
<1>8. ASSUME NEW k \in DOMAIN issues, MoveIssue(k) PROVE OrdinalsAreDense'
  <2>1. sched' = sched /\ issues' = [issues EXCEPT ![k].open = ~@]
    BY <1>8 DEF MoveIssue
  <2>2. k \in 1..Len(issues) /\ \A j \in 1..Len(issues) : issues[j] \in Issue
    BY <1>0, <1>8, LenProperties, ElementOfSeq
  <2>3. [issues[k] EXCEPT !.open = ~@] \in Issue /\ [issues[k] EXCEPT !.open = ~@].n = issues[k].n
    BY <2>2 DEF Issue
  <2>4. issues' \in Seq(Issue) /\ Len(issues') = Len(issues)
    BY <1>0, <2>1, <2>2, <2>3, ExceptSeq
  <2>5. DOMAIN issues = 1..Len(issues) /\ DOMAIN issues' = 1..Len(issues)
    BY <1>0, <2>4, LenProperties
  <2>6. ASSUME NEW j \in DOMAIN issues PROVE issues'[j].n = issues[j].n
    BY <2>1, <2>3, <2>5
  <2> QED BY <2>1, <2>4, <2>5, <2>6 DEF OrdinalsAreDense
<1>9. CASE /\ issues' = issues /\ sched' = sched
  BY <1>3, <1>9
<1>10. ASSUME NEW h \in Handlers,
              \/ SweepList(h) \/ SweepMisses(h) \/ RunNowRead(h) \/ RunNowRetries(h)
              \/ UpdateRead(h) \/ UnarchiveRead(h) \/ RequestFails(h)
       PROVE  issues' = issues /\ sched' = sched
  BY <1>10 DEF SweepList, SweepMisses, RunNowRead, RunNowRetries, UpdateRead, UnarchiveRead,
               RequestFails
<1>11. ASSUME ArchiveProject \/ Tick \/ WorkflowEdit \/ UNCHANGED vars
       PROVE  issues' = issues /\ sched' = sched
  BY <1>11 DEF ArchiveProject, Tick, WorkflowEdit, vars
<1> QED
  BY <1>1, <1>2, <1>4, <1>5, <1>6, <1>7, <1>8, <1>9, <1>10, <1>11 DEF Next, SweepStep

\* The k-th instance of a schedule is titled number k and run_count counts them
\* (buildScheduleExecution's count_changed guard).
THEOREM OrdinalsStayDense == Spec => []OrdinalsAreDense
<1>1. Init => OrdinalsAreDense
  BY DEF Init, OrdinalsAreDense
<1> QED BY <1>1, TypeInit, TypeStep, DenseStep, PTL DEF Spec

-----------------------------------------------------------------------------
(* Occurrences *)

\* The occurrence of a row was computed from an instant not after t.
Paced(period, next, t) ==
  \E u \in Instants : u <= t /\ next = NextAfter(period, u)

\* What an invocation holds is older than the row, or agrees with it.
CopyFits(s) ==
  /\ s.pc # "idle" => s.rev <= sched.rev
  /\ s.pc \in {"sweep", "edit", "unarchive"} =>
       /\ s.now <= clock
       /\ s.rev = sched.rev => s.period = sched.period
  /\ s.pc = "sweep" => s.next <= s.now
  /\ s.pc = "unarchive" => Paced(s.period, s.next, s.now)

CopiesFit == \A h \in Handlers : CopyFits(handler[h])

OutcomesPast ==
  \A k \in DOMAIN outcomes :
    /\ outcomes[k].rev <= sched.rev
    /\ outcomes[k].rev = sched.rev => outcomes[k].due < sched.next

ArmedPast == armed.rev <= sched.rev /\ (armed.rev = sched.rev => armed.at < sched.next)

PaceInv ==
  /\ Paced(sched.period, sched.next, clock)
  /\ CopiesFit
  /\ OutcomesPast
  /\ OneOutcomePerOccurrence
  /\ ArmedPast

\* From a later instant the next occurrence is not earlier, and after that instant.
LEMMA Later ==
  ASSUME NEW p \in Periods, NEW n \in Nat, NEW t \in Instants, Paced(p, n, t)
  PROVE  n <= NextAfter(p, t)
<1>1. PICK u \in Instants : u <= t /\ n = NextAfter(p, u)
  BY DEF Paced
<1> QED BY <1>1, OccurrenceAssumption

\* A copy goes on fitting when the clock and the row move on.
LEMMA CopyKept ==
  ASSUME TypeOK, TypeOK', NEW s \in HandlerRows, CopyFits(s), clock' >= clock,
         \/ sched'.rev = sched.rev /\ sched'.period = sched.period
         \/ sched'.rev > sched.rev
  PROVE  CopyFits(s)'
<1>0. sched \in Row /\ sched' \in Row /\ clock \in Nat /\ clock' \in Nat
  BY MaxTimeAssumption DEF TypeOK, Instants
<1>1. s.pc # "idle" => s.rev \in Nat
  BY DEF HandlerRows, ListedRows, RunNowRows, EditedRows, ArmedRows, Idle
<1>2. s.pc \in {"sweep", "edit", "unarchive"} => s.now \in Nat
  BY MaxTimeAssumption
     DEF HandlerRows, ListedRows, RunNowRows, EditedRows, ArmedRows, Idle, Instants
<1>3. s.pc \in {"sweep", "edit", "unarchive"} => s.pc # "idle"
  OBVIOUS
<1> QED BY <1>0, <1>1, <1>2, <1>3 DEF CopyFits, Row

\* The copies of all invocations but one, which holds x.
LEMMA CopiesKept ==
  ASSUME TypeOK, TypeOK', NEW h \in Handlers, NEW x \in HandlerRows, CopyFits(x)',
         CopiesFit, handler' = [handler EXCEPT ![h] = x],
         clock' >= clock,
         \/ sched'.rev = sched.rev /\ sched'.period = sched.period
         \/ sched'.rev > sched.rev
  PROVE  CopiesFit'
<1>0. handler \in [Handlers -> HandlerRows]
  BY DEF TypeOK, HandlerRows
<1>1. ASSUME NEW g \in Handlers PROVE CopyFits(handler[g])'
  <2>1. CASE g = h
    <3>1. handler'[g] = x
      BY <1>0, <2>1
    <3> QED BY <3>1 DEF CopyFits
  <2>2. CASE g # h
    <3>1. handler'[g] = handler[g] /\ handler[g] \in HandlerRows
      BY <1>0, <2>2
    <3>2. PICK y \in HandlerRows : y = handler[g]
      BY <3>1
    <3>3. CopyFits(y)
      BY <3>2 DEF CopiesFit
    <3>4. CopyFits(y)'
      BY <3>3, CopyKept
    <3> QED BY <3>1, <3>2, <3>4 DEF CopyFits
  <2> QED BY <2>1, <2>2
<1> QED BY <1>1 DEF CopiesFit

\* A copy that is put down needs nothing.
LEMMA CopiesPutDown ==
  ASSUME TypeOK, TypeOK', NEW h \in Handlers, CopiesFit,
         handler' = [handler EXCEPT ![h] = Idle], clock' = clock,
         \/ sched'.rev = sched.rev /\ sched'.period = sched.period
         \/ sched'.rev > sched.rev
  PROVE  CopiesFit'
<1>1. CopyFits(Idle)' /\ Idle \in HandlerRows
  BY DEF CopyFits, Idle, HandlerRows
<1>2. clock' >= clock
  BY MaxTimeAssumption DEF TypeOK, Instants
<1> QED BY <1>1, <1>2, CopiesKept

\* A step that leaves the occurrence, the outcomes and the re-arming alone.
LEMMA QuietPace ==
  ASSUME TypeOK, TypeOK', PaceInv, CopiesFit', clock' >= clock,
         sched'.rev = sched.rev, sched'.period = sched.period, sched'.next = sched.next,
         outcomes' = outcomes, armed' = armed
  PROVE  PaceInv'
<1>1. Paced(sched.period, sched.next, clock)'
  <2>1. PICK u \in Instants : u <= clock /\ sched.next = NextAfter(sched.period, u)
    BY DEF PaceInv, Paced
  <2>2. u <= clock'
    BY <2>1, MaxTimeAssumption DEF TypeOK, Instants
  <2> QED BY <2>1, <2>2 DEF Paced
<1>2. OutcomesPast' /\ OneOutcomePerOccurrence'
  BY DEF PaceInv, OutcomesPast, OneOutcomePerOccurrence
<1>3. ArmedPast'
  BY DEF PaceInv, ArmedPast
<1> QED BY <1>1, <1>2, <1>3 DEF PaceInv

\* A sweep closes the occurrence it was due for and moves to a later one.
LEMMA SweepPace ==
  ASSUME TypeOK, TypeOK', PaceInv, NEW h \in Handlers, SweepCreates(h) \/ SweepSkips(h)
  PROVE  PaceInv'
<1> DEFINE s == handler[h]
<1>1. /\ s \in ListedRows /\ sched' \in Row
      /\ sched'.next = NextAfter(s.period, s.now)
      /\ sched'.rev = sched.rev /\ sched'.period = sched.period
  BY SweepWrites
<1>2. /\ CronEligible(s) /\ Record(s)
      /\ handler' = [handler EXCEPT ![h] = Idle] /\ clock' = clock /\ armed' = armed
  BY DEF SweepCreates, SweepSkips, SweepDone, world
<1>3. s.pc = "sweep" /\ s.rev = sched.rev /\ s.next = sched.next
  BY <1>1, <1>2 DEF CronEligible, Eligible, ListedRows
<1>4. s.now <= clock /\ s.period = sched.period /\ s.next <= s.now
  BY <1>3 DEF PaceInv, CopiesFit, CopyFits
<1>5. clock \in Nat /\ sched \in Row /\ s.now \in Instants /\ s.next \in Nat
      /\ s.period \in Periods /\ s.now \in Nat /\ Idle \in HandlerRows
  BY <1>1, MaxTimeAssumption DEF TypeOK, Instants, ListedRows, HandlerRows
<1>6. sched.next < sched'.next
  <2>1. NextAfter(s.period, s.now) > s.now
    BY <1>5, Occurs
  <2> QED BY <1>1, <1>3, <1>4, <1>5, <2>1 DEF Row
<1>7. Paced(sched.period, sched.next, clock)'
  BY <1>1, <1>2, <1>4, <1>5 DEF Paced
<1>8. CopiesFit'
  BY <1>1, <1>2, CopiesPutDown DEF PaceInv
<1> HIDE DEF s
<1>9. /\ Len(outcomes') = Len(outcomes) + 1
      /\ \A k \in DOMAIN outcomes : outcomes'[k] = outcomes[k]
      /\ outcomes'[Len(outcomes')] = [due |-> sched.next, rev |-> sched.rev]
      /\ DOMAIN outcomes' = 1..Len(outcomes') /\ DOMAIN outcomes = 1..Len(outcomes)
      /\ Len(outcomes) \in Nat
  BY <1>1, <1>2, <1>3, Recorded, LenProperties DEF TypeOK
<1>10. \A k \in DOMAIN outcomes : outcomes[k].due \in Nat /\ outcomes[k].rev \in Nat
  <2>1. \A k \in 1..Len(outcomes) : outcomes[k] \in Outcome
    BY ElementOfSeq DEF TypeOK, Outcome
  <2> QED BY <1>9, <2>1 DEF Outcome
<1>11. OutcomesPast'
  <2> SUFFICES ASSUME NEW k \in DOMAIN outcomes'
               PROVE  /\ outcomes'[k].rev <= sched'.rev
                      /\ outcomes'[k].rev = sched'.rev => outcomes'[k].due < sched'.next
    BY DEF OutcomesPast
  <2>1. CASE k \in DOMAIN outcomes
    BY <1>1, <1>5, <1>6, <1>9, <1>10, <2>1 DEF PaceInv, OutcomesPast, Row
  <2>2. CASE k = Len(outcomes')
    BY <1>1, <1>5, <1>6, <1>9, <2>2 DEF Row
  <2> QED BY <1>9, <2>1, <2>2
<1>12. OneOutcomePerOccurrence'
  <2> SUFFICES ASSUME NEW i \in DOMAIN outcomes', NEW j \in DOMAIN outcomes', i # j,
                      outcomes'[i].rev = outcomes'[j].rev
               PROVE  outcomes'[i].due # outcomes'[j].due
    BY DEF OneOutcomePerOccurrence
  <2>1. CASE i \in DOMAIN outcomes /\ j \in DOMAIN outcomes
    BY <1>9, <2>1 DEF PaceInv, OneOutcomePerOccurrence
  <2>2. ASSUME NEW k \in DOMAIN outcomes, outcomes[k].rev = sched.rev
        PROVE  outcomes[k].due # sched.next
    BY <1>5, <1>10, <2>2 DEF PaceInv, OutcomesPast, Row
  <2>3. CASE i = Len(outcomes') /\ j \in DOMAIN outcomes
    BY <1>9, <2>2, <2>3
  <2>4. CASE j = Len(outcomes') /\ i \in DOMAIN outcomes
    BY <1>9, <2>2, <2>4
  <2> QED BY <1>9, <2>1, <2>3, <2>4
<1>13. ArmedPast'
  BY <1>1, <1>2, <1>5, <1>6 DEF PaceInv, ArmedPast, TypeOK, Row, Instants
<1> QED BY <1>7, <1>8, <1>11, <1>12, <1>13 DEF PaceInv

\* An edit starts a new revision, which no outcome carries.
LEMMA EditPace ==
  ASSUME TypeOK, TypeOK', PaceInv, NEW h \in Handlers, NEW enabled \in BOOLEAN,
         NEW gate \in BOOLEAN, NEW edited \in BOOLEAN, NEW p \in Periods,
         UpdateCommit(h, enabled, gate, p, edited)
  PROVE  PaceInv'
<1> DEFINE s == handler[h]
<1>1. /\ s \in EditedRows /\ sched' \in Row
      /\ sched'.next = NextRunAt(s, enabled, p, edited)
      /\ sched'.rev = sched.rev + 1 /\ sched'.period = p
  BY EditWrites
<1>2. /\ s.pc = "edit" /\ s.rev = sched.rev /\ (~edited => p = s.period)
      /\ armed' = IF Resumes(s, enabled)
                  THEN [at |-> s.now, rev |-> sched.rev + 1] ELSE armed
      /\ handler' = [handler EXCEPT ![h] = Idle] /\ clock' = clock /\ outcomes' = outcomes
  BY DEF UpdateCommit, world
<1>3. s.now <= clock /\ s.period = sched.period
  BY <1>2 DEF PaceInv, CopiesFit, CopyFits
<1>4. /\ clock \in Nat /\ sched \in Row /\ s.now \in Instants /\ s.now \in Nat
      /\ Idle \in HandlerRows /\ armed.rev \in Nat /\ sched.rev \in Nat
  BY <1>1, MaxTimeAssumption DEF TypeOK, Instants, EditedRows, HandlerRows, Row
<1>5. /\ edited \/ Resumes(s, enabled) => sched'.next = NextAfter(p, s.now)
      /\ ~(edited \/ Resumes(s, enabled)) => sched'.next = sched.next /\ p = sched.period
  BY <1>1, <1>2, <1>3 DEF NextRunAt
<1> HIDE DEF s
<1>6. Paced(sched.period, sched.next, clock)'
  <2>1. CASE edited \/ Resumes(s, enabled)
    BY <1>1, <1>2, <1>3, <1>4, <1>5, <2>1 DEF Paced
  <2>2. CASE ~(edited \/ Resumes(s, enabled))
    BY <1>1, <1>2, <1>5, <2>2 DEF PaceInv, Paced
  <2> QED BY <2>1, <2>2
<1>7. CopiesFit'
  <2>1. CopiesFit /\ sched'.rev > sched.rev
    BY <1>1, <1>4 DEF PaceInv
  <2> QED BY <1>2, <2>1, CopiesPutDown
<1>8. OutcomesPast' /\ OneOutcomePerOccurrence'
  <2>1. \A k \in DOMAIN outcomes : outcomes[k].rev \in Nat
    <3>1. \A k \in 1..Len(outcomes) : outcomes[k] \in Outcome
      BY ElementOfSeq DEF TypeOK, Outcome
    <3>2. DOMAIN outcomes = 1..Len(outcomes)
      BY LenProperties DEF TypeOK
    <3> QED BY <3>1, <3>2 DEF Outcome
  <2> QED BY <1>1, <1>2, <1>4, <2>1 DEF PaceInv, OutcomesPast, OneOutcomePerOccurrence
<1>9. ArmedPast'
  <2>1. CASE Resumes(s, enabled)
    <3>1. NextAfter(p, s.now) > s.now /\ armed'.at = s.now /\ armed'.rev = sched'.rev
      BY <1>1, <1>2, <1>4, <2>1, Occurs
    <3> QED BY <1>1, <1>4, <1>5, <2>1, <3>1 DEF ArmedPast
  <2>2. CASE ~Resumes(s, enabled)
    BY <1>1, <1>2, <1>4, <2>2 DEF PaceInv, ArmedPast
  <2> QED BY <2>1, <2>2
<1> QED BY <1>6, <1>7, <1>8, <1>9 DEF PaceInv

\* An unarchive moves the schedule past its own instant, never back.
LEMMA RearmPace ==
  ASSUME TypeOK, TypeOK', PaceInv, NEW h \in Handlers, UnarchiveCommit(h)
  PROVE  PaceInv'
<1> DEFINE s == handler[h]
<1>1. /\ s \in ArmedRows /\ sched' \in Row /\ sched'.rev = sched.rev
      /\ sched'.period = sched.period
      /\ Rearms(s) => sched'.next = NextAfter(s.period, s.now)
      /\ ~Rearms(s) => sched' = sched /\ armed' = armed
  BY RearmWrites
<1>2. /\ s.pc = "unarchive"
      /\ Rearms(s) => armed' = [at |-> s.now, rev |-> sched.rev]
      /\ handler' = [handler EXCEPT ![h] = Idle] /\ clock' = clock /\ outcomes' = outcomes
  BY DEF UnarchiveCommit
<1>3. /\ clock \in Nat /\ clock' >= clock /\ sched \in Row /\ s.now \in Instants
      /\ s.now \in Nat /\ s.next \in Nat /\ s.period \in Periods
  BY <1>1, <1>2, MaxTimeAssumption DEF TypeOK, Instants, ArmedRows
<1>4. CopiesFit'
  BY <1>1, <1>2, CopiesPutDown DEF PaceInv
<1>5. CASE ~Rearms(s)
  <2>1. sched' = sched /\ armed' = armed
    BY <1>1, <1>5
  <2> QED BY <1>2, <1>3, <1>4, <2>1, QuietPace
<1>6. CASE Rearms(s)
  <2>1. s.next = sched.next /\ s.rev = sched.rev
    BY <1>6 DEF Rearms
  <2>2. s.now <= clock /\ s.period = sched.period /\ Paced(s.period, s.next, s.now)
    BY <1>2, <2>1 DEF PaceInv, CopiesFit, CopyFits
  <2> HIDE DEF s
  <2>3. sched.next <= sched'.next
    BY <1>1, <1>3, <1>6, <2>1, <2>2, Later
  <2>4. Paced(sched.period, sched.next, clock)'
    BY <1>1, <1>2, <1>3, <1>6, <2>2 DEF Paced
  <2>5. \A k \in DOMAIN outcomes : outcomes[k].rev \in Nat /\ outcomes[k].due \in Nat
    <3>1. \A k \in 1..Len(outcomes) : outcomes[k] \in Outcome
      BY ElementOfSeq DEF TypeOK, Outcome
    <3>2. DOMAIN outcomes = 1..Len(outcomes)
      BY LenProperties DEF TypeOK
    <3> QED BY <3>1, <3>2 DEF Outcome
  <2>6. OutcomesPast' /\ OneOutcomePerOccurrence'
    BY <1>1, <1>2, <1>3, <2>3, <2>5 DEF PaceInv, OutcomesPast, OneOutcomePerOccurrence, Row
  <2>7. ArmedPast'
    <3>1. NextAfter(s.period, s.now) > s.now
      BY <1>3, Occurs
    <3> QED BY <1>1, <1>2, <1>3, <1>6, <3>1 DEF ArmedPast, Row
  <2> QED BY <1>4, <2>4, <2>6, <2>7 DEF PaceInv
<1> QED BY <1>5, <1>6

\* What an invocation reads agrees with the row.
LEMMA ReadsFit ==
  ASSUME TypeOK, PaceInv
  PROVE  /\ sched.next <= clock => CopyFits(ListedRow)
         /\ CopyFits(RunNowRow) /\ CopyFits(EditedRow) /\ CopyFits(ArmedRow)
<1>1. sched \in Row /\ clock \in Nat
  BY MaxTimeAssumption DEF TypeOK, Instants
<1> QED
  BY <1>1 DEF PaceInv, CopyFits, ListedRow, RunNowRow, EditedRow, ArmedRow, Row

\* Every step keeps the pace.
LEMMA PaceStep == TypeOK /\ TypeOK' /\ PaceInv /\ [Next]_vars => PaceInv'
<1> SUFFICES ASSUME TypeOK, TypeOK', PaceInv, [Next]_vars PROVE PaceInv'
  OBVIOUS
<1>0. /\ sched \in Row /\ clock \in Nat /\ handler \in [Handlers -> HandlerRows]
      /\ Idle \in HandlerRows
  BY MaxTimeAssumption DEF TypeOK, Instants, HandlerRows
<1> DEFINE Still == /\ sched'.rev = sched.rev /\ sched'.period = sched.period
                    /\ sched'.next = sched.next /\ clock' = clock
                    /\ outcomes' = outcomes /\ armed' = armed
\* A read: one more copy of the row as it is.
<1>1. ASSUME NEW h \in Handlers, NEW x \in HandlerRows, CopyFits(x),
             sched' = sched, clock' = clock, outcomes' = outcomes, armed' = armed,
             handler' = [handler EXCEPT ![h] = x]
      PROVE  PaceInv'
  <2>1. CopyFits(x)'
    BY <1>1 DEF CopyFits
  <2>2. /\ CopiesFit /\ clock' >= clock
        /\ sched'.rev = sched.rev /\ sched'.period = sched.period
    BY <1>0, <1>1 DEF PaceInv
  <2>3. CopiesFit'
    BY <1>1, <2>1, <2>2, CopiesKept
  <2> QED BY <1>0, <1>1, <2>2, <2>3, QuietPace
<1>2. ASSUME NEW h \in Handlers, SweepList(h) PROVE PaceInv'
  <2>1. CopyFits(ListedRow) /\ ListedRow \in HandlerRows
    BY <1>2, ReadsFit, ReadsType DEF SweepList
  <2> QED BY <1>1, <1>2, <2>1 DEF SweepList, world, history
<1>3. ASSUME NEW h \in Handlers, RunNowRead(h) \/ RunNowRetries(h) PROVE PaceInv'
  <2>1. CopyFits(RunNowRow) /\ RunNowRow \in HandlerRows
    BY ReadsFit, ReadsType
  <2> QED BY <1>1, <1>3, <2>1 DEF RunNowRead, RunNowRetries, world, history
<1>4. ASSUME NEW h \in Handlers, UpdateRead(h) PROVE PaceInv'
  <2>1. CopyFits(EditedRow) /\ EditedRow \in HandlerRows
    BY ReadsFit, ReadsType
  <2> QED BY <1>1, <1>4, <2>1 DEF UpdateRead, world, history
<1>5. ASSUME NEW h \in Handlers, UnarchiveRead(h) PROVE PaceInv'
  <2>1. CopyFits(ArmedRow) /\ ArmedRow \in HandlerRows
    BY ReadsFit, ReadsType
  <2> QED BY <1>1, <1>5, <2>1 DEF UnarchiveRead, world, history
<1>6. ASSUME NEW h \in Handlers, SweepMisses(h) \/ RequestFails(h) PROVE PaceInv'
  <2>1. CopyFits(Idle)
    BY DEF CopyFits, Idle
  <2> QED BY <1>0, <1>1, <1>6, <2>1 DEF SweepMisses, RequestFails, SweepDone, world, history
<1>7. ASSUME NEW h \in Handlers, SweepCreates(h) \/ SweepSkips(h) PROVE PaceInv'
  BY <1>7, SweepPace
<1>8. ASSUME NEW h \in Handlers, RunNowCreates(h) PROVE PaceInv'
  <2>1. Still
    BY <1>0, <1>8 DEF RunNowCreates, Row, world, history
  <2>2. handler' = [handler EXCEPT ![h] = Idle]
    BY <1>8 DEF RunNowCreates
  <2>3. CopiesFit'
    BY <2>1, <2>2, CopiesPutDown DEF PaceInv
  <2> QED BY <1>0, <2>1, <2>3, QuietPace
<1>9. ASSUME NEW h \in Handlers, NEW enabled \in BOOLEAN, NEW gate \in BOOLEAN,
             NEW edited \in BOOLEAN, NEW p \in Periods, UpdateCommit(h, enabled, gate, p, edited)
      PROVE  PaceInv'
  BY <1>9, EditPace
<1>10. ASSUME NEW h \in Handlers, UnarchiveCommit(h) PROVE PaceInv'
  BY <1>10, RearmPace
\* A step that leaves the copies alone, but for what they know of the start.
<1>11. ASSUME Still \/ (UNCHANGED <<sched, outcomes, armed>> /\ clock' = clock + 1),
              \A g \in Handlers : handler'[g] = handler[g]
                \/ /\ handler[g].pc \in {"sweep", "runNow"}
                   /\ handler'[g] = [handler[g] EXCEPT !.start = FALSE]
       PROVE  PaceInv'
  <2>1. clock' >= clock /\ sched'.rev = sched.rev /\ sched'.period = sched.period
    BY <1>0, <1>11
  <2>2. ASSUME NEW g \in Handlers PROVE CopyFits(handler[g])'
    <3>1. PICK y \in HandlerRows : y = handler[g]
      BY <1>0
    <3>2. CopyFits(y)
      BY <3>1 DEF PaceInv, CopiesFit
    <3>3. CopyFits(y)'
      BY <2>1, <3>2, CopyKept
    <3>4. CASE handler'[g] = y
      BY <3>3, <3>4 DEF CopyFits
    <3>5. CASE y.pc \in {"sweep", "runNow"} /\ handler'[g] = [y EXCEPT !.start = FALSE]
      <4>1. y \in ListedRows \/ y \in RunNowRows
        BY <3>5, PcTells
      <4>2. /\ handler'[g].pc = y.pc /\ handler'[g].rev = y.rev
            /\ y.pc = "sweep" => /\ handler'[g].now = y.now /\ handler'[g].period = y.period
                                 /\ handler'[g].next = y.next
        BY <3>5, <4>1 DEF ListedRows, RunNowRows
      <4> QED BY <3>3, <3>5, <4>2 DEF CopyFits
    <3> QED BY <1>11, <3>1, <3>4, <3>5
  <2> QED BY <1>11, <2>1, <2>2, QuietPace DEF CopiesFit
<1>12. CASE DeleteSchedule
  <2>1. Still /\ handler' = handler
    BY <1>0, <1>12 DEF DeleteSchedule, Row, world, history
  <2> QED BY <1>11, <2>1
<1>13. ASSUME ArchiveProject \/ WorkflowEdit \/ UNCHANGED vars
              \/ \E k \in DOMAIN issues : MoveIssue(k)
       PROVE  PaceInv'
  <2>1. Still
    BY <1>13 DEF ArchiveProject, WorkflowEdit, MoveIssue, vars, world, history
  <2>2. CASE WorkflowEdit
    BY <1>11, <2>1, <2>2 DEF WorkflowEdit
  <2>3. CASE ~WorkflowEdit
    <3>1. handler' = handler
      BY <1>13, <2>3 DEF ArchiveProject, MoveIssue, vars, history
    <3> QED BY <1>11, <2>1, <3>1
  <2> QED BY <2>2, <2>3
<1>14. CASE Tick
  <2>1. UNCHANGED <<sched, outcomes, armed>> /\ clock' = clock + 1 /\ handler' = handler
    BY <1>14 DEF Tick, history
  <2> QED BY <1>11, <2>1
<1> QED
  BY <1>2, <1>3, <1>4, <1>5, <1>6, <1>7, <1>8, <1>9, <1>10, <1>12, <1>13, <1>14
     DEF Next, SweepStep

\* The pace is kept at first.
LEMMA PaceInit == Init => PaceInv
<1> SUFFICES ASSUME Init PROVE PaceInv
  OBVIOUS
<1>1. PICK p \in Periods : sched.period = p /\ sched.next = NextAfter(p, 0)
  BY DEF Init
<1>2. 0 \in Instants /\ sched.rev = 1 /\ clock = 0 /\ armed = [at |-> 0, rev |-> 1]
  BY MaxTimeAssumption DEF Init, Instants
<1>3. NextAfter(p, 0) > 0
  BY <1>2, Occurs
<1>4. outcomes = <<>> /\ handler = [h \in Handlers |-> Idle]
  BY DEF Init
<1>5. CopiesFit
  BY <1>4 DEF CopiesFit, CopyFits, Idle
<1>6. Paced(sched.period, sched.next, clock)
  BY <1>1, <1>2 DEF Paced
<1>7. ArmedPast
  BY <1>1, <1>2, <1>3 DEF ArmedPast
<1> QED BY <1>4, <1>5, <1>6, <1>7 DEF PaceInv, OutcomesPast, OneOutcomePerOccurrence

\* Within one definition an occurrence is dealt with once: no sweep, however late,
\* files or skips it again (executionPredicates.eligible, next_run_at moved in the batch).
THEOREM OccurrencesOnce == Spec => []OneOutcomePerOccurrence
<1>1. PaceInv => OneOutcomePerOccurrence
  BY DEF PaceInv
<1> QED BY <1>1, TypeInit, TypeStep, PaceInit, PaceStep, PTL DEF Spec

\* After a resume or an unarchive the cron acts on later occurrences only
\* (updateSchedule's next_run_at, rearmScheduleQueries).
THEOREM SpansAreNotMadeUp == Spec => NoBackfill
<1> DEFINE Late == Len(outcomes') > Len(outcomes) =>
                     LET o == outcomes'[Len(outcomes')] IN o.rev = armed.rev => o.due > armed.at
<1>1. ASSUME TypeOK, PaceInv, [Next]_vars PROVE [Late]_vars
  <2>1. ASSUME NEW h \in Handlers, SweepCreates(h) \/ SweepSkips(h) PROVE Late
    <3>1. handler[h] \in ListedRows /\ CronEligible(handler[h]) /\ Record(handler[h])
      BY <1>1, <2>1, SweepWrites DEF SweepCreates, SweepSkips
    <3>2. handler[h].next = sched.next
      BY <3>1 DEF CronEligible
    <3>3. outcomes'[Len(outcomes')] = [due |-> sched.next, rev |-> sched.rev]
      BY <1>1, <3>1, <3>2, Recorded
    <3>4. sched \in Row /\ armed.at \in Nat
      BY <1>1, MaxTimeAssumption DEF TypeOK, Instants
    <3> QED BY <1>1, <3>3, <3>4 DEF PaceInv, ArmedPast, Row
  <2>2. ASSUME outcomes' = outcomes PROVE Late
    <3>1. Len(outcomes) \in Nat
      BY <1>1, LenProperties DEF TypeOK
    <3> QED BY <2>2, <3>1
  <2>3. ASSUME NEW h \in Handlers,
               \/ SweepList(h) \/ SweepMisses(h) \/ RunNowRead(h) \/ RunNowCreates(h)
               \/ RunNowRetries(h) \/ UpdateRead(h) \/ UnarchiveRead(h) \/ UnarchiveCommit(h)
               \/ RequestFails(h)
               \/ \E enabled, gate, edited \in BOOLEAN, p \in Periods :
                    UpdateCommit(h, enabled, gate, p, edited)
        PROVE  outcomes' = outcomes
    BY <2>3 DEF SweepList, SweepMisses, RunNowRead, RunNowCreates, RunNowRetries, UpdateRead,
                UnarchiveRead, UnarchiveCommit, RequestFails, UpdateCommit, history
  <2>4. ASSUME DeleteSchedule \/ ArchiveProject \/ Tick \/ WorkflowEdit
               \/ (\E k \in DOMAIN issues : MoveIssue(k)) \/ UNCHANGED vars
        PROVE  outcomes' = outcomes
    BY <2>4 DEF DeleteSchedule, ArchiveProject, Tick, WorkflowEdit, MoveIssue, vars, history
  <2> QED BY <1>1, <2>1, <2>2, <2>3, <2>4 DEF Next, SweepStep
<1> QED BY <1>1, TypeInit, TypeStep, PaceInit, PaceStep, PTL DEF Spec, NoBackfill

-----------------------------------------------------------------------------
(* The board                                                                *)

Families == {"schedules", "prompt", "prompts", "skill", "uploads", "gate", "graph",
             "movers", "claims", "links", "chains", "items", "seats"}

boardVars == <<family, vars, contextVars, artifactVars, transferVars, linkVars, flowVars>>

\* What the families of the run leave out only narrows a part: on the board each
\* part starts as it may by itself, and takes steps of its own or none, so all
\* that is proved of the part holds there.
THEOREM BoardComposes ==
  MCSpec => Spec /\ ContextSpec /\ ArtifactsSpec /\ TransferSpec /\ LinksSpec /\ FlowsSpec
<1>1. MCInit => Init /\ ContextInit /\ ArtifactsInit /\ TransferInit /\ LinksInit /\ FlowsInit
  BY DEF MCInit
<1>2. ASSUME [MCNext]_boardVars
      PROVE  /\ [Next]_vars /\ [ContextNext]_contextVars /\ [ArtifactsNext]_artifactVars
             /\ [TransferNext]_transferVars /\ [LinksNext]_linkVars /\ [FlowsNext]_flowVars
  <2>1. CASE UNCHANGED boardVars
    BY <2>1 DEF boardVars
  <2>2. CASE MCNext
    <3>1. SavingNext => FlowsNext
      BY DEF FlowsNext
    <3> QED BY <2>2, <3>1 DEF MCNext
  <2> QED BY <1>2, <2>1, <2>2
<1>3. [MCNext]_boardVars
        => /\ [Next]_vars /\ [ContextNext]_contextVars /\ [ArtifactsNext]_artifactVars
           /\ [TransferNext]_transferVars /\ [LinksNext]_linkVars /\ [FlowsNext]_flowVars
  BY <1>2
<1> QED BY <1>1, <1>3, PTL
    DEF MCSpec, boardVars, Spec, ContextSpec, ArtifactsSpec, TransferSpec, LinksSpec, FlowsSpec

\* Every table of the board keeps to the shapes of its columns.
THEOREM BoardTypeCorrect == MCSpec => []TypesOK
<1>1. MCInit => family \in Families
  BY DEF MCInit, Families
<1>2. family \in Families /\ [MCNext]_boardVars => (family \in Families)'
  BY DEF MCNext, boardVars
<1>3. family \in Families /\ TypeOK /\ ContextTypeOK /\ ArtifactsTypeOK /\ TransferTypeOK
        /\ LinksTypeOK /\ FlowsTypeOK => TypesOK
  <2> SUFFICES ASSUME family \in Families, TypeOK, ContextTypeOK, ArtifactsTypeOK,
                      TransferTypeOK, LinksTypeOK, FlowsTypeOK
               PROVE  TypesOK
    OBVIOUS
  <2>1. CASE family = "schedules"
    BY <2>1 DEF TypesOK
  <2>2. CASE family \in {"prompt", "prompts", "skill"}
    BY <2>2 DEF TypesOK
  <2>3. CASE family \in {"uploads", "gate", "graph"}
    BY <2>3 DEF TypesOK
  <2>4. CASE family \in {"movers", "claims"}
    BY <2>4 DEF TypesOK
  <2>5. CASE family = "links"
    BY <2>5 DEF TypesOK
  <2>6. CASE family \in {"chains", "items", "seats"}
    BY <2>6 DEF TypesOK
  <2> QED BY <2>1, <2>2, <2>3, <2>4, <2>5, <2>6 DEF Families
<1> QED BY <1>1, <1>2, <1>3, BoardComposes, TypeCorrect, ContextTypeCorrect, ArtifactsTypeCorrect,
           TransferTypeCorrect, LinksTypeCorrect, FlowsTypeCorrect, PTL
    DEF MCSpec, boardVars

\* Whatever the rest of the board does, an occurrence has one outcome and a span
\* nobody was to act on none, no text is lost, versions stand, a gated move has its
\* witness, an active run keeps its issue, a reviewed move is the one that is made,
\* links have no cycle and a workflow's own chain fits.
THEOREM BoardIsSafe ==
  MCSpec => /\ [](/\ OneOutcomePerOccurrence /\ VersionsStand /\ ActiveRunsStay
                  /\ LinksAcyclic /\ OwnChainsFit)
            /\ NoBackfill /\ NoLostUpdate /\ WitnessedMovesAreGated /\ MovesAsReviewed
BY BoardComposes, OccurrencesOnce, VersionsAlwaysStand, RunsKeepTheirIssue, LinksStayAcyclic,
   OwnChainsAlwaysFit, SpansAreNotMadeUp, NoUpdateIsLost, WitnessesGate, ReviewsAreHonoured, PTL
=============================================================================
