----------------------------- MODULE Schedules -----------------------------
(***************************************************************************)
(* One scheduled task of one project: schedule-sweep.ts (the cron's sweep  *)
(* and the guarded batch it shares with Run now), api/schedules.ts (edit,  *)
(* delete, Run now, re-arming) and the archive and unarchive of            *)
(* api/projects.ts.                                                        *)
(*                                                                         *)
(* The batch of buildScheduleExecution is one step; what a sweep, an edit, *)
(* a Run now or an unarchive read before its batch is kept in its own      *)
(* record and may be stale when the batch runs.  Instants are naturals; a  *)
(* recurrence (cron and timezone) is a period, NextAfter(p, t) its first   *)
(* occurrence after t.  Of the effective start state, pinned or the         *)
(* workflow's initial one, only matters whether its id, name and category  *)
(* are still those a handler read: `start' in its record.  Titles are left *)
(* out but for the ordinal they show, {{n}}.  MaxTime, MaxIssues and       *)
(* MaxRevision bound the clock, the instances and the edits.               *)
(***************************************************************************)
EXTENDS Integers, Sequences

CONSTANTS Handlers,      \* invocations that overlap: sweeps and requests
          Periods,       \* recurrences
          NextAfter(_, _),
          MaxTime, MaxIssues, MaxRevision

Instants == 0..MaxTime

ASSUME MaxTimeAssumption == MaxTime \in Nat

(* nextOccurrenceFromCron: strictly later, and monotone in the instant. *)
ASSUME OccurrenceAssumption ==
    \A p \in Periods : \A t \in Instants :
        /\ NextAfter(p, t) \in Nat
        /\ NextAfter(p, t) > t
        /\ \A u \in Instants : u <= t => NextAfter(p, u) <= NextAfter(p, t)

VARIABLES
    clock,
    archived,   \* project.archived_at is set
    sched,      \* the scheduled_task row
    issues,     \* the instances, oldest first: ordinal in the title, still open
    outcomes,   \* history: what the cron did with which occurrence
    armed,      \* history: the instant and revision of the last resume or unarchive
    handler     \* what each invocation in flight read

world == <<clock, archived>>
history == <<outcomes, armed>>
vars == <<world, sched, issues, history, handler>>

Row == [there : BOOLEAN, enabled : BOOLEAN, gate : BOOLEAN, period : Periods,
        next : Nat, rev : Nat, count : Nat]
Idle == [pc |-> "idle"]

-----------------------------------------------------------------------------
(* A new schedule either comes with its first instance (createIssue) or is *)
(* a paused one that never ran (an installed package).                     *)
Init ==
    /\ clock = 0 /\ archived = FALSE
    /\ \E initial \in BOOLEAN, p \in Periods, g \in BOOLEAN :
        /\ sched = [there |-> TRUE, enabled |-> initial, gate |-> g, period |-> p,
                    next |-> NextAfter(p, 0), rev |-> 1,
                    count |-> IF initial THEN 1 ELSE 0]
        /\ issues = IF initial THEN <<[n |-> 1, open |-> TRUE]>> ELSE <<>>
    /\ outcomes = <<>>
    /\ armed = [at |-> 0, rev |-> 1]
    /\ handler = [h \in Handlers |-> Idle]

(* What a handler keeps of the row: scheduleExecQuery, updateSchedule and   *)
(* unarchiveProject select what they use.                                  *)
ListedRow == [pc |-> "sweep", rev |-> sched.rev, start |-> TRUE, count |-> sched.count,
              next |-> sched.next, period |-> sched.period, now |-> clock]
RunNowRow == [pc |-> "runNow", rev |-> sched.rev, start |-> TRUE, count |-> sched.count]
EditedRow == [pc |-> "edit", rev |-> sched.rev, enabled |-> sched.enabled,
              period |-> sched.period, now |-> clock]
ArmedRow == [pc |-> "unarchive", rev |-> sched.rev, armable |-> sched.there /\ sched.enabled,
             next |-> sched.next, period |-> sched.period, now |-> clock]

-----------------------------------------------------------------------------
(* The guarded batch *)

(* executionPredicates.eligible, without the cron's part *)
Eligible(s) ==
    /\ sched.there /\ ~archived
    /\ sched.rev = s.rev
    /\ s.start

CronEligible_AnyOccurrence(s) == Eligible(s) /\ sched.enabled

CronEligible(s) == Eligible(s) /\ sched.enabled /\ sched.next = s.next

Blocked == sched.gate /\ \E k \in DOMAIN issues : issues[k].open

CountMatches(s) == sched.count = s.count

(* The instance is titled with the ordinal of the row the caller read. *)
CreateInstance(s) ==
    /\ Len(issues) < MaxIssues
    /\ issues' = Append(issues, [n |-> s.count + 1, open |-> TRUE])

Record(s) ==
    outcomes' = Append(outcomes, [due |-> s.next, rev |-> sched.rev])

-----------------------------------------------------------------------------
(* The sweep *)

SweepList(h) ==
    /\ handler[h].pc = "idle"
    /\ sched.there /\ sched.enabled /\ sched.next <= clock /\ ~archived
    /\ handler' = [handler EXCEPT ![h] = ListedRow]
    /\ UNCHANGED <<world, sched, issues, history>>

SweepDone(h) ==
    /\ handler' = [handler EXCEPT ![h] = Idle]
    /\ UNCHANGED <<world, armed>>

SweepCreates(h) ==
    LET s == handler[h] IN
    /\ s.pc = "sweep"
    /\ CronEligible(s) /\ ~Blocked /\ CountMatches(s)
    /\ CreateInstance(s)
    /\ sched' = [sched EXCEPT !.next = NextAfter(s.period, s.now), !.count = @ + 1]
    /\ Record(s)
    /\ SweepDone(h)

SweepSkips(h) ==
    LET s == handler[h] IN
    /\ s.pc = "sweep"
    /\ CronEligible(s) /\ Blocked
    /\ sched' = [sched EXCEPT !.next = NextAfter(s.period, s.now)]
    /\ Record(s)
    /\ UNCHANGED issues
    /\ SweepDone(h)

(* The receipt says the row has moved on, or the sweep is evicted. *)
SweepMisses(h) ==
    /\ handler[h].pc = "sweep"
    /\ UNCHANGED <<sched, issues, outcomes>>
    /\ SweepDone(h)

-----------------------------------------------------------------------------
(* Run now *)

RunNowRead(h) ==
    /\ handler[h].pc = "idle"
    /\ sched.there /\ ~archived
    /\ handler' = [handler EXCEPT ![h] = RunNowRow]
    /\ UNCHANGED <<world, sched, issues, history>>

RunNowCreates(h) ==
    LET s == handler[h] IN
    /\ s.pc = "runNow"
    /\ Eligible(s) /\ ~Blocked /\ CountMatches(s)
    /\ CreateInstance(s)
    /\ sched' = [sched EXCEPT !.count = @ + 1]
    /\ handler' = [handler EXCEPT ![h] = Idle]
    /\ UNCHANGED <<world, history>>

(* count_changed alone: read again, but only if definition and start are   *)
(* those the caller saw first.                                             *)
RunNowRetries(h) ==
    LET s == handler[h] IN
    /\ s.pc = "runNow"
    /\ Eligible(s) /\ ~Blocked /\ ~CountMatches(s)
    /\ handler' = [handler EXCEPT ![h] = RunNowRow]
    /\ UNCHANGED <<world, sched, issues, history>>

-----------------------------------------------------------------------------
(* Editing, deleting, archiving *)

(* A guard of the batch failed (409), or the request's isolate is evicted. *)
RequestFails(h) ==
    /\ handler[h].pc \in {"runNow", "edit", "unarchive"}
    /\ handler' = [handler EXCEPT ![h] = Idle]
    /\ UNCHANGED <<world, sched, issues, history>>

UpdateRead(h) ==
    /\ handler[h].pc = "idle"
    /\ sched.there /\ ~archived
    /\ handler' = [handler EXCEPT ![h] = EditedRow]
    /\ UNCHANGED <<world, sched, issues, history>>

Resumes(s, enabled) == enabled /\ ~s.enabled

NextRunAt_KeptOnResume(s, enabled, period, recurrenceEdited) ==
    IF recurrenceEdited THEN NextAfter(period, s.now) ELSE sched.next

(* next_run_at is only written for a new recurrence or a resume, computed  *)
(* from the instant of the read.                                           *)
NextRunAt(s, enabled, period, recurrenceEdited) ==
    IF recurrenceEdited \/ Resumes(s, enabled) THEN NextAfter(period, s.now) ELSE sched.next

(* Fields the body leaves out are written back as read. *)
UpdateCommit(h, enabled, gate, period, recurrenceEdited) ==
    LET s == handler[h] IN
    /\ s.pc = "edit"
    /\ sched.there /\ ~archived /\ sched.rev = s.rev
    /\ sched.rev < MaxRevision
    /\ ~recurrenceEdited => period = s.period
    /\ sched' = [sched EXCEPT !.enabled = enabled, !.gate = gate, !.period = period,
                              !.rev = @ + 1,
                              !.next = NextRunAt(s, enabled, period, recurrenceEdited)]
    /\ armed' = IF Resumes(s, enabled)
              THEN [at |-> s.now, rev |-> sched.rev + 1] ELSE armed
    /\ handler' = [handler EXCEPT ![h] = Idle]
    /\ UNCHANGED <<world, issues, outcomes>>

DeleteSchedule ==
    /\ sched.there /\ ~archived
    /\ sched' = [sched EXCEPT !.there = FALSE]
    /\ UNCHANGED <<world, issues, history, handler>>

ArchiveProject ==
    /\ ~archived
    /\ archived' = TRUE
    /\ UNCHANGED <<clock, sched, issues, history, handler>>

UnarchiveRead(h) ==
    /\ handler[h].pc = "idle"
    /\ archived
    /\ handler' = [handler EXCEPT ![h] = ArmedRow]
    /\ UNCHANGED <<world, sched, issues, history>>

(* rearmScheduleQueries: an enabled schedule is moved past the archived     *)
(* span, unless the row is no longer the one that was read.                *)
Rearms(s) ==
    /\ sched.there /\ s.armable /\ sched.enabled
    /\ sched.next = s.next /\ sched.rev = s.rev

UnarchiveCommit(h) ==
    LET s == handler[h] IN
    /\ s.pc = "unarchive"
    /\ archived' = FALSE
    /\ IF Rearms(s)
       THEN /\ sched' = [sched EXCEPT !.next = NextAfter(s.period, s.now)]
            /\ armed' = [at |-> s.now, rev |-> sched.rev]
       ELSE UNCHANGED <<sched, armed>>
    /\ handler' = [handler EXCEPT ![h] = Idle]
    /\ UNCHANGED <<clock, issues, outcomes>>

-----------------------------------------------------------------------------
(* The rest of the system: time, people moving instances, workflow edits *)

Tick == clock < MaxTime /\ clock' = clock + 1
        /\ UNCHANGED <<archived, sched, issues, history, handler>>

MoveIssue(k) ==
    /\ issues' = [issues EXCEPT ![k].open = ~@]
    /\ UNCHANGED <<world, sched, history, handler>>

(* A change of the start state: what handlers read of it is stale. *)
WorkflowEdit ==
    /\ handler' = [h \in Handlers |-> IF handler[h].pc \in {"sweep", "runNow"}
                                      THEN [handler[h] EXCEPT !.start = FALSE]
                                      ELSE handler[h]]
    /\ UNCHANGED <<world, sched, issues, history>>

SweepStep(h) == SweepCreates(h) \/ SweepSkips(h) \/ SweepMisses(h)

Next ==
    \/ \E h \in Handlers :
         \/ SweepList(h) \/ SweepStep(h)
         \/ RunNowRead(h) \/ RunNowCreates(h) \/ RunNowRetries(h)
         \/ UpdateRead(h)
         \/ \E enabled, gate, edited \in BOOLEAN, p \in Periods :
              UpdateCommit(h, enabled, gate, p, edited)
         \/ UnarchiveRead(h) \/ UnarchiveCommit(h)
         \/ RequestFails(h)
    \/ DeleteSchedule \/ ArchiveProject \/ Tick \/ WorkflowEdit
    \/ \E k \in DOMAIN issues : MoveIssue(k)

Spec == Init /\ [][Next]_vars

-----------------------------------------------------------------------------
(* Properties *)

ListedRows == [pc : {"sweep"}, rev : Nat, start : BOOLEAN, count : Nat,
               next : Nat, period : Periods, now : Instants]
RunNowRows == [pc : {"runNow"}, rev : Nat, start : BOOLEAN, count : Nat]
EditedRows == [pc : {"edit"}, rev : Nat, enabled : BOOLEAN, period : Periods, now : Instants]
ArmedRows == [pc : {"unarchive"}, rev : Nat, armable : BOOLEAN,
              next : Nat, period : Periods, now : Instants]

TypeOK ==
    /\ clock \in Instants /\ archived \in BOOLEAN
    /\ sched \in Row
    /\ issues \in Seq([n : Nat, open : BOOLEAN])
    /\ outcomes \in Seq([due : Nat, rev : Nat])
    /\ armed \in [at : Instants, rev : Nat]
    /\ handler \in [Handlers -> ListedRows \cup RunNowRows \cup EditedRows
                                \cup ArmedRows \cup {Idle}]

(* The k-th instance of a schedule is titled number k and run_count is the *)
(* number of instances, however sweeps and Run now requests interleave: no *)
(* two instances share an ordinal and none is skipped (templateVars with   *)
(* run_count + 1; SPEC.md of scheduled_tasks, "run_count").                *)
OrdinalsAreDense ==
    /\ sched.count = Len(issues)
    /\ \A k \in DOMAIN issues : issues[k].n = k

(* Within one definition of the schedule an occurrence has one outcome: it *)
(* creates one instance or is skipped, and a skip is never retried.        *)
OneOutcomePerOccurrence ==
    \A i, j \in DOMAIN outcomes :
        i # j => \/ outcomes[i].rev # outcomes[j].rev
                 \/ outcomes[i].due # outcomes[j].due

(* A paused or archived span is not made up for: the cron acts on no       *)
(* occurrence that was due before the schedule was resumed or its project  *)
(* unarchived, while the definition it was re-armed with stands.           *)
NoBackfill ==
    [][Len(outcomes') > Len(outcomes) =>
         LET o == outcomes'[Len(outcomes')] IN o.rev = armed.rev => o.due > armed.at]_vars
=============================================================================
