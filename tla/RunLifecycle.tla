--------------------------- MODULE RunLifecycle ---------------------------
(***************************************************************************)
(* The life of an agent run: supervisor/engine.ts together with the poll,  *)
(* log and finish handlers of api/runner-protocol.ts, the transition and   *)
(* resume of api/issues.ts and the pause and kill switch that cancel       *)
(* assignments.  Every server handler is stateless: it reads rows of the   *)
(* shared D1 database, keeps what it read in local variables, and writes   *)
(* back later with guarded statements.  One D1 batch is one atomic step;   *)
(* whatever a handler read before it is a stale snapshot, kept here in the *)
(* record of the process (`pass', `poll', `ender', `stall', `op').         *)
(*                                                                         *)
(* Time is abstract: a hold that may have run out, a daemon that may have  *)
(* been silent for five minutes and a key that may have expired are steps  *)
(* that may happen at any moment.  Projects are private (not shared), and  *)
(* the quota, the caps and the attempt limit are fixed.                    *)
(***************************************************************************)
EXTENDS Naturals, FiniteSets

CONSTANTS
  Issues, Runs, Runners, \* rows; a member of Runs is one id from newId('arun')
  Managed,               \* runners launched in the pass; the others poll
  States, ActiveStates,  \* workflow states and those of category 'active'
  Edges,                 \* workflow transitions: pairs of states
  Targets,               \* Targets[i]: runners that routing allows for issue i
  MaxConcurrent,         \* runner.max_concurrent
  UseRoster,             \* quota type: TRUE state_roster, FALSE global_cap
  GlobalCap, RosterLimit, AttemptLimit,
  Passes, Polls, Enders, \* concurrent dispatch passes, polls and endRun calls
  Sweepers, Operators,   \* launch-stall sweeps, pause / kill-switch requests
  Events,                \* which outside events may happen, see Event below
  MaxCrashes,            \* bound on daemon crashes
  None                   \* SQL NULL

\* "evict": a Worker stops between two statements; "drop": an HTTP request or
\* response is lost; "away": a daemon is silent for five minutes; "env":
\* resolving env items throws after the key is minted; "overdue", "expire": a
\* run passes max_run_minutes, a key its expiry; "person", "cancel": people
\* move or resume issues, cancel runs.
Event == {"evict", "drop", "away", "env", "overdue", "expire", "person", "cancel"}
Active == {"assigned", "launching", "running"}
Delivered == {"launching", "running"}
Ended == {"completed", "failed", "timed_out", "canceled"}
Status == {"unused"} \cup Active \cup Ended
Outcome == {"none", "advanced", "interrupted", "stalled"}
Local == Runners \ Managed

ASSUME SetsAssumption ==
  /\ IsFiniteSet(Runs)
  /\ Managed \subseteq Runners /\ ActiveStates \subseteq States
  /\ Edges \subseteq States \X States /\ Events \subseteq Event
  /\ None \notin Issues \cup Runs \cup Runners \cup States
ASSUME LimitsAssumption ==
  /\ Targets \in [Issues -> SUBSET Runners]
  /\ MaxConcurrent \in [Runners -> Nat] /\ RosterLimit \in [States -> Nat]
  /\ UseRoster \in BOOLEAN /\ GlobalCap \in Nat /\ MaxCrashes \in Nat
  /\ AttemptLimit \in Nat \ {0}

VARIABLES
  state, attempts, parked,           \* issue: state_id, attempt_count, needs_attention
  enabled,                           \* supervisor_settings.enabled
  paused, held, away,                \* runner: status, backoff_until, last_seen_at
  status, started, outcome, key,     \* agent_run; key: the api_key row of the run
  issueOf, runnerOf, startState,     \* agent_run columns fixed by the claim
  moved,                             \* an issue.transitioned event by the run's key exists
  handouts,                          \* history: how often the run's secret was handed out
  table, closing,                    \* daemon: runs in the RunTable, live and settled
  orphans, declined, crashes,        \* daemon-state.json of a dead life, refused assignments
  pass, poll, ender, stall, op       \* handlers in flight

issueVars == <<state, attempts, parked>>
fleetVars == <<enabled, paused, held, away>>
claimVars == <<issueOf, runnerOf, startState>>
runVars == <<status, started, outcome, key, moved, handouts>>
daemonVars == <<table, closing, orphans, declined, crashes>>
vars == <<issueVars, fleetVars, claimVars, runVars, daemonVars,
          pass, poll, ender, stall, op>>

IdlePass == [pc |-> "idle", todo |-> {}, ok |-> {}, run |-> None]
IdlePoll == [pc |-> "idle", on |-> None, active |-> FALSE, cut |-> FALSE, owned |-> {},
             declined |-> {}, released |-> {}, lost |-> {}, assigned |-> {}, out |-> {},
             cancels |-> {}, run |-> None]
IdleEnder == [pc |-> "idle", run |-> None, to |-> "failed", outcome |-> "none", by |-> None]
IdleOp == [pc |-> "idle", scope |-> {}, todo |-> {}]

Init ==
  /\ state \in [Issues -> ActiveStates]
  /\ attempts = [i \in Issues |-> 0] /\ parked = [i \in Issues |-> FALSE]
  /\ enabled = TRUE
  /\ paused = [x \in Runners |-> FALSE] /\ held = [x \in Runners |-> FALSE]
  /\ away = [x \in Runners |-> FALSE]
  /\ status = [r \in Runs |-> "unused"] /\ started = [r \in Runs |-> FALSE]
  /\ outcome = [r \in Runs |-> "none"] /\ key = [r \in Runs |-> "none"]
  /\ issueOf = [r \in Runs |-> None] /\ runnerOf = [r \in Runs |-> None]
  /\ startState = [r \in Runs |-> None]
  /\ moved = [r \in Runs |-> FALSE] /\ handouts = [r \in Runs |-> 0]
  /\ table = [x \in Runners |-> {}] /\ closing = [x \in Runners |-> {}]
  /\ orphans = [x \in Runners |-> {}] /\ declined = [x \in Runners |-> {}]
  /\ crashes = 0
  /\ pass = [p \in Passes |-> IdlePass] /\ poll = [q \in Polls |-> IdlePoll]
  /\ ender = [e \in Enders |-> IdleEnder]
  /\ stall = [w \in Sweepers |-> None] /\ op = [o \in Operators |-> IdleOp]

ActiveRuns == {r \in Runs : status[r] \in Active}
ActiveOn(x) == {r \in ActiveRuns : runnerOf[r] = x}
QuotaRuns_ByCurrentState(s) ==
  IF UseRoster THEN {r \in ActiveRuns : state[issueOf[r]] = s} ELSE ActiveRuns
QuotaRuns(s) == IF UseRoster THEN {r \in ActiveRuns : startState[r] = s} ELSE ActiveRuns
QuotaLimit(s) == IF UseRoster THEN RosterLimit[s] ELSE GlobalCap
Revoked(r) == [key EXCEPT ![r] = IF @ = "live" THEN "revoked" ELSE @]

-----------------------------------------------------------------------------
(* endRun: load and judge, then the status CAS alone, then the dependent    *)
(* batch.  Its caller `by' (a poll, a pause, a daemon's finish call) awaits *)
(* it; None stands for a caller with nothing left to do.                    *)

Judgment_OfUnstarted(begun, interrupted, r) ==
  IF moved[r] THEN "advanced" ELSE IF interrupted THEN "interrupted" ELSE "stalled"
Judgment(begun, interrupted, r) ==
  CASE ~begun -> "none"
    [] begun /\ moved[r] -> "advanced"
    [] begun /\ ~moved[r] /\ interrupted -> "interrupted"
    [] OTHER -> "stalled"

Began(e, by, r, to, interrupted, begun) ==
  /\ ender[e].pc = "idle"
  /\ ender' = [ender EXCEPT ![e] = [pc |-> "cas", run |-> r, to |-> to, by |-> by,
                                    outcome |-> Judgment(begun, interrupted, r)]]

EndRun(e, by, r, to, interrupted) == Began(e, by, r, to, interrupted, started[r])
Awaits(by) == \E e \in Enders : ender[e].by = by

\* UPDATE agent_run ... WHERE status IN active: whoever lands it owns the end.
Endable_Blind(r) == TRUE
Endable(r) == status[r] \in Active

EndCas(e) ==
  LET r == ender[e].run IN
  /\ ender[e].pc = "cas"
  /\ IF Endable(r)
       THEN /\ status' = [status EXCEPT ![r] = ender[e].to]
            /\ outcome' = [outcome EXCEPT ![r] = ender[e].outcome]
            /\ ender' = [ender EXCEPT ![e].pc = "settle"]
       ELSE ender' = [ender EXCEPT ![e] = IdleEnder] /\ UNCHANGED <<status, outcome>>
  /\ UNCHANGED <<started, key, moved, handouts>>
  /\ UNCHANGED <<issueVars, fleetVars, claimVars, daemonVars, pass, poll, stall, op>>

\* The dependent batch: the key dies, the issue is charged or cleared, and the
\* caller of an interrupted end holds the runner (noteInterruption).
Charged_Refunds(n, verdict) ==
  CASE verdict = "advanced" -> 0 [] verdict = "stalled" -> n + 1
    [] verdict = "interrupted" -> n - 1 [] OTHER -> n
Charged_AnyFailure(n, verdict) ==
  IF verdict = "advanced" THEN 0 ELSE n + 1
Charged(n, verdict) ==
  CASE verdict = "advanced" -> 0
    [] verdict = "stalled" -> n + 1
    [] OTHER -> n

Parks_Late(n, verdict) == verdict = "stalled" /\ n >= AttemptLimit
Parks(n, verdict) == verdict = "stalled" /\ n + 1 >= AttemptLimit

EndSettle(e) ==
  LET r == ender[e].run
      i == issueOf[r] IN
  /\ ender[e].pc = "settle"
  /\ key' = Revoked(r)
  /\ attempts' = [attempts EXCEPT ![i] = Charged(@, ender[e].outcome)]
  /\ parked' = [parked EXCEPT ![i] = @ \/ Parks(attempts[i], ender[e].outcome)]
  /\ held' = [held EXCEPT ![runnerOf[r]] = @ \/ ender[e].outcome = "interrupted"]
  /\ ender' = [ender EXCEPT ![e] = IdleEnder]
  /\ UNCHANGED <<state, enabled, paused, away, status, started, outcome, moved, handouts>>
  /\ UNCHANGED <<claimVars, daemonVars, pass, poll, stall, op>>

\* The Worker is evicted or D1 fails between the statements; the caller's
\* request dies with it.
EndEvicted(e) ==
  LET by == ender[e].by IN
  /\ "evict" \in Events /\ ender[e].pc # "idle"
  /\ ender' = [ender EXCEPT ![e] = IdleEnder]
  /\ poll' = [q \in Polls |-> IF q = by THEN IdlePoll ELSE poll[q]]
  /\ op' = [o \in Operators |-> IF o = by THEN IdleOp ELSE op[o]]
  /\ UNCHANGED <<issueVars, fleetVars, claimVars, runVars, daemonVars, pass, stall>>

\* failLaunch: only the status is guarded; the key and the hold are not.
FailLaunch_KeepsKey(r) ==
  /\ status' = [status EXCEPT ![r] = IF @ \in {"assigned", "launching"} THEN "failed" ELSE @]
  /\ held' = [held EXCEPT ![runnerOf[r]] = TRUE]
  /\ UNCHANGED <<key, started, outcome, moved, handouts, enabled, paused, away>>
FailLaunch(r) ==
  /\ status' = [status EXCEPT ![r] = IF @ \in {"assigned", "launching"} THEN "failed" ELSE @]
  /\ key' = Revoked(r)
  /\ held' = [held EXCEPT ![runnerOf[r]] = TRUE]
  /\ UNCHANGED <<started, outcome, moved, handouts, enabled, paused, away>>

\* mintRunKeyAndFlip: the guarded one-shot flip; a lost flip revokes its own
\* stray key, which no run row names, and changes nothing else.
Flips_Redelivers(r) == status[r] \in {"assigned", "launching"}
Flips(r) == status[r] = "assigned"

MintRunKeyAndFlip(r) ==
  /\ status' = [status EXCEPT ![r] = IF Flips(r) THEN "launching" ELSE @]
  /\ key' = [key EXCEPT ![r] = IF Flips(r) THEN "live" ELSE @]
  /\ handouts' = [handouts EXCEPT ![r] = IF Flips(r) THEN @ + 1 ELSE @]
  /\ UNCHANGED <<started, outcome, moved>>

-----------------------------------------------------------------------------
(* runDispatchPass: one snapshot, then sequential claims.  The order of the *)
(* queue and of the targets is left open; eviction may end a pass anywhere. *)

Eligible(i) == state[i] \in ActiveStates /\ ~parked[i] /\ \A r \in ActiveRuns : issueOf[r] # i

\* loadDispatchSettings, loadEligibleIssues, loadEngineRunners; targetVerdict.
PassStart(p) ==
  /\ pass[p].pc = "idle" /\ enabled
  /\ \E i \in Issues : Eligible(i)
  /\ pass' = [pass EXCEPT ![p] = [IdlePass EXCEPT
       !.pc = "walk",
       !.todo = {c \in Issues \X States : Eligible(c[1]) /\ state[c[1]] = c[2]},
       !.ok = {x \in Runners : ~paused[x] /\ ~held[x] /\ ~away[x]}]]
  /\ UNCHANGED <<issueVars, fleetVars, claimVars, runVars, daemonVars, poll, ender, stall, op>>

\* The WHERE clause of the claim's INSERT ... SELECT; c is a candidate <<i, s>>.
ClaimGuard_TrustsSnapshot(c, x) ==
  /\ Cardinality(ActiveOn(x)) < MaxConcurrent[x]
  /\ Cardinality(QuotaRuns(c[2])) < QuotaLimit(c[2])
ClaimGuard(c, x) ==
  /\ state[c[1]] = c[2] /\ Eligible(c[1])
  /\ Cardinality(ActiveOn(x)) < MaxConcurrent[x]
  /\ Cardinality(QuotaRuns(c[2])) < QuotaLimit(c[2])

ClaimRun(p, c, x, r) ==
  /\ pass[p].pc = "walk" /\ c \in pass[p].todo
  /\ x \in pass[p].ok \cap Targets[c[1]]
  /\ status[r] = "unused" /\ ClaimGuard(c, x)
  /\ status' = [status EXCEPT ![r] = "assigned"]
  /\ issueOf' = [issueOf EXCEPT ![r] = c[1]]
  /\ runnerOf' = [runnerOf EXCEPT ![r] = x]
  /\ startState' = [startState EXCEPT ![r] = c[2]]
  /\ pass' = IF x \in Managed
               THEN [pass EXCEPT ![p].pc = "mint", ![p].run = r]
               ELSE [pass EXCEPT ![p].todo = @ \ {c}]
  /\ UNCHANGED <<started, outcome, key, moved, handouts>>
  /\ UNCHANGED <<issueVars, fleetVars, daemonVars, poll, ender, stall, op>>

\* Zero rows inserted: someone else won; the issue is left to the next pass.
ClaimLost(p, c, x) ==
  /\ pass[p].pc = "walk" /\ c \in pass[p].todo
  /\ x \in pass[p].ok \cap Targets[c[1]]
  /\ ~ClaimGuard(c, x)
  /\ pass' = [pass EXCEPT ![p].todo = @ \ {c}]
  /\ UNCHANGED <<issueVars, fleetVars, claimVars, runVars, daemonVars, poll, ender, stall, op>>

Candidates(p, i) == {c \in pass[p].todo : c[1] = i}

\* launchClaimedRun, first statement.
PassMint(p) ==
  LET r == pass[p].run IN
  /\ pass[p].pc = "mint"
  /\ MintRunKeyAndFlip(r)
  /\ pass' = IF Flips(r)
               THEN [pass EXCEPT ![p].pc = "launch"]
               ELSE [pass EXCEPT ![p].pc = "walk", ![p].run = None,
                                 ![p].todo = @ \ Candidates(p, issueOf[r])]
  /\ UNCHANGED <<issueVars, fleetVars, claimVars, daemonVars, poll, ender, stall, op>>

LaunchLands_Blind(r) == TRUE
LaunchLands(r) == status[r] = "launching"

\* adapter.launch returned: launching -> running if still launching, and the
\* runner's hold is cleared whether or not that flip landed.
LaunchReturned(p) ==
  LET r == pass[p].run IN
  /\ pass[p].pc = "launch"
  /\ status' = [status EXCEPT ![r] = IF LaunchLands(r) THEN "running" ELSE @]
  /\ started' = [started EXCEPT ![r] = @ \/ LaunchLands(r)]
  /\ held' = [held EXCEPT ![runnerOf[r]] = FALSE]
  /\ pass' = [pass EXCEPT ![p].pc = "check"]
  /\ UNCHANGED <<outcome, key, moved, handouts, enabled, paused, away>>
  /\ UNCHANGED <<issueVars, claimVars, daemonVars, poll, ender, stall, op>>

\* The read of cancel_requested_at that follows, with the adapter's cancel.
LaunchChecked(p) ==
  /\ pass[p].pc = "check"
  /\ pass' = [pass EXCEPT ![p].pc = "walk", ![p].run = None,
                          ![p].todo = @ \ Candidates(p, issueOf[pass[p].run])]
  /\ UNCHANGED <<issueVars, fleetVars, claimVars, runVars, daemonVars, poll, ender, stall, op>>

\* adapter.launch threw, or the read after the start did, when the run may be
\* running already: the pass tries the issue's next target.
LaunchThrew(p) ==
  LET r == pass[p].run IN
  /\ pass[p].pc \in {"launch", "check"}
  /\ FailLaunch(r)
  /\ pass' = [pass EXCEPT ![p].pc = "walk", ![p].run = None, ![p].ok = @ \ {runnerOf[r]}]
  /\ UNCHANGED <<issueVars, claimVars, daemonVars, poll, ender, stall, op>>

\* The queue is exhausted, or the Worker is evicted mid-pass.
PassEnd(p) ==
  /\ pass[p].pc = "walk" \/ (pass[p].pc # "idle" /\ "evict" \in Events)
  /\ pass' = [pass EXCEPT ![p] = IdlePass]
  /\ UNCHANGED <<issueVars, fleetVars, claimVars, runVars, daemonVars, poll, ender, stall, op>>

-----------------------------------------------------------------------------
(* pollRunner and deliverAssignedRun.                                       *)

\* The daemon sends owned_runs and the server admits the poll (heartbeat); one
\* poll per daemon, plus earlier ones whose connection was cut.
PollAdmit(q, x) ==
  /\ poll[q].pc = "idle" /\ x \in Local /\ orphans[x] = {}
  /\ \A q2 \in Polls : poll[q2].on = x => poll[q2].cut
  /\ poll' = [poll EXCEPT ![q] = [IdlePoll EXCEPT !.pc = "read", !.on = x,
                !.active = ~paused[x], !.owned = table[x] \cup closing[x],
                !.declined = declined[x]]]
  /\ away' = [away EXCEPT ![x] = FALSE]
  /\ UNCHANGED <<enabled, paused, held>>
  /\ UNCHANGED <<issueVars, claimVars, runVars, daemonVars, pass, ender, stall, op>>

\* releaseDeclinedAssignments: a refused run ends with its key in one batch,
\* unless a first log won the race.
PollRelease(q, r) ==
  LET ends == status[r] = "launching" IN
  /\ poll[q].pc = "read" /\ r \in poll[q].declined
  /\ status' = [status EXCEPT ![r] = IF ends THEN "canceled" ELSE @]
  /\ key' = IF ends THEN Revoked(r) ELSE key
  /\ poll' = [poll EXCEPT ![q].declined = @ \ {r},
       ![q].released = IF ends \/ status[r] \in Ended THEN @ \cup {r} ELSE @]
  /\ UNCHANGED <<started, outcome, moved, handouts>>
  /\ UNCHANGED <<issueVars, fleetVars, claimVars, daemonVars, pass, ender, stall, op>>

\* SELECT the runner's active runs; everything the response needs follows.
Cancels_OnlyCanceled(q, mine) == {r \in poll[q].owned : status[r] = "canceled"}
Cancels(q, mine) == {r \in poll[q].owned : r \notin mine \/ status[r] \notin Delivered}

PollRead(q) ==
  LET mine == ActiveOn(poll[q].on) IN
  /\ poll[q].pc = "read" /\ poll[q].declined = {}
  /\ poll' = [poll EXCEPT
       ![q].pc = "act",
       ![q].lost = {r \in mine : status[r] = "running" /\ r \notin poll[q].owned},
       ![q].assigned = {r \in mine : status[r] = "assigned" /\ poll[q].active},
       ![q].cancels = Cancels(q, mine)]
  /\ UNCHANGED <<issueVars, fleetVars, claimVars, runVars, daemonVars, pass, ender, stall, op>>

\* owned_runs reconciliation: a running run the daemon does not report.
PollReconcile(q, e, r) ==
  /\ poll[q].pc = "act" /\ r \in poll[q].lost /\ ~Awaits(q)
  /\ IF status[r] = "running" THEN EndRun(e, q, r, "failed", TRUE) ELSE UNCHANGED ender
  /\ poll' = [poll EXCEPT ![q].lost = @ \ {r}]
  /\ UNCHANGED <<issueVars, fleetVars, claimVars, runVars, daemonVars, pass, stall, op>>

\* The eligibility read of deliverAssignedRun.
Deliverable(r) ==
  LET i == issueOf[r] IN
  state[i] = startState[r] /\ state[i] \in ActiveStates /\ ~parked[i] /\ enabled

PollDelivers(q, r) ==
  poll[q].pc = "act" /\ poll[q].lost = {} /\ r \in poll[q].assigned /\ ~Awaits(q)

PollOffer(q, r) ==
  /\ PollDelivers(q, r) /\ Deliverable(r)
  /\ poll' = [poll EXCEPT ![q].pc = "mint", ![q].run = r, ![q].assigned = @ \ {r}]
  /\ UNCHANGED <<issueVars, fleetVars, claimVars, runVars, daemonVars, pass, ender, stall, op>>

PollRefuse(q, e, r) ==
  /\ PollDelivers(q, r) /\ ~Deliverable(r)
  /\ IF status[r] = "assigned" THEN EndRun(e, q, r, "canceled", FALSE) ELSE UNCHANGED ender
  /\ poll' = [poll EXCEPT ![q].assigned = @ \ {r}]
  /\ UNCHANGED <<issueVars, fleetVars, claimVars, runVars, daemonVars, pass, stall, op>>

PollMint(q) ==
  LET r == poll[q].run IN
  /\ poll[q].pc = "mint"
  /\ MintRunKeyAndFlip(r)
  /\ poll' = IF Flips(r)
               THEN [poll EXCEPT ![q].pc = "env"]
               ELSE [poll EXCEPT ![q].pc = "act", ![q].run = None]
  /\ UNCHANGED <<issueVars, fleetVars, claimVars, daemonVars, pass, ender, stall, op>>

\* resolvedEnvForIssue succeeds, or throws and the launch is failed.
PollPack(q) ==
  LET r == poll[q].run IN
  /\ poll[q].pc = "env"
  /\ poll' = [poll EXCEPT ![q].pc = "act", ![q].run = None, ![q].out = @ \cup {r}]
  /\ UNCHANGED <<issueVars, fleetVars, claimVars, runVars, daemonVars, pass, ender, stall, op>>

PollEnvThrew(q) ==
  /\ "env" \in Events /\ poll[q].pc = "env"
  /\ FailLaunch(poll[q].run)
  /\ poll' = [poll EXCEPT ![q].pc = "act", ![q].run = None]
  /\ UNCHANGED <<issueVars, claimVars, daemonVars, pass, ender, stall, op>>

\* What the daemon launches of the assignments `out': those that fit beside the
\* runs still in its table, and none while an older refusal is open.
Accepts_Unchecked(x, open, busy, out) == {out}
Accepts(x, open, busy, out) ==
  {took \in SUBSET out :
     /\ took # {} => open = {} /\ Cardinality(busy \cup took) <= MaxConcurrent[x]
     /\ took = out \/ open # {} \/ Cardinality(busy \cup took) >= MaxConcurrent[x]}

\* The response arrives: cancels are killed without a report but stay in the
\* table until the process is gone.  After a cut or a crash nobody receives it.
PollRespond(q, took) ==
  LET x == poll[q].on
      open == declined[x] \ poll[q].released IN
  /\ poll[q].pc = "act" /\ poll[q].lost = {} /\ poll[q].assigned = {} /\ ~Awaits(q)
  /\ took \in Accepts(x, open, table[x] \cup closing[x], poll[q].out)
  /\ poll' = [poll EXCEPT ![q] = IdlePoll]
  /\ IF poll[q].cut
       THEN took = {} /\ UNCHANGED <<table, closing, declined>>
       ELSE /\ table' = [table EXCEPT ![x] = (@ \ poll[q].cancels) \cup took]
            /\ closing' = [closing EXCEPT ![x] = @ \cup (table[x] \cap poll[q].cancels)]
            /\ declined' = [declined EXCEPT ![x] = open \cup (poll[q].out \ took)]
  /\ UNCHANGED <<orphans, crashes>>
  /\ UNCHANGED <<issueVars, fleetVars, claimVars, runVars, pass, ender, stall, op>>

\* The Worker handling the poll is evicted: the daemon sees an error.
PollEvicted(q) ==
  /\ "evict" \in Events /\ poll[q].pc # "idle"
  /\ poll' = [poll EXCEPT ![q] = IdlePoll]
  /\ UNCHANGED <<issueVars, fleetVars, claimVars, runVars, daemonVars, pass, ender, stall, op>>

\* The connection is cut; the server keeps working, the daemon polls again.
PollCut(q) ==
  /\ "drop" \in Events /\ poll[q].pc # "idle" /\ ~poll[q].cut
  /\ poll' = [poll EXCEPT ![q].cut = TRUE]
  /\ UNCHANGED <<issueVars, fleetVars, claimVars, runVars, daemonVars, pass, ender, stall, op>>

-----------------------------------------------------------------------------
(* The daemon and its harnesses.                                            *)

\* The first log append: markRunRunning, a CAS on launching.
MarkRunRunning(x, r) ==
  /\ r \in table[x] /\ status[r] = "launching"
  /\ status' = [status EXCEPT ![r] = "running"]
  /\ started' = [started EXCEPT ![r] = TRUE]
  /\ UNCHANGED <<outcome, key, moved, handouts>>
  /\ UNCHANGED <<issueVars, fleetVars, claimVars, daemonVars, pass, poll, ender, stall, op>>

\* finishRun: rejected for an ended run; a finish of a launching run marks it
\* running first, so it is judged as started.
Finishable_Ended(r) == status[r] # "assigned"
Finishable_Running(r) == status[r] = "running"
Finishable(r) == status[r] \in Delivered

FinishRun(e, by, r, to, interrupted) ==
  IF Finishable(r)
    THEN /\ Began(e, by, r, to, interrupted, TRUE)
         /\ status' = [status EXCEPT ![r] = "running"]
         /\ started' = [started EXCEPT ![r] = TRUE]
    ELSE UNCHANGED <<ender, status, started>>

\* The harness exits and the daemon reports it; the run stays owned until the
\* finish call returns.
FinishReport(x, e, r, to, interrupted) ==
  /\ r \in table[x]
  /\ interrupted => to = "failed"
  /\ FinishRun(e, x, r, to, interrupted)
  /\ table' = [table EXCEPT ![x] = @ \ {r}]
  /\ closing' = [closing EXCEPT ![x] = @ \cup {r}]
  /\ UNCHANGED <<outcome, key, moved, handouts, orphans, declined, crashes>>
  /\ UNCHANGED <<issueVars, fleetVars, claimVars, pass, poll, stall, op>>

\* The finish call returned or was lost, or the killed process is gone.
Cleanup(x, r) ==
  /\ r \in closing[x]
  /\ "drop" \in Events \/ \A e \in Enders : ~(ender[e].by = x /\ ender[e].run = r)
  /\ closing' = [closing EXCEPT ![x] = @ \ {r}]
  /\ UNCHANGED <<table, orphans, declined, crashes>>
  /\ UNCHANGED <<issueVars, fleetVars, claimVars, runVars, pass, poll, ender, stall, op>>

\* The finish request never reaches the server; the daemon cleans up anyway,
\* and so does the next life for an orphan.
FinishLost(x, r) ==
  /\ "drop" \in Events /\ r \in table[x] \cup orphans[x]
  /\ table' = [table EXCEPT ![x] = @ \ {r}]
  /\ orphans' = [orphans EXCEPT ![x] = @ \ {r}]
  /\ UNCHANGED <<closing, declined, crashes>>
  /\ UNCHANGED <<issueVars, fleetVars, claimVars, runVars, pass, poll, ender, stall, op>>

\* A crash loses the table; runs with a spawned process (any subset: those
\* still cloning have none) are in the state file of the next life.
DaemonCrash(x, kept) ==
  /\ crashes < MaxCrashes /\ x \in Local
  /\ kept \subseteq table[x] \cup closing[x]
  /\ crashes' = crashes + 1
  /\ orphans' = [orphans EXCEPT ![x] = @ \cup kept]
  /\ table' = [table EXCEPT ![x] = {}] /\ closing' = [closing EXCEPT ![x] = {}]
  /\ poll' = [q \in Polls |-> IF poll[q].on = x THEN [poll[q] EXCEPT !.cut = TRUE] ELSE poll[q]]
  /\ UNCHANGED declined
  /\ UNCHANGED <<issueVars, fleetVars, claimVars, runVars, pass, ender, stall, op>>

\* The next life finish-fails each orphan before its first poll.
OrphanReport(x, e, r) ==
  /\ r \in orphans[x]
  /\ FinishRun(e, None, r, "failed", TRUE)
  /\ orphans' = [orphans EXCEPT ![x] = @ \ {r}]
  /\ UNCHANGED <<outcome, key, moved, handouts, table, closing, declined, crashes>>
  /\ UNCHANGED <<issueVars, fleetVars, claimVars, pass, poll, stall, op>>

\* Five minutes without a poll: the machine sleeps or the daemon is down.
GoAway(x) ==
  /\ "away" \in Events /\ x \in Local /\ ~away[x]
  /\ away' = [away EXCEPT ![x] = TRUE]
  /\ UNCHANGED <<enabled, paused, held>>
  /\ UNCHANGED <<issueVars, claimVars, runVars, daemonVars, pass, poll, ender, stall, op>>

-----------------------------------------------------------------------------
(* sweepSupervisor and pollManagedRuns.                                     *)

SweepOverdue(e, r) ==
  /\ "overdue" \in Events /\ status[r] = "running"
  /\ EndRun(e, None, r, "timed_out", FALSE)
  /\ UNCHANGED <<issueVars, fleetVars, claimVars, runVars, daemonVars, pass, poll, stall, op>>

SweepOffline(e, r) ==
  /\ status[r] \in Delivered /\ runnerOf[r] \in Local /\ away[runnerOf[r]]
  /\ EndRun(e, None, r, "failed", TRUE)
  /\ UNCHANGED <<issueVars, fleetVars, claimVars, runVars, daemonVars, pass, poll, stall, op>>

\* The provider reports the session over, or the token cap is exceeded.
PollManagedRun(e, r, to) ==
  /\ status[r] = "running" /\ runnerOf[r] \in Managed
  /\ EndRun(e, None, r, to, FALSE)
  /\ UNCHANGED <<issueVars, fleetVars, claimVars, runVars, daemonVars, pass, poll, stall, op>>

\* Launch reconciliation: a read, then failLaunch.  A launching run of a
\* polling runner is skipped.
Stalled_AssignedOnly(r) == status[r] = "assigned"
Stalled(r) == status[r] = "assigned" \/ (status[r] = "launching" /\ runnerOf[r] \in Managed)

SweepStalledRead(w, r) ==
  /\ stall[w] = None /\ Stalled(r)
  /\ stall' = [stall EXCEPT ![w] = r]
  /\ UNCHANGED <<issueVars, fleetVars, claimVars, runVars, daemonVars, pass, poll, ender, op>>

SweepStalledFail(w) ==
  /\ stall[w] # None
  /\ FailLaunch(stall[w])
  /\ stall' = [stall EXCEPT ![w] = None]
  /\ UNCHANGED <<issueVars, claimVars, daemonVars, pass, poll, ender, op>>

\* A key's expiry passes and the sweep revokes it.
Expirable_WhileActive(r) == key[r] = "live" /\ status[r] \in Active
Expirable(r) == key[r] = "live"

SweepExpiredKey(r) ==
  /\ "expire" \in Events /\ Expirable(r)
  /\ key' = Revoked(r)
  /\ UNCHANGED <<status, started, outcome, moved, handouts>>
  /\ UNCHANGED <<issueVars, fleetVars, claimVars, daemonVars, pass, poll, ender, stall, op>>

\* backoff_until passes.
HoldExpires(x) ==
  /\ held[x]
  /\ held' = [held EXCEPT ![x] = FALSE]
  /\ UNCHANGED <<enabled, paused, away>>
  /\ UNCHANGED <<issueVars, claimVars, runVars, daemonVars, pass, poll, ender, stall, op>>

-----------------------------------------------------------------------------
(* People and agents.                                                       *)

CancelRun(e, r) ==
  /\ "cancel" \in Events /\ status[r] \in Active
  /\ EndRun(e, None, r, "canceled", FALSE)
  /\ UNCHANGED <<issueVars, fleetVars, claimVars, runVars, daemonVars, pass, poll, stall, op>>

\* PATCH runner status = paused, then cancelAssignedRuns for that runner.
PauseRunner(o, x) ==
  /\ op[o].pc = "idle" /\ ~paused[x]
  /\ paused' = [paused EXCEPT ![x] = TRUE]
  /\ op' = [op EXCEPT ![o] = [IdleOp EXCEPT !.pc = "list", !.scope = {x}]]
  /\ UNCHANGED <<enabled, held, away>>
  /\ UNCHANGED <<issueVars, claimVars, runVars, daemonVars, pass, poll, ender, stall>>

\* The kill switch, then cancelAssignedRuns fleet-wide.
DisableAutomation(o) ==
  /\ op[o].pc = "idle" /\ enabled
  /\ enabled' = FALSE
  /\ op' = [op EXCEPT ![o] = [IdleOp EXCEPT !.pc = "list", !.scope = Runners]]
  /\ UNCHANGED <<paused, held, away>>
  /\ UNCHANGED <<issueVars, claimVars, runVars, daemonVars, pass, poll, ender, stall>>

CancelAssignedList(o) ==
  /\ op[o].pc = "list"
  /\ op' = [op EXCEPT ![o].pc = "cancel",
       ![o].todo = {r \in Runs : status[r] = "assigned" /\ runnerOf[r] \in op[o].scope}]
  /\ UNCHANGED <<issueVars, fleetVars, claimVars, runVars, daemonVars, pass, poll, ender, stall>>

CancelAssignedRun(o, e, r) ==
  /\ op[o].pc = "cancel" /\ r \in op[o].todo /\ ~Awaits(o)
  /\ IF status[r] = "assigned" THEN EndRun(e, o, r, "canceled", FALSE) ELSE UNCHANGED ender
  /\ op' = [op EXCEPT ![o].todo = @ \ {r}]
  /\ UNCHANGED <<issueVars, fleetVars, claimVars, runVars, daemonVars, pass, poll, stall>>

CancelAssignedDone(o) ==
  /\ op[o].pc = "cancel" /\ op[o].todo = {} /\ ~Awaits(o)
  /\ op' = [op EXCEPT ![o] = IdleOp]
  /\ UNCHANGED <<issueVars, fleetVars, claimVars, runVars, daemonVars, pass, poll, ender, stall>>

\* Unpausing or switching automation on again: one UPDATE, also while the
\* cancels of the pause before it go on.
Rearm ==
  /\ Operators # {}
  /\ \/ ~enabled /\ enabled' = TRUE /\ UNCHANGED paused
     \/ \E x \in Runners : paused[x] /\ paused' = [paused EXCEPT ![x] = FALSE] /\ UNCHANGED enabled
  /\ UNCHANGED <<held, away>>
  /\ UNCHANGED <<issueVars, claimVars, runVars, daemonVars, pass, poll, ender, stall, op>>

\* transitionIssue with a person's credentials clears the attempt budget.
HumanTransition(i, s) ==
  /\ "person" \in Events /\ <<state[i], s>> \in Edges
  /\ state' = [state EXCEPT ![i] = s]
  /\ attempts' = [attempts EXCEPT ![i] = 0] /\ parked' = [parked EXCEPT ![i] = FALSE]
  /\ UNCHANGED <<fleetVars, claimVars, runVars, daemonVars, pass, poll, ender, stall, op>>

\* transitionIssue with a run key: bound to a delivered run and a live key, and
\* sent by an agent whose process is still there.
Working(r) ==
  runnerOf[r] \in Managed \/ \E x \in Runners : r \in table[x] \cup closing[x] \cup orphans[x]

AgentTransition(r, s) ==
  LET i == issueOf[r] IN
  /\ status[r] \in Delivered /\ key[r] = "live" /\ Working(r)
  /\ <<state[i], s>> \in Edges
  /\ state' = [state EXCEPT ![i] = s]
  /\ moved' = [moved EXCEPT ![r] = TRUE]
  /\ UNCHANGED <<attempts, parked, status, started, outcome, key, handouts>>
  /\ UNCHANGED <<fleetVars, claimVars, daemonVars, pass, poll, ender, stall, op>>

ResumeIssue(i) ==
  /\ "person" \in Events
  /\ parked[i] \/ attempts[i] > 0
  /\ attempts' = [attempts EXCEPT ![i] = 0] /\ parked' = [parked EXCEPT ![i] = FALSE]
  /\ UNCHANGED <<state, fleetVars, claimVars, runVars, daemonVars, pass, poll, ender, stall, op>>

-----------------------------------------------------------------------------
EnderStep(e) == EndCas(e) \/ EndSettle(e) \/ EndEvicted(e)

PassStep(p) ==
  \/ PassStart(p) \/ PassMint(p) \/ LaunchReturned(p) \/ LaunchChecked(p)
  \/ LaunchThrew(p) \/ PassEnd(p)
  \/ \E c \in Issues \X States, x \in Runners :
       ClaimLost(p, c, x) \/ \E r \in Runs : ClaimRun(p, c, x, r)

PollWork(q) ==
  \/ PollRead(q) \/ PollMint(q) \/ PollPack(q)
  \/ \E took \in SUBSET Runs : PollRespond(q, took)
  \/ \E r \in Runs : PollRelease(q, r) \/ PollOffer(q, r)
  \/ \E e \in Enders, r \in Runs : PollReconcile(q, e, r) \/ PollRefuse(q, e, r)

PollStep(q) ==
  \/ PollWork(q) \/ PollEnvThrew(q) \/ PollEvicted(q) \/ PollCut(q)
  \/ \E x \in Runners : PollAdmit(q, x)

DaemonStep(x) ==
  \/ GoAway(x) \/ HoldExpires(x)
  \/ \E kept \in SUBSET Runs : DaemonCrash(x, kept)
  \/ \E r \in Runs : MarkRunRunning(x, r) \/ Cleanup(x, r) \/ FinishLost(x, r)
  \/ \E e \in Enders, r \in Runs : OrphanReport(x, e, r)
  \/ \E e \in Enders, r \in Runs, to \in {"completed", "failed"}, b \in BOOLEAN :
       FinishReport(x, e, r, to, b)

SweepStep ==
  \/ \E r \in Runs : SweepExpiredKey(r)
  \/ \E w \in Sweepers : SweepStalledFail(w) \/ \E r \in Runs : SweepStalledRead(w, r)
  \/ \E e \in Enders, r \in Runs :
       \/ SweepOverdue(e, r) \/ SweepOffline(e, r)
       \/ \E to \in {"completed", "failed"} : PollManagedRun(e, r, to)

PersonStep ==
  \/ Rearm
  \/ \E e \in Enders, r \in Runs : CancelRun(e, r)
  \/ \E o \in Operators :
       \/ DisableAutomation(o) \/ CancelAssignedList(o) \/ CancelAssignedDone(o)
       \/ \E x \in Runners : PauseRunner(o, x)
       \/ \E e \in Enders, r \in Runs : CancelAssignedRun(o, e, r)
  \/ \E i \in Issues : ResumeIssue(i) \/ \E s \in States : HumanTransition(i, s)

AgentStep == \E r \in Runs, s \in States : AgentTransition(r, s)

Next ==
  \/ \E e \in Enders : EnderStep(e)
  \/ \E p \in Passes : PassStep(p)
  \/ \E q \in Polls : PollStep(q)
  \/ \E x \in Runners : DaemonStep(x)
  \/ SweepStep \/ PersonStep \/ AgentStep

Spec == Init /\ [][Next]_vars

\* What the scheduling justifies: the cron sweep keeps running and a handler
\* it starts is not evicted at the same statement for ever; a daemon polls on a
\* timer and its server handler is finished; the harness of an active run exits
\* or is killed at its timeout (nothing is assumed of one whose run has ended:
\* a poll must kill it).  People, agents and dispatch passes owe nothing.
HandlersRun ==
  /\ \A e \in Enders : SF_vars(EndCas(e)) /\ SF_vars(EndSettle(e))
  /\ \A q \in Polls : SF_vars(PollWork(q))
SweepsRun ==
  /\ \A w \in Sweepers : WF_vars(SweepStalledFail(w))
  /\ \A r \in Runs :
       /\ WF_vars(SweepExpiredKey(r))
       /\ SF_vars(\E w \in Sweepers : SweepStalledRead(w, r))
       /\ SF_vars(\E e \in Enders : SweepOverdue(e, r))
       /\ SF_vars(\E e \in Enders : SweepOffline(e, r))
DaemonsRun ==
  \A x \in Runners :
    /\ SF_vars(\E q \in Polls : PollAdmit(q, x))
    /\ \A r \in Runs :
         /\ SF_vars(\E e \in Enders : /\ status[r] \in Active
                                     /\ FinishReport(x, e, r, "completed", FALSE))
         /\ SF_vars(\E e \in Enders : OrphanReport(x, e, r))
         /\ WF_vars(Cleanup(x, r))
LiveSpec == Spec /\ HandlersRun /\ SweepsRun /\ DaemonsRun

-----------------------------------------------------------------------------
(* Properties.                                                              *)

PassType ==
  {y \in [pc : {"idle", "walk", "mint", "launch", "check"}, todo : SUBSET (Issues \X States),
          ok : SUBSET Runners, run : Runs \cup {None}] :
     y.pc \in {"mint", "launch", "check"} => y.run \in Runs}
PollType ==
  {y \in [pc : {"idle", "read", "act", "mint", "env"}, on : Runners \cup {None},
          active : BOOLEAN, cut : BOOLEAN, owned : SUBSET Runs,
          declined : SUBSET Runs, released : SUBSET Runs, lost : SUBSET Runs,
          assigned : SUBSET Runs, out : SUBSET Runs, cancels : SUBSET Runs,
          run : Runs \cup {None}] :
     y.pc \in {"mint", "env"} => y.run \in Runs}
EnderType ==
  {y \in [pc : {"idle", "cas", "settle"}, run : Runs \cup {None}, to : Ended,
          outcome : Outcome, by : Runners \cup Polls \cup Operators \cup {None}] :
     y.pc # "idle" => y.run \in Runs}
OpType == [pc : {"idle", "list", "cancel"}, scope : SUBSET Runners, todo : SUBSET Runs]

\* Every row and every handler's local variables keep their declared shape.
TypeOK ==
  /\ state \in [Issues -> States] /\ attempts \in [Issues -> Nat]
  /\ parked \in [Issues -> BOOLEAN] /\ enabled \in BOOLEAN
  /\ paused \in [Runners -> BOOLEAN] /\ held \in [Runners -> BOOLEAN]
  /\ away \in [Runners -> BOOLEAN]
  /\ status \in [Runs -> Status] /\ started \in [Runs -> BOOLEAN]
  /\ outcome \in [Runs -> Outcome] /\ key \in [Runs -> {"none", "live", "revoked"}]
  /\ issueOf \in [Runs -> Issues \cup {None}] /\ runnerOf \in [Runs -> Runners \cup {None}]
  /\ startState \in [Runs -> States \cup {None}]
  /\ moved \in [Runs -> BOOLEAN] /\ handouts \in [Runs -> Nat]
  /\ table \in [Runners -> SUBSET Runs] /\ closing \in [Runners -> SUBSET Runs]
  /\ orphans \in [Runners -> SUBSET Runs] /\ declined \in [Runners -> SUBSET Runs]
  /\ crashes \in Nat
  /\ pass \in [Passes -> PassType] /\ poll \in [Polls -> PollType]
  /\ ender \in [Enders -> EnderType] /\ stall \in [Sweepers -> Runs \cup {None}]
  /\ op \in [Operators -> OpType]

\* The exclusive claim: two passes that read the same queue never both put an
\* agent on one issue (the NOT EXISTS of claimRun).
OneRunPerIssue ==
  \A r1, r2 \in ActiveRuns : issueOf[r1] = issueOf[r2] => r1 = r2

\* Racing passes never push a runner past max_concurrent, nor the fleet past
\* the quota policy in force.
CapsHold ==
  /\ \A x \in Runners : Cardinality(ActiveOn(x)) <= MaxConcurrent[x]
  /\ IF UseRoster
       THEN \A s \in States : Cardinality({r \in ActiveRuns : startState[r] = s}) <= RosterLimit[s]
       ELSE Cardinality(ActiveRuns) <= GlobalCap

\* The machine's ceiling: harnesses alive on a device never exceed it, though
\* the server frees a run's slot before its process is dead.
MachineCapHolds ==
  \A x \in Local : Cardinality(table[x] \cup closing[x]) <= MaxConcurrent[x]

\* One-shot delivery: no two polls, and no poll and pass, hand out one run.
DeliveredOnce == \A r \in Runs : handouts[r] <= 1

\* The budget that parks: an issue dispatch may still claim has attempts left,
\* whatever order strikes, resumes and transitions land in.
UnparkedHasBudget == \A i \in Issues : ~parked[i] => attempts[i] < AttemptLimit

\* Each strike is one stalled run of that issue: racing ends, interruptions,
\* launch failures and cancelled assignments never charge it.
StrikesAreStalledRuns ==
  \A i \in Issues :
    attempts[i] <= Cardinality({r \in Runs : issueOf[r] = i /\ outcome[r] = "stalled"})

\* A run's key outlives the run only while the handler that ended it is still
\* about to revoke it (checked without evictions).
KeyDiesWithRun ==
  \A r \in Runs : status[r] \in Ended /\ key[r] = "live" =>
    \E e \in Enders : ender[e].pc = "settle" /\ ender[e].run = r

\* A judged run was started, and `advanced' means its own key moved the issue.
JudgmentIsEarned ==
  \A r \in Runs : /\ outcome[r] # "none" => started[r] /\ status[r] \in Ended
                  /\ outcome[r] = "advanced" => moved[r]

\* No claim wedges its issue: every run ends, though passes and handlers may be
\* evicted at any statement.
RunEnds == \A r \in Runs : status[r] \in Active ~> status[r] \in Ended

\* The key of an ended run dies, even if the handler that ended it did not live
\* to revoke it.
KeysDie == \A r \in Runs : (status[r] \in Ended /\ key[r] = "live") ~> key[r] = "revoked"

\* No zombie: a harness whose run the server ended leaves the daemon's table.
ZombieKilled ==
  \A x \in Local, r \in Runs :
    (r \in table[x] /\ status[r] \in Ended) ~> r \notin table[x] \cup closing[x]

\* A pause or the kill switch costs nothing: what they cancel is never judged,
\* though the run may start between their read and their write (checked where
\* no person cancels runs).
StopsAreFree == \A r \in Runs : status[r] = "canceled" => outcome[r] = "none"

\* The first writer of an end wins for good: no late finish, sweep, cancel or
\* launch return rewrites an ended run or judges it again.
EndStays ==
  \A r \in Runs : status[r] \in Ended => /\ status'[r] = status[r]
                                         /\ outcome'[r] = outcome[r]
                                         /\ started'[r] = started[r]
EndIsFinal == [][EndStays]_vars

\* Dispatch implements the abstract claim service: the holder of an issue is
\* its active run, and ended runs are spent.
Holder ==
  [i \in Issues |-> IF \E r \in ActiveRuns : issueOf[r] = i
                      THEN CHOOSE r \in ActiveRuns : issueOf[r] = i ELSE None]
Claim == INSTANCE IssueClaim WITH holder <- Holder, spent <- {r \in Runs : status[r] \in Ended}
ImplementsIssueClaim == Claim!Spec

-----------------------------------------------------------------------------
(* What the documents and comments of the repository say, and the code does *)
(* not quite do: it is refuted by a run of its own.                         *)

\* runner-protocol.ts, pollRunner: "`launching` runs stay for the launch-stall
\* sweep: the daemon may simply not have received them yet".  The sweep skips
\* the launching runs of polling runners.
LaunchingIsResolved == \A r \in Runs : status[r] = "launching" ~> status[r] # "launching"
=============================================================================
