# Tines: a verification project

Tines is an issue tracker that runs coding agents on its issues. A *supervisor*
inside the web application (a Cloudflare Worker over a D1 database) decides
which issue gets an agent next, hands the work to a *runner*, and watches the
run until it ends. Managed runners are provider APIs the Worker calls itself;
local runners are daemons (`tines runner daemon`) on people's machines that
poll the Worker. Around it is a board: schedules that file issues, links,
artifacts and context items, projects that are shared and issues that move
between them. The Worker is stateless and may be evicted between any two
statements; the daemon may crash; everything between them is HTTP. There is no
lock anywhere: correctness rests on guarded SQL statements, and on what happens
to a handler that acts on rows it read earlier.

This directory models these parts in TLA+, checks them with TLC on small
instances and proves their main safety results for all instances with TLAPS.

## 1. Inventory

Paths are relative to `src/`; `server/` stands for `apps/web/src/lib/server/`.

| Component | State | Operations | Talks to |
|---|---|---|---|
| Dispatch and run lifecycle, `server/supervisor/engine.ts` | `agent_run` rows, `api_key` rows of runs, `issue.attempt_count / needs_attention`, `runner.backoff_until` | `runDispatchPass`, `claimRun`, `mintRunKeyAndFlip`, `launchClaimedRun`, `failLaunch`, `endRun`, `cancelRun`, `cancelAssignedRuns`, `markRunRunning`, `pollManagedRuns`, `sweepSupervisor` | every API handler schedules a pass; the cron calls the sweep; provider adapters |
| Runner protocol, `server/api/runner-protocol.ts` | the same rows, `runner.last_seen_at` | `pollRunner` (heartbeat, reconcile, release, deliver), `appendRunLog`, `finishRun` | called by daemons; calls the engine |
| Local daemon, `packages/cli/src/daemon/daemon.ts`, `support.ts` | `RunTable` of harness processes, `daemon-state.json`, `LogBatcher` | poll loop, accept or refuse, kill, finish report, crash recovery | runner protocol |
| Issue transition and resume, `server/api/issues.ts` | `issue.state_id`, attempts, park flag, `issue.transitioned` events | `transitionIssue`, `resumeIssue` | people, and agents with a run key |
| Pause and kill switch, `server/api/runners.ts`, `supervisor.ts` | `runner.status`, `supervisor_settings.enabled` | `updateRunner`, `updateSupervisorSettings` | `cancelAssignedRuns` |
| Eligibility, verdicts, quotas, `server/supervisor/logic.ts` | none (pure) | `targetVerdict`, eligibility, quota, `appendLogTail` | engine |
| Run keys and write guards, `server/api/project-access.ts`, `core.ts` | `api_key` | `runStillBoundPredicate`, `runAtomic` | every write of an agent |
| Run log, `server/supervisor/run-log.ts` | `log`, `log_bytes_dropped`, `log_part_count`, `log_compacted_through`, `log_sealed`, `log_seq`; objects `part.n`, `head`, `full` in the bucket | `spillEvicted`, `compactRunLog`, `sealRunLog`, `readRunLog`, retention | log append, end of a run, sweep |
| Runner holds, `engine.ts`, `logic.ts` | `runner.backoff_until`, `backoff_reason`, `launch_failures` | `noteInterruption`, `noteRateLimit`, `failLaunch`, the launch that clears | dispatch, end of a run |
| Daemon concurrency policy, `server/api/runner-concurrency.ts`, `runner-protocol.ts`, `runners.ts` | daemon boot, reported policy, requested cap, revision, acknowledgement | admission, heartbeat, change of the cap, rotation of the token | poll, daemon |
| Resume of interrupted runs, `server/supervisor/resume.ts`, `claude-adapter.ts` | `run_resource`, handles in `provider_meta`; sessions and vaults at the provider | retain, claim, hand over, dispose, provider sweeps | launch, end of a managed run, sweep |
| Routing, `server/api/routing.ts` | rules, pins | resolution | dispatch |
| Issue dependencies, `server/api/issue-links.ts` | `issue_link` | add, file with links, remove | issues, eligibility |
| Issue transfer, `server/api/issue-transfer.ts`, `issue-transfer-witness.ts`, `issue-address.ts` | the issue's project, number and assignment token; the address ledger | preview, confirm | claims, filing, context items |
| Schedules, `server/api/schedules.ts`, `schedule-sweep.ts` | `scheduled_task`: due instant, definition revision, run count, gate | sweep, Run now, edit, delete; archive and unarchive of the project | issues, consent |
| Shared projects, members, consent, `server/api/shared-projects.ts`, `invitations.ts`, `personal-consent.ts`, `schedule-consent.ts`, `server/supervisor/consent-admission.ts` | membership, permission rows with revisions and epochs | share, join, leave, choose, inherit, release | dispatch admission, transitions, schedules |
| Context items, `server/api/context.ts` | `context_item` with version, skill files | create, patch, append, delete, move with an issue | prompts of runs |
| Artifacts, `server/api/artifacts.ts`, `artifact-store.ts` | versions in the database, objects in the bucket | attach, reaffirm, delete | requirements of a transition |
| Workflows and labels, `server/api/workflows.ts`, `labels.ts` | states, transitions, categories | edit | every part that read them before |
| Publications, library packages, usage, CLI commands, web UI | rows of their own | CRUD, reports | |

### What is hard

Every item is a hazard of `PROJECT.json` at the line where it bites.

- *Two passes race.* The cron, an API call and a poll each run a pass; all read
  the same queue and the same counts. Only the `WHERE` of the claim's `INSERT`
  keeps one run per issue and the caps.
- *Stale snapshots.* `endRun` judges before it writes; `deliverAssignedRun`
  checks before it mints; sweeps fail, file or collect what they listed earlier;
  a heartbeat writes the policy it read; a review is confirmed after the fact.
- *A handler dies half-way.* Between the claim and the launch, between the
  status flip that ends a run and the batch that revokes its key, between a log
  or artifact object and its row, anywhere in the hand-over of a session.
- *Messages are lost, late or repeated.* A poll response carries a one-shot
  secret; a finish report or a log chunk is retried; a daemon retries a poll
  whose first handler still runs; two daemons share one token.
- *Many actors end one run.* Daemon, provider poll, overdue sweep, offline
  sweep, launch failure, cancel, pause, kill switch: one may judge it.
- *Permission is withdrawn meanwhile.* A member leaves, an issue is done, a
  schedule is redefined, while a claim or a choice is on its way.
- *Versions that mean two things.* A compare-and-swap on a number, a name or a
  state that went away and came back.
- *Something must eventually happen.* A run must not hold its issue for ever, a
  key must die, a killed run's process must die, a log must be sealed.
- *Budgets and ceilings.* The strike that parks an issue, the roster, the
  device's own ceiling while processes are still dying, version caps.

What makes a component correct is stated per property in section 4.

## 2. Plan

Order: the component everything depends on first, then what feeds on it.

1. **`RunLifecycle`**, because its hazards are races *between* engine, poll,
   finish, daemon table, transitions and pauses. Abstract specification
   **`IssueClaim`**: an issue is held by one run at a time and a run that let go
   never comes back. *Done, with proofs of all its safety.*
2. **`RunLog`**: batcher, append, spill, compaction, sealing. Abstract
   specification **`StoredText`**: what has left the row for the bucket stays, in
   order. *Done; its safety is proved while keepers do not overlap.*
3. **`RunnerPolicy`**, **`RunnerHolds`**, **`SessionHandover`**: what one runner
   keeps between runs, composed in `MCRunner`. *Done, with proofs.*
4. **`Consent`** refining **`PersonalPermission`**. *Done, with proofs.*
5. **`Schedules`**, **`IssueTransfer`**, **`IssueLinks`**, **`ContextItems`**,
   **`Artifacts`**, **`WorkflowEdits`**: the board, composed in `MCBoard`. *Done,
   with proofs.*
6. Left, in this order: `Routing` and the recurrence arithmetic as pure operators
   against reference definitions; publications; the kept workspaces of local
   harnesses.

Runs stay few, each for one question: parts that share no state are families of
one run (`board`, `runner`), explored one at a time.

## 3. What is modelled

One D1 batch, and one bucket or provider call, is one step. What a handler read
before is kept in its own record, so that every later statement acts on a
snapshot that may be stale. This holds in every module below.

### RunLifecycle

| Variables | Code |
|---|---|
| `state`, `attempts`, `parked` | `issue.state_id`, `attempt_count`, `needs_attention` |
| `enabled`; `paused`, `held`, `away` | settings; `runner.status`, "`backoff_until` is in the future", "`last_seen_at` is older than five minutes" |
| `status`, `started`, `outcome`, `issueOf`, `runnerOf`, `startState` | `agent_run` |
| `key`, `moved` | the run's `api_key`; whether an `issue.transitioned` event by it exists |
| `table`, `closing`, `orphans`, `declined`, `crashes` | the daemon: live harnesses, settled ones whose report is in flight, `daemon-state.json` of a dead life, refused assignments |
| `pass`, `poll`, `ender`, `stall`, `op` | handlers in flight: dispatch passes, polls, calls of `endRun`, stall sweeps, pause and kill-switch requests |
| `handouts` | history: how often a secret left the server |

| Actions | Code |
|---|---|
| `PassStart`, `ClaimRun`, `ClaimLost`, `PassMint`, `LaunchReturned`, `LaunchChecked`, `LaunchThrew`, `PassEnd` | `runDispatchPass`, `claimRun`, `launchClaimedRun`, `failLaunch`; the start batch and the read after it are steps of their own inside one `try`, so a launch may fail with its run running; `PassEnd` is also an eviction |
| `PollAdmit`, `PollRead`, `PollReconcile`, `PollRelease`, `PollOffer`, `PollRefuse`, `PollMint`, `PollEnvThrew`, `PollPack`, `PollRespond`, `PollCut`, `PollEvicted` | `pollRunner`, `deliverAssignedRun`, and the daemon's handling of the response |
| `EndRun`/`Began`, `EndCas`, `EndSettle`, `EndEvicted` | `endRun`: read and judge; the status compare-and-set; the batch of key, attempts and park |
| `MarkRunRunning`, `FinishReport`, `FinishLost`, `Cleanup`, `DaemonCrash`, `OrphanReport` | first log line; `finishAndCleanup` and `finishRun`; crash recovery |
| `SweepOverdue`, `SweepOffline`, `SweepStalledRead`, `SweepStalledFail`, `SweepExpiredKey`, `PollManagedRun` | the arms of `sweepSupervisor`, `pollManagedRuns` |
| `CancelRun`, `CancelAssigned*`, `PauseRunner`, `DisableAutomation`, `Rearm` | cancel, pause, kill switch; `Rearm` undoes either, also while the pause is still canceling what it listed |
| `HumanTransition`, `AgentTransition`, `ResumeIssue` | `transitionIssue`, `resumeIssue` |

`RunLifecycle` implements `IssueClaim` with the issue's active run as its holder
and the ended runs as the spent ones (`ImplementsIssueClaim`).

Abstractions, each an over-approximation unless noted:

- Time is abstract: a hold may run out, a daemon may count as lost and a run may
  be overdue at any moment at which the code could observe it.
- The order of the queue and of the targets is left open, so every order is
  covered; dispatch explanations and counts are left out.
- `noteInterruption` is merged into the batch before it (`EndSettle`): the hold
  appears one statement early. `RunnerHolds` has it apart, with its instants.
- An agent's transition is one step, because `runStillBoundPredicate`
  (`project-access.ts:146-168`) checks run and key again in the writing batch.
- A daemon's next poll does not wait for its orphan reports.
- Restrictions: projects are private; caps, quota and attempt limit do not
  change, so no runner has more assigned than it may and the release of surplus
  assignments (`releaseSurplusAssigned`, `engine.ts:711`,
  `runner-protocol.ts:595`) has nothing to do and is left out; the
  concurrency-policy revision, retained resume resources and effort
  evidence are absent; a daemon does not drain for a self-update; a runner is
  not deleted.

### RunLog

One log, from the daemon's `LogBatcher` to the sealed object. A chunk is its
number and all chunks have one size; an object is the sequence of chunks in it.
Reading head and parts one by one, putting the whole, deleting the pieces and
recording it are steps of their own. `Keepers` are the callers of compaction and
sealing (the sweep and the end of a run), `Appends` the request handlers.
`ReadRunLog` is what a reader is given. A drain may start whenever something is
queued (the code starts one per flush).

A handler or a keeper may be killed between any two statements or calls, a
compaction between its put of the head and its update of the row included; the
queue is trimmed when it is full, also while its head is on the way.

`RunLog` implements `StoredText` (`KeepsPromise`): what is stored is what a reader
is given besides the tail (from parts and head, or from the sealed object); the
tail is the row's; and neither compaction nor sealing is a step of it.
`StoredText` promises less of the tail than of the bucket, because a late handler
may write an older tail back, and nothing of copies, because a killed compaction
leaves one (section 6): `RepeatsAreTorn` says that nothing else does.
`spilled` is history: the chunks the row has dropped. Left out: retention and
orphan collection, the raw stream upload, the byte-level cut at a character
boundary, the managed-run append (`engine.ts:1913-1935`, which has one writer and
no sequence number). `MCRunLog` checks two daemons apart: one that loses requests
and has room for all its output, and one that loses none and trims.

### RunnerPolicy

The daemon boots (`Lives`) that share a runner row. A poll is handled in three
statements (`Authenticate`, `Admit`, `Heartbeat` or its failure, `Reconcile`);
the daemon may stop waiting (`PollCut`) and poll again while the handler goes
on, or crash. `daemon` holds what each boot applied and awaits, `row` the
runner's current and fenced boot, mode, ceiling, requested cap, revision and
acknowledgement, `operator` a change of the cap on its way (`RequestCap`,
`CommitCap`). The heartbeat is one compare-and-swap on all that was read
(`Unchanged`). Draining and effort capabilities are left out.

### RunnerHolds

`hold` is `backoff_until`, `backoff_reason` and `launch_failures`; `note` the
ends being noted, `pass` the launches, each with the instant at which its
handler began and the row it read. Instants are numbers, because what is written
is an instant computed from an old one. The verdict (`Assignable`) and the
clearing launch are included; `counted` is history.

### SessionHandover

One issue on one managed runner that may resume. A handle is a provider session
with its vault. `launch` is a launch's progress from the look for a predecessor
through claim, key rotation, retagging, sending, accepting, dropping the row and
releasing the predecessor, or through a fresh vault and session, to the guarded
flip; `ender` is `finalizeEnd`; `sweep` is one arm of `sweepRunner` at work on
one handle: disposal of resources, ended runs, vaults by name, sessions by tag,
with the two reads of `protectedHandles` in either order. Any handler may die
after any step and any provider call may fail or lose its answer. Whether a
conversation still fits (fingerprint, size, settings) is left open; what a
session is told is only which run it speaks for. A handler is assumed to be gone
after `STALE_TRANSFER_MS`. A new session's grace before the tag sweep is left
out, which only adds behaviours.

### Consent and PersonalPermission

`PersonalPermission` says what permission means with nothing stale: what each
person last said of the issue and of a schedule's future issues, sharing, the
member's coming and going, and the owner's agent at work. `Consent` is the
tables: permission rows with revisions and epochs, a membership revision, a
definition revision of the schedule, and requests that read before they commit
(choices, grants, filing by hand and by schedule, decisions, workflow edits that
make a state done, redefinitions, claims and launches). `ImplementsPromise` maps
each row to what it is worth at its epoch and revision; every step of `Consent`
is a step of the promise or none. Routing, pins, parking and holds are
`RunLifecycle`'s.

### Schedules

One scheduled task: `sched` its row, `instances` the issues it filed, `handler`
the sweeps, Run now requests, edits, deletions, archives and unarchives, each
with what it read. Instants are naturals; the evaluation of a cron expression is
the constant `NextAfter`, of which is assumed that an occurrence is strictly
later and monotone (`SchedulesAssumption`). Of a start state only matters
whether it is still the one that was read.

### IssueTransfer and IssueLinks

A preview brackets its reads with the witness sections and signs them; the
confirmation's batch checks the sections, the target and the assignment token
again. Filing, claims, archiving and edits of what a review shows go on beside
it. A witness is the sections themselves, not their hash. `IssueLinks` has the
dependency graph: a plan of edges is checked well before the batch that inserts
it, and the batch evaluates the guard of each edge over the stored graph and the
plan's earlier edges.

### WorkflowEdits

`flow` are the workflow rows with their revision and states, `base` the pointers
by which a state inherits context, possibly from another workflow, `board` what
refers to states beside: where an issue sits, where a schedule starts, which
items are attached. A save, a creation or a deletion reads, checks and later
commits one batch; of its own workflow the claim of the revision makes the read
current, what it read of others is checked again only by witnesses and foreign
keys. The revision that counts saves is the trigger's of migration 0050.

### ContextItems and Artifacts

`ContextItems`: a patch or an append reads the row, then files and names, then
commits one guarded batch and may retry; creation, deletion and the transfer of
the item's issue happen meanwhile. `Artifacts`: objects are put one by one
before the batch that writes the rows, with the item and version ids of the
attempt; deleting an artifact removes the rows and later sweeps a prefix of
objects. `Movers` are transitions gated on the artifact: they read issue,
requirement and decision in three steps while workflows are edited.

## 4. Runs

| Run | Instance | What it shows |
|---|---|---|
| `dispatch` | 2 passes, 2 issues, 2 runs, a managed and a local runner with one slot each, a roster of two `todo` and one `doing`, agents moving issues forward, evictions | `OneRunPerIssue`, `CapsHold` |
| `polls` | 2 overlapping polls of one daemon, 1 run, a crash with orphans, cut connections, env failures, an offline sweep, evictions; a second run where no connection is cut and no daemon has crashed | `DeliveredOnce`: a secret is handed out once; `JudgmentIsEarned`; `MachineCapHolds` |
| `ends` | a managed runner, 2 runs in sequence, 2 calls of `endRun`, timeouts, cancels, resumes, stall sweeps, attempt limit 1 | `StrikesAreStalledRuns`, `UnparkedHasBudget`, `KeyDiesWithRun`, refinement `ImplementsIssueClaim` |
| `managed_live` | 2 passes, 1 managed run, evictions, timeouts, key expiry, people | liveness: `RunEnds`, `KeysDie` |
| `local_live` | 1 daemon, 1 run, a pass, pause, unpause and kill switch, timeouts (a cancel by a person is not among them) | `StopsAreFree`: a stop costs no attempt; liveness: `ZombieKilled` |
| `runlog` | 4 chunks over a tail of two, 2 handlers, evictions, one keeper killed once at any statement; families `cuts` (lost requests) and `trims` (a queue of one) | `DroppedIsStored`, `RepeatsAreTorn`, refinement `KeepsPromise`, liveness `LogSeals` |
| `consent` | an owner and a member, an issue, a schedule, 1 or 2 overlapping requests | `TypeOK`, `InheritedIsBacked`, `StaleClaimsAreReleased`, `LaunchesAreConsented`, refinement `ImplementsPromise` |
| `runner` | families `policy` (2 boots, 3 policies, 2 polls at once, or 1 and a rotation of the token), `holds` (2 ends noted, 1 pass), `chain` (3 runs on one session), `sweep` (2 runs and a sweep) | `TypesOK`, `AppliedIsTrue`, `FencedIsSilent`; `OneCountPerIncident`; `NothingIsPinned`, `HandoverIsExclusive`, `RecordedRunsAreSafe` |
| `board` | families `schedules`, `prompt`, `prompts`, `skill`, `uploads`, `gate`, `graph`, `movers`, `claims`, `links`, `chains`, `items`, `seats` | `TypesOK`; `OneOutcomePerOccurrence`, `NoBackfill`; `NoLostUpdate`; `VersionsStand`, `WitnessedMovesAreGated`; `ActiveRunsStay`, `MovesAsReviewed`; `LinksAcyclic`; `OwnChainsFit` |
| `doc_launching`, `doc_files`, `doc_tear` | the smallest instances that reach the case | the findings of section 6 |

Each property is stated in words above its definition. Each has a mutant in
`PROJECT.json`: a plausible bug of the code under which that run fails.

### Bounds

*RunLifecycle.* Every race is between two actors over one row, so two passes,
two polls, two enders suffice; a third run only repeats a choice. Two runs over
two issues are needed for the caps, two runs over one issue for attempts. In
`dispatch` two `todo` slots keep the quota from hiding a double claim. Attempt
limit 1 makes every strike the last one. Daemon crashes are limited to
`MaxCrashes`.

In `polls` the second run, which the device's ceiling needs, comes only where
neither a crash nor a cut connection is about (`TwoPollsOrRuns`, a constraint on
the states TLC goes on from).

*RunLog.* Two chunks of tail, so that an append may also evict nothing and a late
handler may move the row back; four chunks make two parts, one more than a seal
may read (`CompactMax` = 1; the trigger is not above it, as in the code: 64 and
256). The run does not combine lost requests with a trimmed queue, nor two
keepers: with either `DroppedIsStored` is violated, by what the code does
(section 6): TLC needs 21 states with a queue of two, and 20 with two keepers.
Evictions of a keeper are limited to one (`MaxEvictions`), which `RepeatsAreTorn`
counts.

*Consent* (`MCConsent`). One request at a time beside all single-step operations,
from an unshared project whose schedule is yet to be made; and two overlapping
requests in a shared project with its member and no schedule. Two changes of a
choice, one decision, three changes of membership, one permission of a schedule.
Two requests beside a schedule that changes are left to review.

*Runner* (`MCRunner`). Two polls at once when the token stays, one when it is
rotated; two revisions. Instants up to 5 with a base backoff of 2 capped at 3, a
default hold of 2 and a longest one of 4, so that holds of every kind overlap,
and handlers live one instant. Handovers start from one kept session: either
three runs in a row and no sweep, or two runs and one sweep arm at a time, which
with three runs is beyond ten million states.

*Board* (`MCBoard`). Parts write tables of their own, so each is explored with
the others at rest. Schedules: period 2 or 1, two overlapping invocations,
instants to 2, two issues, two revisions; a schedule starts enabled exactly when
its gate is open, the gate stays as it starts, and only a project whose schedule
is open is archived. Context items: one prompt with moves of its issue, two
prompts with one edit and no move, one skill; two requests, two edits, one move,
one retry. Artifacts: four uploads and no transition, or one upload with two
transitions and either workflow edits (`graph`: one transition) or none
(`gate`); three versions, two decisions (three in `doc_files`, where they do not
matter). Transfers: two people, two projects and edits without claims, or one
person with a pass. Links: three issues, two requests, plans of two edges.
Workflows: two of them with three states, chains of at most two (three in the
code); two overlapping requests on pointers with two saves of each workflow, or
one request at a time beside an item that is attached, edited and deleted
(`items`), or beside an issue, a schedule and default pointers (`seats`).

`CHECK_DEADLOCK FALSE` everywhere, because every instance ends when its runs,
instants or revisions are used up. Symmetry is over identities that no module
orders, and not used with liveness.

### Fairness

- `HandlersRun`: a call of `endRun` and a poll's handler that are not evicted go
  on. Strong fairness, because an eviction disables them and they come back;
  the assumption is that evictions do not hit one statement for ever.
- `SweepsRun`: the cron runs every five minutes (`wrangler.jsonc:16`) and its
  arms re-examine what is still pending.
- `DaemonsRun`: a daemon that is not gone polls on a timer, reports the runs
  whose harness exits or is killed at the run's own timeout, and reports the
  orphans of its last life. Nothing is assumed of the harness of a run that has
  already ended elsewhere: `ZombieKilled` rests on the poll that kills it.
- `KeepersRun`: weak fairness of compaction and sealing, from the same cron.
- Passes, people and agents owe nothing; no liveness depends on a pass. The
  other modules state no fairness: what they promise are safety properties.

## 5. Proofs

The theorems need no fairness and hold for every value of the constants under
the named assumptions of each module, which the runs evaluate: finiteness where
something is counted (`SetsAssumption`), limits that are naturals, a positive
attempt limit, occurrences that are strictly later and monotone
(`OccurrenceAssumption`), patches that name what the request schemas admit
(`ContextAssumption`), two people who differ (`PeopleAssumption`), a handler
that is done within the shortest hold, which is a minute in the code
(`AgeAssumption`). `PowerAssumption` of `RunnerHolds` says that a power of two is
a positive natural: the provers know nothing of `^`. The bounds of section 4 are constants too, so the
theorems hold for any number of requests, boots, edits, revisions and versions.

| Module | Theorems | Argument |
|---|---|---|
| `RunLifecycle_proofs`, claims | `TypeCorrect`, `ClaimsAreExclusive`, `CapsAlwaysHold`, `DispatchImplementsClaims` | `TypeOK` is inductive once each handler record carries "past its first statement it names a run". Then every step is one of three *run moves* (`EveryStepMoves`): nothing, one run going on towards its end, or one unused run claimed under `ClaimGuard`. The invariants follow from the moves alone: moving on only shrinks the set of active runs; a claim adds one run where the guard saw a free issue and a free slot. The refinement uses `ClaimedRows` (a run that is not unused names an issue) and exclusivity, so that the holder is unique |
| `RunLifecycle_proofs`, ends and limits | `EndsAreFinal`, `DeliveryIsOneShot`, `JudgmentsAreEarned`, `BudgetAlwaysParks`, `MachineNeverOverfull`, `KeysDieWithRuns`, `StopsCostNothing`, `StrikesAreEarned` | Same pattern with *judge moves*, *budget moves* (strike, reset, nothing), *busy moves* (the union of live and dying harnesses grows only within the ceiling) and *key moves*. One-shot delivery is not inductive alone: it needs that an assigned or unused run has been handed out zero times. Judgments need the invariant that whatever an `ender` has decided, with the row as stale as it may be, is still justified when it is written: starts and transitions are never undone. `KeysDieWithRuns` assumes no evictions, as the property does: a live key of an ended run always has an `ender` about to revoke it. For strikes, at most one call settles a run, and with the outcome it recorded, so each strike has a stalled run of its own whose charge is no longer due (`StrikeInv`) |
| `Runner_proofs`, policy | `PolicyTypeCorrect`, `ShownIsTrue`, `RevisionsNamePolicies`, `SupersededIsSilent` | `PolicyInv` relates each poll, each daemon and each answer on its way to the row: no poll knows a revision above the row's, the policy in the row is that of the boot that reported it, and what the row says a boot applied that boot has acknowledged. A heartbeat lands only on the row it read, so the policy changes only together with the revision |
| `Runner_proofs`, holds | `HoldsTypeCorrect`, `HoldsAlwaysFit`, `IncidentsCountOnce` | `HoldsInv`: every incident that was counted lies within the hold that stands, because whoever writes the hold began at most `MaxAge` ago and puts it at least that far ahead, so no write moves it before the present instant. The end of an incident that was counted therefore finds itself inside the hold and is not counted again. The same invariant bounds every hold by the daily probe |
| `Runner_proofs`, the whole runner | `RunnerComposes`, `RunnerTypeCorrect`, `RunnerIsSafe` | Every step of `MCRunner` is a step of one part and a stutter of the others, so a behaviour of the whole is one of each part, and all that was proved of a part holds of the whole. The hand-overs of `MCRunner` start from a session that was kept; `KeptFits` shows that this state satisfies `HandInv` |
| `RunLog_proofs`, the row | `TypeCorrect`, `LogAlwaysFits`, `PartsLandFirst`, `TailInOrder` | No hypothesis on cuts, trims, kills or the number of keepers. `LogInv`: the row's number is above its parts and its tail together, and so is the number of an append above those of the row it read, so that a write on an old row never counts more parts than there are chunks; a keeper merges parts that were spilled, and its buffer holds chunks. `TailInv`: the tail rises and ends at or below the row's number, and so does every copy a handler holds; a part that a handler is about to count was put by it and lies above all that a keeper may delete |
| `SessionHandover_proofs` | `HandoverTypeCorrect`, `HandoversAreExclusive`, `NothingStaysPinned`, `RecordedHandlesAreSafe` | `HandInv`: a handle has one owner (the run recorded on it, the end that is to keep it, the row that keeps it, or the launch that made it or took it over), the row a hand-over holds is its own from the claim until it is dropped, the vault has the key of the launch that is about to speak, a disposal owns what it empties, and the run a live session is tagged with uses it, is over, or is on its way to it. `SweepsFit`: none of the runs a sweep found on a handle uses it once the sweep is past looking, because a run that ended does not run again and a handle that runs is not disposed of. All four follow for any behaviour that starts from a state in which `HandInv` holds (`FitSpec`), which the composition needs |
| `Consent_proofs` | `TypeCorrect`, `PermissionIsCurrent`, `InheritanceIsBacked`, `StaleClaimsAreAlwaysReleased`, `LaunchesAreAlwaysConsented`, `TablesImplementPermission` | `PermissionInv`: no row of an issue is newer than the issue's epoch or its speaker's membership; every row of a schedule has the current epoch, since whatever changes the epoch rewrites the rows; nobody has said anything before there was something to say it of; an issue that is done has no choice that counts and no claim that would launch. The action properties follow from the ways in which a batch may move the run (`RunMoves`). The refinement maps the rows to the permission a person gave (`Effective`, `Future`, `Inherited`); one lemma per batch shows which step of `PersonalPermission` it is, or that it changes nothing of what that speaks of |
| `RunLog_proofs`, the objects | `NothingDroppedIsMissing`, `LiveLogIsWhole`, `LogKeepsPromise` | `StoreInv` says of the chunks of each spilled part where they are: in the part, in the head, or in what a keeper at work has read and will put; a torn compaction only adds a second place. A spill by a late handler is harmless if it puts what is there already, for which all who may still write must agree on the first chunk of the log (`Agree`). With no cut connection only one handler is at work (`AloneInv`); with some, the chunk on its way stays the head of the queue as long as nothing is trimmed meanwhile (`RoomyInv`). For the refinement a spill takes exactly what the tail begins with, and every other step of handlers and keepers leaves what a reader is given besides the tail as it is |
| `Board_proofs`, schedules | `TypeCorrect`, `OrdinalsStayDense`, `OccurrencesOnce`, `SpansAreNotMadeUp` | `PaceInv`: every outcome of the current definition, and the instant at which it was armed, lie before the due instant, which some instant not after the clock gives (`Paced`); a copy with the row's revision has the row's recurrence. That the due instant only moves forward within a definition rests on occurrences being strictly later and monotone |
| `Board_proofs`, the whole board | `BoardComposes`, `BoardTypeCorrect`, `BoardIsSafe` | As for the runner: the parts write tables of their own, so each behaviour of `MCBoard` is one of every part. `TypesOK` follows by cases on the family |
| `Issues_proofs` | `TransferTypeCorrect`, `RunsKeepTheirIssue`, `ReviewsAreHonoured`; `LinksTypeCorrect`, `LinksStayAcyclic`; `FlowsTypeCorrect`, `OwnChainsAlwaysFit` | `TransferInv`: the number given out is above every number the ledger holds for the project, a maximum that is attained; what a person has signed was read in order. Acyclicity: an edge is refused when its target reaches its source, so a set that is closed under the graph separates the two ends; for a plan, the least index that would close a cycle is taken, by well-foundedness of the naturals (first-order, with no induction over an operator). `FlowsInv`: a save that was checked still fits while its workflow has the revision it read, and nobody else has the ids it minted (`PlansFit`, `SaversFit`); what it read of other workflows the batch checks again by witnesses and foreign keys, as far as they go. Chains: the function that climbs a chain exists, by the least-number principle (`ClimbsExist`), and a chain gets no longer when pointers are cleared (`FewerPointers`), which is all that a deletion or a save of another workflow does to it |
| `Documents_proofs` | `ContextTypeCorrect`, `NoUpdateIsLost`; `ArtifactsTypeCorrect`, `VersionsAlwaysStand`, `WitnessesGate` | `ContextInv`: a row that was read and whose version still stands is the item's, but for the scope, which a transfer changes without a new version, and a skill's files. `WritersInv`: an upload for a new item has its id to itself, the objects it has put stay while it may still commit, and a prefix that is swept is never the artifact's. `MoversInv`: while the revisions a caller named stand, what it checked holds, or the artifact was deleted since. The types say that names stay unique in a scope, and that the cap on versions holds though it is checked long before the commit: a commit needs the number of versions it read |

TLC found each invariant, and the strengthened ones, to hold before it was
proved. `TypeOK` of `RunLifecycle`, `EndIsFinal`, `RevisionNamesPolicy`,
`OrdinalsAreDense`, `PermissionIsCurrent`, `HoldsInv`, `LogInv`, `TailInv`,
`PartsLandFirst`, `LiveLogIsWhole` and `TypeOK` of `RunLog` are only proved now,
and no run repeats them.

The theorems on the log's objects are about any number of keepers, handlers,
kills and torn compactions. What they assume is about the behaviour, not about
the constants, and is what the code does not enforce:

- `KeepersApart`, no two keepers at work at once: two that overlap may seal the
  tail alone, or lose parts to a head read too early (section 6). The sweep
  takes runs one by one; the end of a run may seal beside it,
  and one sweep may still run when the next begins. `LiveLogIsWhole` needs it
  only while the run is active, when nobody seals and only sweeps compact;
- `Uncut \/ [][Roomy]_vars`: either no request outlives its connection, or output
  that comes while a handler is at work finds room in the queue. With both a
  cut and a trim two late handlers may disagree on the log's first chunk, and the
  loser's put replaces the winner's part (`run-log.ts:80`).

Only model-checked: all liveness (`RunEnds`, `KeysDie`, `ZombieKilled`,
`LogSeals`), which these provers do not reach, and `RepeatsAreTorn`, because it
counts copies in a concatenation. Every other property of a passing run is
proved, those of the log under the hypotheses above, of the parts and of the
compositions `MCRunner` and `MCBoard`.

## 6. Findings

Where the code does something a comment or a document says it does not. Each run
named here is expected to violate its property.

1. `doc_launching`, `engine.ts:2140`: a local run whose poll response was lost
   stays `launching` for as long as its daemon keeps polling; the poll
   leaves it to the launch-stall sweep (`runner-protocol.ts:663`) and the sweep
   leaves it to the poll. The timeout looks only at `running` runs, so the issue
   stays claimed until somebody cancels the run or the daemon falls silent.
2. `doc_files`, `context.ts:1381`: the statements after the guarded update of a
   skill ask only whether the row has the version they would have written. It
   also has it when another writer won from the same version, so the loser's
   files replace the winner's, also when its request is answered with a conflict.
3. `doc_tear`, `run-log.ts:143`: a compaction killed between its put of the head
   and its delete of the parts is repeated by the next one, which reads a head
   that already holds the parts and appends them again. The comment there calls
   the outcome "identical bytes", and the head of the file says that no byte is
   stored twice. TLC finds the two copies in 22 states, with one chunk per part
   and one kill.

### Other deviations, seen while modelling

They are not kept as runs. Where a module's property is stated around one of
them, its comment says so and the hazard's note names what is not covered.

*Runs.* `failLaunch` revokes the key without the guard it puts on the status: a
stall sweep with a stale row leaves a run running with a dead key
(`engine.ts:1027`). A transition that commits between `endRun`'s event query and
its compare-and-set leaves an advanced run judged `stalled` (`engine.ts:1441`,
comment at 1452). A pause may cancel a run a poll has just delivered
(`engine.ts:1788`, SPEC.md:58), and a pass that read the runner before the pause
may still assign to it.

*Log.* Two keepers of one log are told apart only after they have written: the
sealed object is put before the compare-and-set that decides who seals, so the
loser can overwrite it with the tail alone, and of two compactions of the same
parts the later put may hold a head without them (`run-log.ts:139-159`, 204). The
success of a send shifts the queue's head, which a trim may have replaced: the
chunk that is shifted was never sent (`support.ts:698`); and repeated trims
announce only the bytes of the last one. An append handled long after its
connection was cut may write back an older tail and sequence number, and the
chunks acknowledged in between are gone if they were not spilled
(`runner-protocol.ts:1466`). When moreover the queue is trimmed, two late
handlers may disagree on the log's first chunk, and the put of the one that
loses the guard replaces the part of the one that won it (`run-log.ts:80`). A
reader in the middle of a compaction sees merged parts twice.

*Runner.* Three boots sharing a token never converge, because only one fenced
boot is remembered. A conflict of the reconciliation is answered with
`runner_conflict`, on which the daemon exits (`daemon.ts:1139`). A poll that was
authenticated before a rotation of the token and admitted after it goes through.
Handlers older than the first backoff count one burst twice or void its backoff
(`engine.ts:1071-1074`, 1096). A failed launch overwrites a longer usage-limit
hold, and a usage limit noted with an old instant shortens a live backoff.

*Sessions.* "A handle an active run holds is never garbage" (`claude-adapter.ts`,
above `liveRunHandles`) fails in the window between deleting the resource row
and recording the successor, and between the end of a run and its retention, if
a sweep makes its reads there: it archives the session, or deletes the vault, of
a live run. `RecordedRunsAreSafe` is the part that holds: a sweep that begins
once the run is recorded. An expired row whose provider call failed stays
`disposing` with no claim instant, which no later sweep lists, although the
comment above `disposeExpiredManagedResources` says the next one takes it; the
other arms collect what it names. A launch that dies between `accepted` and the
deletion of the row leaves the row for ever. A cancel with an old row can
archive the session its run's successor already talks in.

*Schedules.* An edit of the recurrence that straddles the due instant commits an
older `next_run_at` (`schedules.ts:649`), because the sweep moves it without
raising the definition revision (`schedule-sweep.ts:264`): one occurrence is then
acted on twice, under two definitions. An edit that straddles an archive and an
unarchive makes up for the span (`schedules.ts:641-643`); an unarchive prepared
before another one and an edit does not re-arm.

*Consent.* A transition that was read before sharing began and commits after it
neither releases a claim nor resets the choices. A workflow edit goes by the
list of issues it read (`workflows.ts:1285`). `StaleClaimsAreReleased` leaves
both out.

*Links.* Acyclicity does not exclude mutual waiting through duplicates: A blocks
B, A is a duplicate of C, B blocks C (`engine.ts:233-247`). Adding a link does
not check again, in its batch, that the project is not archived; removing one
writes its two events unconditionally.

*Workflows.* A save claims the revision of its own workflow only. Two of them, or
a creation, each with a pointer into the other's workflow, close a loop across
both, or make a chain longer than `MAX_INHERITANCE_CHAIN`; neither check sees the
other's pointer (`workflows.ts:552` wants no stored chain to exceed the cap).
`OwnChainsFit` is the part that holds. Migration 0021 says that "a racing delete
fails the batch rather than silently changing another workflow's prompts": the
batch first clears every pointer onto the states it removes, one committed
after the check included, so the foreign key has nothing left to refuse
(`workflows.ts:1353`, 1723). TLC finds both in five states. A schedule set to
start in a state that is being removed falls back to the initial state, as
migration 0010 says.

*Items, artifacts, transfers.* Deleting an item writes its event
unconditionally. Without the witnesses `expected_*`, a transition whose issue
left and re-entered the state, or whose workflow was edited, between its reads
passes the compare-and-swap. Routing rules and runners carry no timestamp, so a
change made and undone while a review is assembled is not noticed.

## 7. Not modelled

Components with status `not_modelled` in `PROJECT.json` say why; the next ones to
come are in section 2. Rendering, request building, CRUD without a protocol,
the provider's own behaviour and the database itself are left out for good; the
database appears as atomic batches and guarded updates, as D1 provides them.
Of modelled components the rest is named in `PROJECT.json` and in section 3; the
larger parts are the evaluation of cron expressions, invitation mail, shared
guidance, the reset of personal choices by a transfer, env values and the
assembly of prompts, sites and content serving, validation and run scopes in the
editor of workflows.
