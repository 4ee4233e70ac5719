--------------------------- MODULE SessionHandover ---------------------------
(***************************************************************************)
(* What outlives a managed run: its provider session and its vault, kept   *)
(* for the next run of the issue or collected (supervisor/resume.ts,       *)
(* claude-adapter.ts: launch, finalizeEnd and the sweeps of sweepRunner).  *)
(* One issue on one runner that may resume; RunLifecycle gives the issue   *)
(* one active run at a time.                                               *)
(*                                                                         *)
(* A handle is a session with its vault, named after the run that made     *)
(* both.  Each statement and each provider call is a step, and any of them *)
(* may be the last of its handler.  Whether a conversation still fits      *)
(* (fingerprint, size, settings) is left open.  A handler lives no longer  *)
(* than STALE_TRANSFER_MS, so that a stale claim is never one in flight.   *)
(***************************************************************************)
EXTENDS Naturals

CONSTANTS MaxRuns, Sweeps

ASSUME HandoverAssumption == MaxRuns \in Nat \ {0}

RunIds == 1..MaxRuns
Handles == RunIds

VARIABLES
    run,        \* agent_run: st, the handle recorded (0: none), gc_done
    resource,   \* run_resource, by owner_run_id
    session,    \* at the provider: st, the run it is tagged with and talks for
    vault,      \* at the provider: st, the run whose key it holds
    launch,     \* per run: its launch handler
    ender,      \* per run: its finalizeEnd
    sweep       \* per sweep: what it is about to collect

provider == <<session, vault>>
handoverVars == <<run, resource, session, vault, launch, ender, sweep>>

Free == [pc |-> "free"]
NewRun == [st |-> "unused", handle |-> 0, collected |-> FALSE]
NoRow == [st |-> "none", handle |-> 0, expired |-> FALSE, by |-> 0, phase |-> "none"]
NoSession == [st |-> "none", tag |-> 0, speaker |-> 0]
NoVault == [st |-> "none", key |-> 0]

HandoverInit ==
    /\ run = [r \in RunIds |-> NewRun]
    /\ resource = [r \in RunIds |-> NoRow]
    /\ session = [h \in Handles |-> NoSession]
    /\ vault = [h \in Handles |-> NoVault]
    /\ launch = [r \in RunIds |-> Free]
    /\ ender = [r \in RunIds |-> Free]
    /\ sweep = [w \in Sweeps |-> Free]

ActiveRun(r) == run[r].st \in {"launching", "running"}
EndedRuns == {r \in RunIds : run[r].st = "ended"}

Live(h) == session[h].st = "live"
There(h) == vault[h].st = "there"

Archived(h) == session' = [session EXCEPT ![h].st = IF @ = "live" THEN "archived" ELSE @]
Deleted(h) == vault' = [vault EXCEPT ![h].st = IF @ = "there" THEN "deleted" ELSE @]

-----------------------------------------------------------------------------
(* Launching: the look for a session to resume *)

At(r, pc) == launch[r].pc = pc
Goes(r, pc) == launch' = [launch EXCEPT ![r].pc = pc]
Fresh(r) == launch' = [launch EXCEPT ![r] = [pc |-> "fresh"]]

(* Claimed and flipped to launching; `late' is what `now' makes expired. *)
LaunchBegins(r) ==
    /\ run[r].st = "unused" /\ \A q \in 1..(r - 1) : run[q].st = "ended"
    /\ run' = [run EXCEPT ![r].st = "launching"]
    /\ launch' = [launch EXCEPT ![r] =
         [pc |-> "looking", late |-> {o \in RunIds : resource[o].expired}]]
    /\ UNCHANGED <<resource, provider, ender, sweep>>

(* The newest ended run of the issue; runs are claimed one after another. *)
Newest(runs) == CHOOSE p \in runs : \A q \in runs : q <= p

FindsPredecessor(r) ==
    /\ At(r, "looking")
    /\ LET ended == EndedRuns \ {r} IN
       IF ended = {} THEN Fresh(r)
       ELSE launch' = [launch EXCEPT ![r] =
              [pc |-> "found", late |-> launch[r].late, pred |-> Newest(ended)]]
    /\ UNCHANGED <<run, resource, provider, ender, sweep>>

FindsResource(r) ==
    /\ At(r, "found")
    /\ LET p == launch[r].pred IN
       \/ Fresh(r)
       \/ /\ resource[p].st = "available" /\ p \notin launch[r].late
          /\ launch' = [launch EXCEPT ![r] =
               [pc |-> "claiming", pred |-> p, handle |-> resource[p].handle]]
    /\ UNCHANGED <<run, resource, provider, ender, sweep>>

Claimable_Held(o) == resource[o].st \in {"available", "disposing"}
Claimable(o) == resource[o].st = "available"

(* claimResumeResource *)
ClaimsResource(r) ==
    /\ At(r, "claiming")
    /\ LET p == launch[r].pred IN
       IF Claimable(p)
         THEN /\ resource' = [resource EXCEPT ![p].st = "claimed", ![p].by = r, ![p].phase = "preparing"]
              /\ Goes(r, "rotating")
         ELSE Fresh(r) /\ UNCHANGED resource
    /\ UNCHANGED <<run, provider, ender, sweep>>

-----------------------------------------------------------------------------
(* Launching: the hand-over *)

RotatesKey(r) ==
    /\ At(r, "rotating") /\ There(launch[r].handle)
    /\ vault' = [vault EXCEPT ![launch[r].handle].key = r]
    /\ Goes(r, "retagging")
    /\ UNCHANGED <<run, resource, session, ender, sweep>>

Retags(r) ==
    /\ At(r, "retagging") /\ Live(launch[r].handle)
    /\ session' = [session EXCEPT ![launch[r].handle].tag = r]
    /\ Goes(r, "marking")
    /\ UNCHANGED <<run, resource, vault, ender, sweep>>

(* setTransferPhase: by id, whatever state the row is in. *)
Phase(o, phase) ==
    resource' = IF resource[o].st = "none" THEN resource ELSE [resource EXCEPT ![o].phase = phase]

MarksSending(r) ==
    /\ At(r, "marking")
    /\ Phase(launch[r].pred, "sending") /\ Goes(r, "sending")
    /\ UNCHANGED <<run, provider, ender, sweep>>

(* Nothing has reached the agent: mark the row for disposal, if that       *)
(* succeeds, and launch fresh.                                             *)
AbandonsTransfer(r) ==
    /\ launch[r].pc \in {"rotating", "retagging", "marking"}
    /\ LET p == launch[r].pred IN
       resource' \in {resource} \cup (IF resource[p].st = "claimed" THEN {[resource EXCEPT ![p].st = "disposing"]} ELSE {})
    /\ Fresh(r)
    /\ UNCHANGED <<run, provider, ender, sweep>>

Delivered(r) ==
    /\ At(r, "sending") /\ Live(launch[r].handle)
    /\ session' = [session EXCEPT ![launch[r].handle].speaker = r]

Sends(r) ==
    /\ Delivered(r) /\ Goes(r, "accepting")
    /\ UNCHANGED <<run, resource, vault, ender, sweep>>

AcceptsTransfer(r) ==
    /\ At(r, "accepting")
    /\ Phase(launch[r].pred, "accepted") /\ Goes(r, "dropping")
    /\ UNCHANGED <<run, provider, ender, sweep>>

DropsResource(r) ==
    /\ At(r, "dropping")
    /\ resource' = [resource EXCEPT ![launch[r].pred] = NoRow]
    /\ Goes(r, "releasing")
    /\ UNCHANGED <<run, provider, ender, sweep>>

(* releaseTransferredHandles: the predecessor has nothing to collect. *)
ReleasesPredecessor(r) ==
    /\ At(r, "releasing")
    /\ run' = [run EXCEPT ![launch[r].pred].collected = TRUE]
    /\ Goes(r, "recording")
    /\ UNCHANGED <<resource, provider, ender, sweep>>

-----------------------------------------------------------------------------
(* Launching: from nothing, and how a launch ends *)

MakesVault(r) ==
    /\ At(r, "fresh")
    /\ vault' = [vault EXCEPT ![r] = [st |-> "there", key |-> r]]
    /\ Goes(r, "creating")
    /\ UNCHANGED <<run, resource, session, ender, sweep>>

MakesSession(r) ==
    /\ At(r, "creating")
    /\ session' = [session EXCEPT ![r] = [st |-> "live", tag |-> r, speaker |-> r]]
    /\ launch' = [launch EXCEPT ![r] = [pc |-> "recording", handle |-> r]]
    /\ UNCHANGED <<run, resource, vault, ender, sweep>>

(* The guarded flip to running; a run that is over records nothing. *)
RecordsLaunch(r) ==
    /\ At(r, "recording")
    /\ run' = IF run[r].st = "launching"
                THEN [run EXCEPT ![r].st = "running", ![r].handle = launch[r].handle]
                ELSE run
    /\ launch' = [launch EXCEPT ![r] = Free]
    /\ UNCHANGED <<resource, provider, ender, sweep>>

(* failLaunch, also when the answer to a delivered message is lost; the    *)
(* vault of a session that was not made is deleted if that succeeds.       *)
LaunchThrows(r) ==
    /\ launch[r] # Free
    /\ run' = [run EXCEPT ![r].st = IF @ = "launching" THEN "ended" ELSE @]
    /\ launch' = [launch EXCEPT ![r] = Free]
    /\ \/ UNCHANGED provider
       \/ Delivered(r) /\ UNCHANGED vault
       \/ At(r, "creating") /\ Deleted(r) /\ UNCHANGED session
    /\ UNCHANGED <<resource, ender, sweep>>

LaunchDies(r) ==
    /\ launch[r] # Free
    /\ launch' = [launch EXCEPT ![r] = Free]
    /\ UNCHANGED <<run, resource, provider, ender, sweep>>

(* The sweep's stall arm or a cancel; the launch may still be going on. *)
EndsUnlaunched(r) ==
    /\ run[r].st = "launching"
    /\ run' = [run EXCEPT ![r].st = "ended"]
    /\ UNCHANGED <<resource, provider, launch, ender, sweep>>

-----------------------------------------------------------------------------
(* The end of a run *)

(* adapter.cancel, or a poll that finds its session idle for good, each    *)
(* from a row read while the run was running.                              *)
Interrupts(r) ==
    /\ run[r].handle # 0 /\ Live(run[r].handle)
    /\ Archived(run[r].handle)
    /\ UNCHANGED <<run, resource, vault, launch, ender, sweep>>

(* endRun by a timeout, a cancel or a poll that dies before finalizeEnd. *)
EndsPlainly(r) ==
    /\ run[r].st = "running"
    /\ run' = [run EXCEPT ![r].st = "ended"]
    /\ UNCHANGED <<resource, provider, launch, ender, sweep>>

(* endRun by the poll of the provider, which finalizes: retain or not. *)
EndsByPoll(r, retain) ==
    /\ run[r].st = "running"
    /\ run' = [run EXCEPT ![r].st = "ended"]
    /\ ender' = [ender EXCEPT ![r] = [pc |-> IF retain THEN "superseding" ELSE "archiving"]]
    /\ UNCHANGED <<resource, provider, launch, sweep>>

Finalizes(r, from, to) ==
    /\ ender[r].pc = from
    /\ ender' = [ender EXCEPT ![r] = IF to = "free" THEN Free ELSE [pc |-> to]]
    /\ UNCHANGED <<launch, sweep>>

(* retainResumeResource *)
Supersedes(r) ==
    /\ Finalizes(r, "superseding", "retaining")
    /\ resource' = [o \in RunIds |-> IF resource[o].handle = run[r].handle THEN NoRow ELSE resource[o]]
    /\ UNCHANGED <<run, provider>>

Retains(r) ==
    /\ Finalizes(r, "retaining", "flagging")
    /\ resource' = [resource EXCEPT ![r] = [NoRow EXCEPT !.st = "available", !.handle = run[r].handle]]
    /\ UNCHANGED <<run, provider>>

(* The meta the poll read, with `retained': it undoes a gc_done. *)
Flags(r) ==
    /\ Finalizes(r, "flagging", "free")
    /\ run' = [run EXCEPT ![r].collected = FALSE]
    /\ UNCHANGED <<resource, provider>>

(* Both provider calls are best-effort. *)
LetsSessionGo(r) ==
    /\ Finalizes(r, "archiving", "deleting")
    /\ Archived(run[r].handle) \/ UNCHANGED session
    /\ UNCHANGED <<run, resource, vault>>

LetsVaultGo(r) ==
    /\ Finalizes(r, "deleting", "marking")
    /\ Deleted(run[r].handle) \/ UNCHANGED vault
    /\ UNCHANGED <<run, resource, session>>

MarksCollected(r) ==
    /\ Finalizes(r, "marking", "free")
    /\ run' = [run EXCEPT ![r].collected = TRUE]
    /\ UNCHANGED <<resource, provider>>

EnderDies(r) ==
    /\ ender[r] # Free
    /\ ender' = [ender EXCEPT ![r] = Free]
    /\ UNCHANGED <<run, resource, provider, launch, sweep>>

Expires(o) ==
    /\ resource[o].st # "none" /\ ~resource[o].expired
    /\ resource' = [resource EXCEPT ![o].expired = TRUE]
    /\ UNCHANGED <<run, provider, launch, ender, sweep>>

-----------------------------------------------------------------------------
(* The sweep: disposal of resources *)

Sweeping(w, pc) == sweep[w].pc = pc
Then(w, pc) == sweep' = [sweep EXCEPT ![w].pc = pc]
Rests(w) == sweep' = [sweep EXCEPT ![w] = Free]

(* The claim is older than any handler, and the sweep's stall arm ran.     *)
Stale(o) ==
    LET r == resource[o].by IN r # 0 /\ launch[r] = Free /\ run[r].st # "launching"

(* expiredResumeResources: claim_started_at of a row never claimed is null. *)
Disposable_Unclaimed(o) == resource[o].st = "available" /\ resource[o].expired
Disposable(o) ==
    \/ resource[o].st = "available" /\ resource[o].expired
    \/ resource[o].st \in {"claimed", "disposing"} /\ Stale(o) /\ resource[o].phase # "accepted"

DisposalLists(w, o) ==
    /\ sweep[w] = Free /\ Disposable(o)
    /\ sweep' = [sweep EXCEPT ![w] =
         [pc |-> "taking", owner |-> o, st |-> resource[o].st, handle |-> resource[o].handle]]
    /\ UNCHANGED <<run, resource, provider, launch, ender>>

(* claimResourceDisposal: the row is still in the state it was listed in. *)
DisposalTakes(w) ==
    /\ Sweeping(w, "taking")
    /\ LET o == sweep[w].owner IN
       IF resource[o].st = sweep[w].st
         THEN resource' = [resource EXCEPT ![o].st = "disposing"] /\ Then(w, "dismantling")
         ELSE Rests(w) /\ UNCHANGED resource
    /\ UNCHANGED <<run, provider, launch, ender>>

DisposalArchives(w) ==
    /\ Sweeping(w, "dismantling")
    /\ Archived(sweep[w].handle) /\ Then(w, "emptying")
    /\ UNCHANGED <<run, resource, vault, launch, ender>>

DisposalDeletes(w) ==
    /\ Sweeping(w, "emptying")
    /\ Deleted(sweep[w].handle) /\ Then(w, "forgetting")
    /\ UNCHANGED <<run, resource, session, launch, ender>>

DisposalForgets(w) ==
    /\ Sweeping(w, "forgetting")
    /\ resource' = [resource EXCEPT ![sweep[w].owner] = NoRow]
    /\ Rests(w)
    /\ UNCHANGED <<run, provider, launch, ender>>

-----------------------------------------------------------------------------
(* The sweep: ended runs, vaults by name, sessions by tag *)

Retained(h) == \E o \in RunIds : resource[o].handle = h /\ resource[o].st \in {"available", "claimed"}

(* liveRunHandles *)
Users(h) == {r \in RunIds : ActiveRun(r) /\ run[r].handle = h}

InUse_Never(h) == FALSE
InUse(h) == Users(h) # {}

(* gcEndedRuns lists ended runs that name a handle before it reads what is *)
(* protected; reconcileVaults and reconcileSessions list the provider's    *)
(* after.  The grace a new session has is left out.  `users' are the runs  *)
(* recorded on the handle by then (history).                               *)
Looks(w, kind, h, r) ==
    /\ sweep[w] = Free
    /\ IF kind = "run" THEN run[r].st = "ended" /\ run[r].handle = h /\ ~run[r].collected
       ELSE /\ r = h
            /\ IF kind = "vault" THEN vault[h].st # "deleted" ELSE session[h].st # "archived"
    /\ sweep' = [sweep EXCEPT ![w] =
         [pc |-> "protecting", kind |-> kind, handle |-> h, of |-> r, keep |-> FALSE,
          left |-> {"rows", "runs"}, users |-> Users(h)]]
    /\ UNCHANGED <<run, resource, provider, launch, ender>>

(* protectedHandles: two reads, in either order. *)
Protects(w) ==
    /\ Sweeping(w, "protecting")
    /\ \E read \in sweep[w].left :
         sweep' = [sweep EXCEPT
           ![w].keep = @ \/ (IF read = "rows" THEN Retained(sweep[w].handle) ELSE InUse(sweep[w].handle)),
           ![w].left = @ \ {read},
           ![w].pc = IF sweep[w].left = {read} THEN "listing" ELSE @]
    /\ UNCHANGED <<run, resource, provider, launch, ender>>

Lists(w) ==
    /\ Sweeping(w, "listing")
    /\ LET s == sweep[w] IN
       IF s.keep \/ (s.kind = "vault" /\ ~There(s.handle)) \/ (s.kind = "session" /\ ~Live(s.handle))
       THEN Rests(w)
       ELSE sweep' = [sweep EXCEPT ![w].of = IF s.kind = "session" THEN session[s.handle].tag ELSE @,
                                   ![w].pc = IF s.kind = "run" THEN "deleting" ELSE "judging"]
    /\ UNCHANGED <<run, resource, provider, launch, ender>>

Judges(w) ==
    /\ Sweeping(w, "judging")
    /\ IF ActiveRun(sweep[w].of) THEN Rests(w)
       ELSE Then(w, IF sweep[w].kind = "vault" THEN "deleting" ELSE "archiving")
    /\ UNCHANGED <<run, resource, provider, launch, ender>>

CollectsVault(w) ==
    /\ Sweeping(w, "deleting")
    /\ Deleted(sweep[w].handle)
    /\ IF sweep[w].kind = "run" THEN Then(w, "archiving") ELSE Rests(w)
    /\ UNCHANGED <<run, resource, session, launch, ender>>

CollectsSession(w) ==
    /\ Sweeping(w, "archiving")
    /\ Archived(sweep[w].handle)
    /\ IF sweep[w].kind = "run" THEN Then(w, "marking") ELSE Rests(w)
    /\ UNCHANGED <<run, resource, vault, launch, ender>>

MarksRun(w) ==
    /\ Sweeping(w, "marking")
    /\ run' = [run EXCEPT ![sweep[w].of].collected = TRUE]
    /\ Rests(w)
    /\ UNCHANGED <<resource, provider, launch, ender>>

(* A provider call fails, or the sweep is evicted.  Archiving the session  *)
(* of an ended run is best-effort: the run is marked all the same.         *)
SweepFails(w) ==
    /\ sweep[w] # Free
    /\ \/ Rests(w)
       \/ Sweeping(w, "archiving") /\ sweep[w].kind = "run" /\ Then(w, "marking")
    /\ UNCHANGED <<run, resource, provider, launch, ender>>

SweepGoesOn(w) ==
    \/ DisposalTakes(w) \/ DisposalArchives(w) \/ DisposalDeletes(w) \/ DisposalForgets(w)
    \/ Protects(w) \/ Lists(w) \/ Judges(w)
    \/ CollectsVault(w) \/ CollectsSession(w) \/ MarksRun(w)

LaunchGoesOn(r) ==
    \/ FindsPredecessor(r) \/ FindsResource(r) \/ ClaimsResource(r)
    \/ RotatesKey(r) \/ Retags(r) \/ MarksSending(r) \/ AbandonsTransfer(r) \/ Sends(r)
    \/ AcceptsTransfer(r) \/ DropsResource(r) \/ ReleasesPredecessor(r)
    \/ MakesVault(r) \/ MakesSession(r) \/ RecordsLaunch(r)

EnderGoesOn(r) ==
    \/ Supersedes(r) \/ Retains(r) \/ Flags(r)
    \/ LetsSessionGo(r) \/ LetsVaultGo(r) \/ MarksCollected(r)

HandoverNext ==
    \/ \E r \in RunIds :
         \/ LaunchBegins(r) \/ LaunchGoesOn(r) \/ LaunchThrows(r) \/ LaunchDies(r) \/ EndsUnlaunched(r)
         \/ Interrupts(r) \/ EndsPlainly(r) \/ (\E retain \in BOOLEAN : EndsByPoll(r, retain))
         \/ EnderGoesOn(r) \/ EnderDies(r)
         \/ Expires(r)
    \/ \E w \in Sweeps :
         \/ \E o \in RunIds : DisposalLists(w, o)
         \/ \E kind \in {"run", "vault", "session"}, h \in Handles, r \in RunIds : Looks(w, kind, h, r)
         \/ SweepGoesOn(w) \/ SweepFails(w)

HandoverSpec == HandoverInit /\ [][HandoverNext]_handoverVars

-----------------------------------------------------------------------------
(* Properties *)

Quiet == \A r \in RunIds : launch[r] = Free /\ ender[r] = Free /\ run[r].st # "launching"

HandoverTypeOK ==
    /\ run \in [RunIds -> [st : {"unused", "launching", "running", "ended"},
                           handle : Handles \cup {0}, collected : BOOLEAN]]
    /\ resource \in [RunIds -> [st : {"none", "available", "claimed", "disposing"},
                           handle : Handles \cup {0}, expired : BOOLEAN, by : RunIds \cup {0},
                           phase : {"none", "preparing", "sending", "accepted"}]]
    /\ session \in [Handles -> [st : {"none", "live", "archived"},
                                tag : RunIds \cup {0}, speaker : RunIds \cup {0}]]
    /\ vault \in [Handles -> [st : {"none", "there", "deleted"}, key : RunIds \cup {0}]]
    /\ \A r \in RunIds : run[r].st = "running" => run[r].handle # 0

(* A session that is continued is continued by one run only, as that run:  *)
(* the message finds the run's own key or none, no other run is recorded   *)
(* on the session, and no sweep has won its disposal.                      *)
HandoverIsExclusive ==
    [][\A r \in RunIds, h \in Handles :
         At(r, "sending") /\ session[h].speaker # r /\ session'[h].speaker = r =>
             /\ There(h) => vault[h].key = r
             /\ Users(h) = {}
             /\ \A w \in Sweeps : sweep[w].pc \in {"dismantling", "emptying", "forgetting"}
                                    => sweep[w].handle # h]_handoverVars

(* "A handle an active run holds is never garbage, whatever an ended run   *)
(* still says about it": no sweep that begins once a run is recorded on a  *)
(* handle takes the handle while that run goes on.                         *)
RecordedRunsAreSafe ==
    [][\A w \in Sweeps :
         sweep[w].pc \in {"deleting", "archiving"} /\ sweep'[w] # sweep[w] /\ provider' # provider
           => sweep[w].users \cap Users(sweep[w].handle) = {}]_handoverVars

(* No session and no vault is pinned for ever: when nobody is launching or *)
(* finalizing, what is neither in use nor kept for a resume is in reach of *)
(* some arm of the sweep.  A hand-over that died between accepting and     *)
(* dropping its row is left out: that row is never disposed of.            *)
Kept(h) == \E o \in RunIds : /\ resource[o].handle = h
                             /\ \/ resource[o].st = "available" /\ ~resource[o].expired
                                \/ resource[o].phase = "accepted"
NamedByEnded(h) == \E r \in EndedRuns : run[r].handle = h /\ ~run[r].collected

NothingIsPinned ==
    Quiet => \A h \in Handles : (Live(h) \/ There(h)) /\ Users(h) = {} /\ ~Kept(h) =>
        \/ \E o \in RunIds : resource[o].handle = h /\ Disposable(o)
        \/ /\ ~Retained(h)
           /\ NamedByEnded(h) \/ /\ There(h) => ~ActiveRun(h)
                                 /\ Live(h) => ~ActiveRun(session[h].tag)
=============================================================================
