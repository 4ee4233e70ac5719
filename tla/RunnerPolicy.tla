---------------------------- MODULE RunnerPolicy ----------------------------
(***************************************************************************)
(* Who serves a local runner and how much it may take: the daemon boots    *)
(* that share one runner row (runner-protocol.ts: admission and heartbeat  *)
(* of a poll), the concurrency policy they report and the person who       *)
(* changes the requested cap in the web (runner-concurrency.ts,            *)
(* runners.ts), and the poll loop of the daemon (daemon.ts).               *)
(*                                                                         *)
(* A poll is handled in three statements: authentication, admission of the *)
(* boot, and the heartbeat, a compare-and-swap on all that was read; a     *)
(* daemon that gives up waiting polls again while the old handler goes on. *)
(* Draining, effort capabilities, runs and last_seen_at are left out (runs *)
(* are RunLifecycle's).  0 stands for a null ceiling, request or cap.      *)
(***************************************************************************)
EXTENDS Naturals

CONSTANTS Lives,        \* daemon boots; the instance_id of each is itself
          Policies,     \* what daemons are started with: mode and ceiling
          None,
          MaxCap,       \* the highest ceiling a daemon is started with
          MaxPolls,     \* polls the server works on at once
          MaxRevision, MaxTokens

Modes == {"remote", "local", "legacy"}
Caps == 1..MaxCap
Handlers == 1..MaxPolls

ASSUME PolicyAssumption ==
    /\ MaxCap \in Nat \ {0} /\ MaxPolls \in Nat
    /\ MaxRevision \in Nat /\ MaxTokens \in Nat
    /\ Policies \subseteq [mode : Modes, ceiling : Caps]
    /\ None \notin Lives

VARIABLES
    row,        \* the runner row
    daemon,     \* by boot: its policy, the cap it applied and the poll it awaits
    handler,    \* by poll in the server: the report, what was read, the answer
    operator    \* a change of the cap on its way in updateRunner

policyVars == <<row, daemon, handler, operator>>

Idle == [pc |-> "idle"]

(* A poll that never comes; it lets an instance bound the overlap. *)
Absent == [pc |-> "absent"]
NoAck == [rev |-> 0, cap |-> 0]

PolicyInit ==
    /\ \E c \in Caps, t \in 0..MaxTokens :
         row = [token |-> t, cur |-> None, fenced |-> None, mode |-> "legacy",
                ceiling |-> 0, requested |-> 0, max |-> c, rev |-> 0, conc |-> None,
                applied |-> NoAck, appliedBy |-> None]
    /\ daemon = [l \in Lives |-> [st |-> "off"]]
    /\ handler \in [Handlers -> {Idle, Absent}]
    /\ operator = Idle

-----------------------------------------------------------------------------
(* The daemon *)

(* An opted-in daemon starts from 1 and never advertises its ceiling.      *)
Boot(l, p) ==
    /\ daemon[l].st = "off"
    /\ daemon' = [daemon EXCEPT ![l] =
         [st |-> "up", mode |-> p.mode, ceiling |-> p.ceiling, token |-> row.token,
          eff |-> IF p.mode = "remote" THEN 1 ELSE p.ceiling, ack |-> NoAck, awaits |-> 0]]
    /\ UNCHANGED <<row, handler, operator>>

Up(l) == daemon[l].st = "up"

Poll(l, h) ==
    LET d == daemon[l] IN
    /\ Up(l) /\ d.awaits = 0
    /\ handler[h].pc = "idle" /\ \A k \in 1..h - 1 : handler[k].pc # "idle"
    /\ handler' = [handler EXCEPT ![h] =
         [pc |-> "sent", life |-> l, mode |-> d.mode, ceiling |-> d.ceiling,
          ack |-> d.ack, token |-> d.token, tries |-> 0]]
    /\ daemon' = [daemon EXCEPT ![l].awaits = h]
    /\ UNCHANGED <<row, operator>>

Answered(h) == handler[h].pc \in {"conflict", "unauthorized", "instruct"}

Unheard(l) ==
    LET h == daemon[l].awaits IN
    IF h # 0 /\ Answered(h) THEN [handler EXCEPT ![h] = Idle] ELSE handler

(* The connection is cut; the handler goes on. *)
PollCut(l) ==
    /\ Up(l) /\ daemon[l].awaits # 0
    /\ daemon' = [daemon EXCEPT ![l].awaits = 0]
    /\ handler' = Unheard(l)
    /\ UNCHANGED <<row, operator>>

Crash(l) ==
    /\ Up(l)
    /\ daemon' = [daemon EXCEPT ![l] = [st |-> "gone"]]
    /\ handler' = Unheard(l)
    /\ UNCHANGED <<row, operator>>

(* A conflict or a rejected token ends the daemon; an instruction it can   *)
(* honour is applied and acknowledged with the next poll.                  *)
Applies(d, a) == a.pc = "instruct" /\ d.mode = "remote" /\ a.available /\ a.cap <= d.ceiling

Received(d, a) ==
    IF a.pc \in {"conflict", "unauthorized"} /\ d.mode # "legacy" THEN [st |-> "gone"]
    ELSE IF Applies(d, a)
    THEN [d EXCEPT !.awaits = 0, !.eff = a.cap, !.ack = [rev |-> a.rev, cap |-> a.cap]]
    ELSE [d EXCEPT !.awaits = 0]

Receive(l) ==
    /\ Up(l) /\ daemon[l].awaits # 0 /\ Answered(daemon[l].awaits)
    /\ daemon' = [daemon EXCEPT ![l] = Received(@, handler[daemon[l].awaits])]
    /\ handler' = [handler EXCEPT ![daemon[l].awaits] = Idle]
    /\ UNCHANGED <<row, operator>>

-----------------------------------------------------------------------------
(* The poll in the server *)

Answer(h, a) ==
    handler' = [handler EXCEPT
        ![h] = IF \E l \in Lives : Up(l) /\ daemon[l].awaits = h THEN a ELSE Idle]

(* What a heartbeat uses of the row it read. *)
Seen(r) == [token |-> r.token, mode |-> r.mode, ceiling |-> r.ceiling,
            requested |-> r.requested, max |-> r.max, rev |-> r.rev, conc |-> r.conc,
            applied |-> r.applied, appliedBy |-> r.appliedBy]

Reading(h, r) ==
    handler' = [handler EXCEPT ![h] =
        [pc |-> "admitted", life |-> handler[h].life, mode |-> handler[h].mode,
         ceiling |-> handler[h].ceiling, ack |-> handler[h].ack,
         tries |-> handler[h].tries, row |-> Seen(r)]]

Known(h) ==
    handler' = [handler EXCEPT ![h] =
        [pc |-> "known", life |-> handler[h].life, mode |-> handler[h].mode,
         ceiling |-> handler[h].ceiling, ack |-> handler[h].ack,
         tries |-> handler[h].tries]]

Authenticate(h) ==
    LET q == handler[h] IN
    /\ q.pc = "sent"
    /\ IF q.token # row.token THEN Answer(h, [pc |-> "unauthorized"])
       ELSE IF q.mode = "legacy" THEN Reading(h, row) ELSE Known(h)
    /\ UNCHANGED <<row, daemon, operator>>

Fenced(l) == row.fenced = l

Predecessor_Always(l) == row.cur

Predecessor(l) == IF row.cur # l THEN row.cur ELSE row.fenced

(* admitDaemonInstance: an unfenced boot becomes the current one and its   *)
(* predecessor is fenced.                                                  *)
Admit(h) ==
    LET q == handler[h]
        taken == [row EXCEPT !.cur = q.life, !.fenced = Predecessor(q.life)] IN
    /\ q.pc = "known"
    /\ IF Fenced(q.life)
       THEN Answer(h, [pc |-> "conflict"]) /\ UNCHANGED row
       ELSE Reading(h, taken) /\ row' = taken
    /\ UNCHANGED <<daemon, operator>>

Lesser(a, b) == IF a <= b THEN a ELSE b

(* The cap a person asked for outlives a change of boot, under the new     *)
(* ceiling; without remote control the daemon's own number stands.         *)
NextRequested(q) ==
    CASE q.mode = "remote" ->
           Lesser(IF q.row.mode = "remote" /\ q.row.requested # 0 THEN q.row.requested
                  ELSE q.row.max, q.ceiling)
      [] q.mode \in {"local", "legacy"} -> q.ceiling

NextCeiling(q) == IF q.mode = "legacy" THEN 0 ELSE q.ceiling

PolicyChanged(q) ==
    \/ q.mode # q.row.mode
    \/ NextCeiling(q) # q.row.ceiling
    \/ NextRequested(q) # q.row.requested

NextRevision(q) == IF PolicyChanged(q) THEN q.row.rev + 1 ELSE q.row.rev

(* Only an acknowledgement of what the row asks for now is recorded. *)
Acknowledges(q) ==
    q.mode = "remote" /\ q.ack = [rev |-> NextRevision(q), cap |-> NextRequested(q)]

(* reconciliationGuard; `max' is not compared *)
Unchanged_AnyLife(q) == [Seen(row) EXCEPT !.max = 0] = [q.row EXCEPT !.max = 0]

Unchanged_TokenAndLife(q) ==
    /\ row.token = q.row.token
    /\ q.mode # "legacy" => row.cur = q.life

Unchanged(q) ==
    /\ [Seen(row) EXCEPT !.max = 0] = [q.row EXCEPT !.max = 0]
    /\ q.mode # "legacy" => row.cur = q.life

Reported(q) ==
    [token |-> row.token, cur |-> row.cur, fenced |-> row.fenced,
     mode |-> q.mode, ceiling |-> NextCeiling(q), requested |-> NextRequested(q),
     max |-> NextRequested(q), rev |-> NextRevision(q),
     conc |-> IF q.mode = "legacy" THEN None ELSE q.life,
     applied |-> IF q.mode = "legacy" THEN NoAck
                 ELSE IF Acknowledges(q) THEN q.ack ELSE q.row.applied,
     appliedBy |-> IF q.mode = "legacy" THEN None
                   ELSE IF Acknowledges(q) THEN q.life ELSE q.row.appliedBy]

(* concurrencyInstruction *)
Instruction(q) ==
    [pc |-> "instruct", available |-> q.mode = "remote", rev |-> NextRevision(q),
     cap |-> NextRequested(q)]

Heartbeat(h) ==
    LET q == handler[h] IN
    /\ q.pc = "admitted" /\ Unchanged(q)
    /\ NextRevision(q) <= MaxRevision
    /\ row' = Reported(q)
    /\ Answer(h, Instruction(q))
    /\ UNCHANGED <<daemon, operator>>

(* The row changed under the poll: read it again, three attempts in all,   *)
(* unless token or boot are no longer the ones admitted.                   *)
Reconcile(h) ==
    LET q == handler[h] IN
    /\ q.pc = "admitted" /\ ~Unchanged(q)
    /\ IF q.tries < 2 /\ row.token = q.row.token /\ (q.mode = "legacy" \/ row.cur = q.life)
       THEN handler' = [handler EXCEPT ![h] =
              IF q.mode = "legacy" THEN [q EXCEPT !.row = Seen(row), !.tries = @ + 1]
              ELSE [pc |-> "known", life |-> q.life, mode |-> q.mode,
                    ceiling |-> q.ceiling, ack |-> q.ack, tries |-> q.tries + 1]]
       ELSE Answer(h, [pc |-> "conflict"])
    /\ UNCHANGED <<row, daemon, operator>>

-----------------------------------------------------------------------------
(* The web *)

Adjustable == row.mode = "remote" /\ row.conc # None /\ row.conc = row.cur

ShownApplied_ByAnyBoot ==
    /\ Adjustable
    /\ row.applied.rev = row.rev /\ row.applied.cap = row.requested

(* projectConcurrencyControl: status `applied' *)
ShownApplied ==
    /\ Adjustable
    /\ row.applied.rev = row.rev /\ row.applied.cap = row.requested
    /\ row.appliedBy = row.conc

(* updateRunner checks the cap against the row it read; the person saw the *)
(* same revision.                                                          *)
WithinCeiling(cap) == cap <= row.ceiling

RequestCap(cap) ==
    /\ operator.pc = "idle"
    /\ Adjustable /\ WithinCeiling(cap) /\ cap # row.max
    /\ operator' = [pc |-> "ask", cap |-> cap, rev |-> row.rev, ceiling |-> row.ceiling]
    /\ UNCHANGED <<row, daemon, handler>>

CommitCap ==
    LET o == operator IN
    /\ o.pc = "ask" /\ operator' = Idle
    /\ IF Adjustable /\ row.rev = o.rev /\ row.ceiling = o.ceiling
       THEN /\ row.rev < MaxRevision
            /\ row' = [row EXCEPT !.max = o.cap, !.requested = o.cap, !.rev = o.rev + 1]
       ELSE UNCHANGED row
    /\ UNCHANGED <<daemon, handler>>

(* rotateRunnerToken, and the reconnect of registerRunner: the old token   *)
(* is void and the policy waits for a boot that holds the new one.         *)
RotateToken ==
    /\ row.token < MaxTokens
    /\ row' = [row EXCEPT !.token = @ + 1, !.conc = None, !.appliedBy = None]
    /\ UNCHANGED <<daemon, handler, operator>>

-----------------------------------------------------------------------------
ServerStep(h) == Authenticate(h) \/ Admit(h) \/ Heartbeat(h) \/ Reconcile(h)

PolicyNext ==
    \/ \E l \in Lives :
         \/ \E p \in Policies : Boot(l, p)
         \/ \E h \in Handlers : Poll(l, h)
         \/ PollCut(l) \/ Crash(l) \/ Receive(l)
    \/ \E h \in Handlers : ServerStep(h)
    \/ \E cap \in 1..MaxCap + 1 : RequestCap(cap)
    \/ CommitCap \/ RotateToken

PolicySpec == PolicyInit /\ [][PolicyNext]_policyVars

-----------------------------------------------------------------------------
(* Properties *)

Acks == [rev : Nat, cap : 0..MaxCap]
RunnerRows ==
    [token : 0..MaxTokens, cur : Lives \cup {None}, fenced : Lives \cup {None}, mode : Modes,
     ceiling : 0..MaxCap, requested : 0..MaxCap, max : Caps, rev : Nat,
     conc : Lives \cup {None}, applied : Acks, appliedBy : Lives \cup {None}]

(* The row is well formed: the boot that serves is never the fenced one,   *)
(* so of two daemons that share a token one always goes on.                *)
PolicyTypeOK ==
    /\ row \in RunnerRows
    /\ row.cur # None => ~Fenced(row.cur)
    /\ \A l \in Lives : Up(l) =>
         /\ daemon[l].mode \in Modes /\ daemon[l].ceiling \in Caps /\ daemon[l].eff \in Caps
         /\ daemon[l].ack \in Acks /\ daemon[l].awaits \in Handlers \cup {0}

(* A revision names one policy: no two of mode, ceiling and requested cap  *)
(* ever share a revision, though boots report and a person asks at once;   *)
(* otherwise the acknowledgement of one could pass for the other.          *)
RevisionNamesPolicy ==
    [][/\ row'.rev >= row.rev
       /\ row'.rev = row.rev => /\ row'.mode = row.mode
                                /\ row'.ceiling = row.ceiling
                                /\ row'.requested = row.requested]_policyVars

(* What the web shows as applied is what the serving daemon schedules by,  *)
(* and never more than that machine's ceiling.                             *)
AppliedIsTrue ==
    ShownApplied /\ Up(row.cur) =>
        /\ daemon[row.cur].eff = row.requested
        /\ row.max <= daemon[row.cur].ceiling

(* A poll of a boot that has been superseded, admitted before or arriving  *)
(* after the takeover, changes nothing.                                    *)
FencedIsSilent ==
    [][\A h \in Handlers :
         handler[h].pc \in {"known", "admitted"} /\ handler[h].mode # "legacy"
           /\ Fenced(handler[h].life) /\ handler'[h] # handler[h] => row' = row]_policyVars

=============================================================================
