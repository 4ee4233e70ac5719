----------------------------- MODULE WorkflowEdits -----------------------------
(***************************************************************************)
(* Saving, creating and deleting the workflows of one account              *)
(* (api/workflows.ts): their states and the pointers by which a state      *)
(* inherits context from a base, which may be a state of another workflow. *)
(* Issues, schedules, context items and default pointers refer to states   *)
(* and workflows and change beside.                                        *)
(*                                                                         *)
(* The reads of a request are one step.  Of its own workflow that loses    *)
(* nothing: the claim of the revision admits only what is read last.  What *)
(* it reads of others is advisory, or checked again by a witness or a      *)
(* foreign key.  Names, categories, positions, transitions and the initial *)
(* state are left out, and so is access.  A request that needs consent     *)
(* (force_delete_context, force_clear_inheritance) has given it for what   *)
(* it read.  RevisionCap and MaxItemWrites bound saves and writes of items.*)
(***************************************************************************)
EXTENDS Naturals

CONSTANTS Flows,            \* workflow ids
          Stages,           \* ids of workflow_state rows
          FlowOf,           \* the workflow each is made for
          Savers,           \* requests that overlap
          MaxChain,         \* MAX_INHERITANCE_CHAIN
          RevisionCap, MaxItemWrites,
          NoStage

ASSUME FlowsAssumption ==
    /\ FlowOf \in [Stages -> Flows]
    /\ MaxChain \in Nat \ {0} /\ RevisionCap \in Nat /\ MaxItemWrites \in Nat
    /\ NoStage \notin Stages \cup Flows

VARIABLES
    flow,       \* the workflow rows: revision (0: none), states, whether a default
    base,       \* inherits_from_state_id
    minted,     \* ids of states that were ever used
    board,      \* where the issue sits, where the schedule starts, the items by state
    saver       \* what each request read and is about to write

flowVars == <<flow, base, minted, board, saver>>

AtRest == [pc |-> "rest"]
Existing == UNION {flow[w].stages : w \in Flows}
OfFlow(w) == {s \in Stages : FlowOf[s] = w}

(* An odd number of writes: there is an item now. *)
Attached(s) == board.item[s] % 2 = 1
AttachedTo(S) == [s \in {t \in S : Attached(t)} |-> board.item[s]]

-----------------------------------------------------------------------------
(* Inheritance *)

(* The chain of s holds at most MaxChain states, so it does not loop. *)
Fits(pointer, s) ==
    LET up[n \in 0..MaxChain] ==
            IF n = 0 THEN s
            ELSE IF up[n - 1] = NoStage THEN NoStage ELSE pointer[up[n - 1]]
    IN  up[MaxChain] = NoStage

(* s is r or inherits from it; r is one of keep, and those between are not. *)
ReachesFirst(pointer, keep, s, r) ==
    LET up[n \in 0..MaxChain] ==
            IF n = 0 THEN s
            ELSE IF up[n - 1] \in keep \cup {NoStage} THEN up[n - 1] ELSE pointer[up[n - 1]]
    IN  up[MaxChain] = r

(* resolveInheritance for the states keep with pointers to, of which drop  *)
(* are removed: bases exist, chains fit upwards and below.                 *)
Resolves(keep, drop, to) ==
    LET pointer == [s \in Stages |-> IF s \in keep THEN to[s] ELSE base[s]] IN
    /\ \A s \in keep :
         /\ to[s] # s
         /\ to[s] \in keep \cup (Existing \ drop) \cup {NoStage} \/ to[s] = base[s]
         /\ Fits(pointer, s)
    /\ \A s \in Existing \ keep, r \in keep :
         to[r] # NoStage /\ ReachesFirst(pointer, keep, s, r) => Fits(pointer, s)

(* inheritingChildren: who points at one of S, with the base each has. *)
ChildrenOf(S, gone) == {<<c, base[c]>> : c \in {d \in Existing \ gone : base[d] \in S}}

Unpointed(S) == [s \in Stages |-> IF base[s] \in S THEN NoStage ELSE base[s]]

FlowsInit ==
    /\ flow \in [Flows -> [rev : {0, 1}, stages : SUBSET Stages, default : {FALSE}]]
    /\ \A w \in Flows : /\ flow[w].stages \subseteq OfFlow(w)
                        /\ flow[w].rev = 0 <=> flow[w].stages = {}
    /\ minted = Existing
    /\ base = [s \in Stages |-> NoStage]
    /\ board = [seat |-> NoStage, start |-> NoStage, item |-> [s \in Stages |-> 0]]
    /\ saver = [r \in Savers |-> AtRest]

-----------------------------------------------------------------------------
(* updateWorkflow *)

(* keep is what the request leaves or adds, to its pointers once resolved  *)
(* (a state it does not mention keeps the pointer that was read).          *)
SaveReads(r, w, keep, to) ==
    LET stages == flow[w].stages
        drop == stages \ keep
        cleared == {p \in ChildrenOf(drop, drop) : p[1] \in keep => to[p[1]] = p[2]} IN
    /\ saver[r] = AtRest
    /\ flow[w].rev > 0
    /\ keep # {} /\ keep \subseteq OfFlow(w) /\ (keep \ stages) \cap minted = {}
    /\ board.seat \notin drop /\ board.start \notin drop
    /\ Resolves(keep, drop, to)
    /\ minted' = minted \cup keep
    /\ saver' = [saver EXCEPT ![r] =
         [pc |-> "save", flow |-> w, rev |-> flow[w].rev, keep |-> keep, drop |-> drop,
          moves |-> [s \in {k \in keep : to[k] # base[k]} |-> to[s]],
          items |-> AttachedTo(drop), cleared |-> cleared]]
    /\ UNCHANGED <<flow, base, board>>

(* The first statement of the batch, with its trigger. *)
ClaimsRevision_Any(q) == flow[q.flow].rev > 0

ClaimsRevision(q) == flow[q.flow].rev = q.rev

(* Foreign keys onto the states removed, the witness of each swept item. *)
Releasable(S, items) == board.seat \notin S /\ AttachedTo(S) = items

Sweeps(S) == [s \in Stages |-> IF s \in S /\ Attached(s) THEN board.item[s] + 1 ELSE board.item[s]]

SaveCommits(r) ==
    LET q == saver[r]
        w == q.flow IN
    /\ q.pc = "save"
    /\ IF /\ ClaimsRevision(q) /\ Releasable(q.drop, q.items)
          /\ \A s \in DOMAIN q.moves : q.moves[s] \in (Existing \ q.drop) \cup q.keep \cup {NoStage}
       THEN /\ flow' = [flow EXCEPT ![w].rev = @ + 1, ![w].stages = q.keep]
            /\ base' = [s \in Stages |-> IF s \in DOMAIN q.moves THEN q.moves[s]
                                         ELSE IF s \in q.drop THEN NoStage
                                         ELSE Unpointed(q.drop)[s]]
            /\ board' = [board EXCEPT !.item = Sweeps(q.drop),
                                      !.start = IF @ \in q.drop THEN w ELSE @]
       ELSE UNCHANGED <<flow, base, board>>
    /\ saver' = [saver EXCEPT ![r] = AtRest]
    /\ UNCHANGED minted

-----------------------------------------------------------------------------
(* createWorkflow and deleteWorkflow *)

CreateAsked(r, w, keep, to) ==
    /\ saver[r] = AtRest
    /\ keep # {} /\ keep \subseteq OfFlow(w) /\ OfFlow(w) \cap minted = {}
    /\ Resolves(keep, {}, to)
    /\ minted' = minted \cup keep
    /\ saver' = [saver EXCEPT ![r] = [pc |-> "create", flow |-> w, to |-> to]]
    /\ UNCHANGED <<flow, base, board>>

CreateInserts(r) ==
    LET q == saver[r]
        keep == DOMAIN q.to IN
    /\ q.pc = "create"
    /\ IF \A s \in keep : q.to[s] \in Existing \cup keep \cup {NoStage}
       THEN /\ flow' = [flow EXCEPT ![q.flow].rev = 1, ![q.flow].stages = keep]
            /\ base' = [s \in Stages |-> IF s \in keep THEN q.to[s] ELSE base[s]]
       ELSE UNCHANGED <<flow, base>>
    /\ saver' = [saver EXCEPT ![r] = AtRest]
    /\ UNCHANGED <<minted, board>>

Scheduled(w) == board.start = w \/ board.start \in OfFlow(w)

FlowDeleteReads(r, w) ==
    LET stages == flow[w].stages IN
    /\ saver[r] = AtRest
    /\ flow[w].rev > 0
    /\ board.seat \notin stages /\ ~Scheduled(w)
    /\ saver' = [saver EXCEPT ![r] =
         [pc |-> "delete", flow |-> w, stages |-> stages, default |-> flow[w].default,
          items |-> AttachedTo(stages), cleared |-> ChildrenOf(stages, stages)]]
    /\ UNCHANGED <<flow, base, minted, board>>

(* Every state goes, but only pointers onto those that were read. *)
FlowDeleteCommits(r) ==
    LET q == saver[r]
        w == q.flow
        stages == flow[w].stages IN
    /\ q.pc = "delete"
    /\ IF /\ flow[w].rev > 0 /\ (flow[w].default => q.default)
          /\ Releasable(stages, q.items) /\ ~Scheduled(w)
          /\ \A s \in Existing \ stages : base[s] \notin stages \ q.stages
       THEN /\ flow' = [flow EXCEPT ![w] = [rev |-> 0, stages |-> {}, default |-> FALSE]]
            /\ base' = [s \in Stages |-> IF s \in stages THEN NoStage ELSE Unpointed(q.stages)[s]]
            /\ board' = [board EXCEPT !.item = Sweeps(stages)]
       ELSE UNCHANGED <<flow, base, board>>
    /\ saver' = [saver EXCEPT ![r] = AtRest]
    /\ UNCHANGED minted

(* Another check refuses it, or its isolate is evicted. *)
SaverFails(r) ==
    /\ saver[r] # AtRest
    /\ saver' = [saver EXCEPT ![r] = AtRest]
    /\ UNCHANGED <<flow, base, minted, board>>

-----------------------------------------------------------------------------
(* What refers to states changes beside: issues are filed, moved, deleted; *)
(* schedules start in a state or at their workflow's initial one.          *)

IssueGoes(s) ==
    /\ s \in (Existing \cup {NoStage}) \ {board.seat}
    /\ board' = [board EXCEPT !.seat = s]
    /\ UNCHANGED <<flow, base, minted, saver>>

ScheduleStarts(s) ==
    /\ s \in (Existing \cup {w \in Flows : flow[w].rev > 0} \cup {NoStage}) \ {board.start}
    /\ board' = [board EXCEPT !.start = s]
    /\ UNCHANGED <<flow, base, minted, saver>>

ItemWritten(s) ==
    /\ s \in Existing
    /\ \E n \in IF Attached(s) THEN {1, 2} ELSE {1} :
         /\ board.item[s] + n <= MaxItemWrites
         /\ board' = [board EXCEPT !.item[s] = @ + n]
    /\ UNCHANGED <<flow, base, minted, saver>>

DefaultSet(w) ==
    /\ flow[w].rev > 0
    /\ flow' = [flow EXCEPT ![w].default = ~@]
    /\ UNCHANGED <<base, minted, board, saver>>

SavingNext ==
    \/ \E r \in Savers, w \in Flows : \E keep \in SUBSET OfFlow(w) :
         \E to \in [keep -> Stages \cup {NoStage}] :
            \/ flow[w].rev < RevisionCap /\ SaveReads(r, w, keep, to)
            \/ CreateAsked(r, w, keep, to)
    \/ \E r \in Savers : SaveCommits(r) \/ CreateInserts(r) \/ FlowDeleteCommits(r) \/ SaverFails(r)
    \/ \E r \in Savers, w \in Flows : FlowDeleteReads(r, w)

UsingNext ==
    \/ \E s \in Stages \cup Flows \cup {NoStage} : IssueGoes(s) \/ ScheduleStarts(s)
    \/ \E s \in Stages : ItemWritten(s)
    \/ \E w \in Flows : DefaultSet(w)

FlowsNext == SavingNext \/ UsingNext

FlowsSpec == FlowsInit /\ [][FlowsNext]_flowVars

-----------------------------------------------------------------------------
(* Properties *)

(* With what the foreign keys keep: what is referred to exists. *)
FlowsTypeOK ==
    /\ flow \in [Flows -> [rev : Nat, stages : SUBSET Stages, default : BOOLEAN]]
    /\ \A w \in Flows : flow[w].rev = 0 <=> flow[w].stages = {}
    /\ base \in [Stages -> Stages \cup {NoStage}]
    /\ \A s \in Stages : base[s] # NoStage => {s, base[s]} \subseteq Existing
    /\ board.seat \in Existing \cup {NoStage}
    /\ board.start \in Existing \cup {w \in Flows : flow[w].rev > 0} \cup {NoStage}
    /\ board.item \in [Stages -> Nat] /\ \A s \in Stages : Attached(s) => s \in Existing
    /\ \A r \in Savers : saver[r] = AtRest \/ saver[r].pc \in {"save", "create", "delete"}

(* "No stored chain exceeds the cap", as far as one workflow's revision    *)
(* guards it: chains within a workflow neither loop nor grow too long,     *)
(* whatever saves of it and of the workflows it inherits from overlap.     *)
(* Chains that run through two workflows are not protected: each save      *)
(* claims the revision of its own workflow only (workflows.ts:552).        *)
OwnChainsFit ==
    LET own == [s \in Stages |->
                  IF base[s] # NoStage /\ FlowOf[base[s]] = FlowOf[s] THEN base[s] ELSE NoStage]
    IN  \A s \in Existing : Fits(own, s)
=============================================================================
