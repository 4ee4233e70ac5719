------------------------------ MODULE Artifacts ------------------------------
(***************************************************************************)
(* One artifact name on one issue (api/artifacts.ts): attaching a version, *)
(* reaffirming, deleting, and the objects the versions point at in the     *)
(* bucket (artifact-store.ts); with the transition that requires the       *)
(* artifact (checkRequirements and transitionIssue of api/issues.ts).      *)
(*                                                                         *)
(* The batch that writes rows is one step; each object is put before it in *)
(* a step of its own.  An attempt mints one number for its version id and  *)
(* for the item id it may create; an object's key is that item, that       *)
(* number and the file in the version.  The issue has two states: leaving  *)
(* "review" requires the artifact where the workflow says so, leaving      *)
(* "rework" never does.  MaxIds, MaxInstants, MaxDecisions and MaxGraphs   *)
(* bound the attempts, the time, the moves and the workflow edits.         *)
(***************************************************************************)
EXTENDS Naturals, Sequences

CONSTANTS Writers,      \* requests that attach, reaffirm or delete
          Movers,       \* requests that transition the issue
          Types,        \* artifact types in use: text, file, folder
          Required,     \* the type the transition requires
          VersionCap,   \* ARTIFACT_MAX_VERSIONS
          Retries,      \* VERSION_RACE_RETRIES
          MaxIds, MaxInstants, MaxDecisions, MaxGraphs

ASSUME ArtifactAssumption ==
    /\ Types \subseteq {"text", "file", "folder"} /\ Required \in Types
    /\ VersionCap \in Nat \ {0} /\ Retries \in Nat
    /\ MaxIds \in Nat /\ MaxInstants \in Nat /\ MaxDecisions \in Nat /\ MaxGraphs \in Nat

VARIABLES
    instant,
    ids,        \* numbers minted so far
    art,        \* the context_item row of the name (item 0: none) and its versions
    store,      \* objects in the bucket
    visit,      \* the issue's state, state_entered_at and decision_revision
    graph,      \* the workflow's decision_revision and whether "review" is gated
    writer, mover,
    removed     \* history: the artifact was deleted during this visit

artifactVars == <<instant, ids, art, store, visit, graph, writer, mover, removed>>

NotWriting == [pc |-> "free"]
NoArtifact == [item |-> 0, type |-> Required, versions |-> <<>>]

ArtifactsInit ==
    /\ instant = 0 /\ ids = 0 /\ store = {} /\ removed = FALSE
    /\ art = NoArtifact
    /\ visit = [st |-> "review", entered |-> 0, dec |-> 0]
    /\ graph = [rev |-> 0, gated |-> TRUE]
    /\ writer = [w \in Writers |-> NotWriting]
    /\ mover = [m \in Movers |-> NotWriting]

ArtifactsTick ==
    /\ instant < MaxInstants
    /\ instant' = instant + 1
    /\ UNCHANGED <<ids, art, store, visit, graph, writer, mover, removed>>

-----------------------------------------------------------------------------
(* Attaching *)

Count(type) == CASE type = "text" -> 0 [] type = "file" -> 1 [] type = "folder" -> 2

Exists == art.item # 0
Current == art.versions[Len(art.versions)]
ItemOrNew == IF Exists THEN art.item ELSE ids + 1

(* The type of an artifact is immutable, its history is capped. *)
MayAttach(type) == Exists => art.type = type /\ Len(art.versions) < VersionCap

(* A request is at its first attempt, or at one more after a lost race. *)
AtAttempt(w, op, type, tries) ==
    \/ writer[w] = NotWriting /\ tries = 0
    \/ writer[w] = [pc |-> "again", op |-> op, type |-> type, tries |-> tries]

AttachReads(w, type, tries) ==
    /\ AtAttempt(w, "attach", type, tries)
    /\ MayAttach(type) /\ ids < MaxIds
    /\ writer' = [writer EXCEPT ![w] =
         [pc |-> "putting", op |-> "attach", type |-> type, tries |-> tries, at |-> instant,
          item |-> ItemOrNew, base |-> Len(art.versions), left |-> Count(type),
          objects |-> {<<ItemOrNew, ids + 1, n>> : n \in 1..Count(type)}]]
    /\ ids' = ids + 1
    /\ UNCHANGED <<instant, art, store, visit, graph, mover, removed>>

(* The current version again, with the same objects. *)
ReaffirmReads(w, type, tries) ==
    /\ AtAttempt(w, "reaffirm", type, tries)
    /\ Exists /\ MayAttach(type) /\ ids < MaxIds
    /\ writer' = [writer EXCEPT ![w] =
         [pc |-> "putting", op |-> "reaffirm", type |-> type, tries |-> tries, at |-> instant,
          item |-> art.item, base |-> Len(art.versions), left |-> 0,
          objects |-> Current.objects]]
    /\ ids' = ids + 1
    /\ UNCHANGED <<instant, art, store, visit, graph, mover, removed>>

PutObject(w) ==
    LET r == writer[w] IN
    /\ r.pc = "putting" /\ r.left > 0
    /\ store' = store \cup {o \in r.objects : o[3] = r.left}
    /\ writer' = [writer EXCEPT ![w].left = @ - 1]
    /\ UNCHANGED <<instant, ids, art, visit, graph, mover, removed>>

Ready_AtOnce(r) == r.pc = "putting"

Ready(r) == r.pc = "putting" /\ r.left = 0

(* UNIQUE (name in scope) for a new item; for an append UNIQUE (item,      *)
(* version), or the foreign key of an item that is gone.                   *)
Raced(r) ==
    IF r.base = 0 THEN Exists ELSE art.item # r.item \/ Len(art.versions) # r.base

VersionCommits(w) ==
    LET r == writer[w] IN
    /\ Ready(r) /\ ~Raced(r)
    /\ art' = [item |-> r.item, type |-> r.type,
               versions |-> Append(art.versions, [at |-> r.at, objects |-> r.objects])]
    /\ writer' = [writer EXCEPT ![w] = NotWriting]
    /\ UNCHANGED <<instant, ids, store, visit, graph, mover, removed>>

(* retryVersionRace: the whole write again, from its reads, after any      *)
(* violated constraint.                                                    *)
VersionRaces(w) ==
    LET r == writer[w] IN
    /\ Ready(r) /\ Raced(r) /\ r.tries < Retries
    /\ writer' = [writer EXCEPT ![w] =
         [pc |-> "again", op |-> r.op, type |-> r.type, tries |-> r.tries + 1]]
    /\ UNCHANGED <<instant, ids, art, store, visit, graph, mover, removed>>

(* A put, a batch or a prefix delete fails, the retries are spent, or the  *)
(* isolate is evicted.                                                     *)
WriterFails(w) ==
    /\ writer[w] # NotWriting
    /\ writer' = [writer EXCEPT ![w] = NotWriting]
    /\ UNCHANGED <<instant, ids, art, store, visit, graph, mover, removed>>

-----------------------------------------------------------------------------
(* Deleting: rows first, then every object under the item's prefix *)

DeleteReads(w) ==
    /\ writer[w] = NotWriting /\ Exists
    /\ writer' = [writer EXCEPT ![w] = [pc |-> "delete", item |-> art.item]]
    /\ UNCHANGED <<instant, ids, art, store, visit, graph, mover, removed>>

DeleteCommits(w) ==
    LET r == writer[w] IN
    /\ r.pc = "delete"
    /\ IF art.item = r.item THEN art' = NoArtifact /\ removed' = TRUE
       ELSE UNCHANGED <<art, removed>>
    /\ writer' = [writer EXCEPT ![w].pc = "prefix"]
    /\ UNCHANGED <<instant, ids, store, visit, graph, mover>>

Swept(item) == {o \in store : o[1] # item}

PrefixDeleted(w) ==
    /\ writer[w].pc = "prefix"
    /\ store' = Swept(writer[w].item)
    /\ writer' = [writer EXCEPT ![w] = NotWriting]
    /\ UNCHANGED <<instant, ids, art, visit, graph, mover, removed>>

-----------------------------------------------------------------------------
(* The transition: the caller's own read (a witness, if it sends one), the *)
(* issue row, graph and artifacts, the revisions, the compare-and-swap     *)

Fresh == Exists /\ Current.at >= visit.entered

(* checkRequirements: satisfied *)
Satisfied == Fresh /\ art.type = Required

Seen == [st |-> visit.st, dec |-> visit.dec, rev |-> graph.rev]
NoWitness == [st |-> "none", dec |-> 0, rev |-> 0]

MoveAsked(m, witness) ==
    /\ mover[m] = NotWriting
    /\ witness \in {Seen, NoWitness}
    /\ mover' = [mover EXCEPT ![m] = [pc |-> "asked", witness |-> witness]]
    /\ UNCHANGED <<instant, ids, art, store, visit, graph, writer, removed>>

MoveReadsIssue(m) ==
    LET r == mover[m] IN
    /\ r.pc = "asked"
    /\ mover' = [mover EXCEPT ![m] = [pc |-> "row", witness |-> r.witness, st |-> visit.st]]
    /\ UNCHANGED <<instant, ids, art, store, visit, graph, writer, removed>>

(* Freshness is taken against the visit of this later read. *)
MoveReadsRequirements(m) ==
    LET r == mover[m] IN
    /\ r.pc = "row"
    /\ mover' = [mover EXCEPT ![m] =
         [pc |-> "detail", witness |-> r.witness, st |-> r.st,
          met |-> r.st = "review" /\ graph.gated => Satisfied]]
    /\ UNCHANGED <<instant, ids, art, store, visit, graph, writer, removed>>

Witnessed_StateOnly(r) == r.witness # NoWitness => r.witness.st = r.st

Witnessed(r) ==
    r.witness # NoWitness =>
        r.witness = [st |-> r.st, dec |-> visit.dec, rev |-> graph.rev]

MoveReadsDecision(m) ==
    LET r == mover[m] IN
    /\ r.pc = "detail"
    /\ mover' = [mover EXCEPT ![m] =
         IF Witnessed(r) /\ r.met
         THEN [pc |-> "decided", witness |-> r.witness, st |-> r.st, dec |-> visit.dec,
               rev |-> graph.rev, at |-> instant]
         ELSE NotWriting]
    /\ UNCHANGED <<instant, ids, art, store, visit, graph, writer, removed>>

Unmoved(r) == visit.st = r.st /\ visit.dec = r.dec /\ graph.rev = r.rev

MoveCommits(m) ==
    LET r == mover[m] IN
    /\ r.pc = "decided"
    /\ IF Unmoved(r)
       THEN /\ visit.dec < MaxDecisions
            /\ visit' = [st |-> IF visit.st = "review" THEN "rework" ELSE "review",
                         entered |-> r.at, dec |-> visit.dec + 1]
            /\ removed' = FALSE
       ELSE UNCHANGED <<visit, removed>>
    /\ mover' = [mover EXCEPT ![m] = NotWriting]
    /\ UNCHANGED <<instant, ids, art, store, graph, writer>>

GraphEdited ==
    /\ graph.rev < MaxGraphs
    /\ graph' = [rev |-> graph.rev + 1, gated |-> ~graph.gated]
    /\ UNCHANGED <<instant, ids, art, store, visit, writer, mover, removed>>

-----------------------------------------------------------------------------
ArtifactsNext ==
    \/ ArtifactsTick \/ GraphEdited
    \/ \E w \in Writers :
         \/ \E type \in Types, tries \in 0..Retries :
              AttachReads(w, type, tries) \/ ReaffirmReads(w, type, tries)
         \/ PutObject(w) \/ VersionCommits(w) \/ VersionRaces(w) \/ WriterFails(w)
         \/ DeleteReads(w) \/ DeleteCommits(w) \/ PrefixDeleted(w)
    \/ \E m \in Movers :
         \/ \E witness \in {Seen, NoWitness} : MoveAsked(m, witness)
         \/ MoveReadsIssue(m) \/ MoveReadsRequirements(m) \/ MoveReadsDecision(m)
         \/ MoveCommits(m)

ArtifactsSpec == ArtifactsInit /\ [][ArtifactsNext]_artifactVars

-----------------------------------------------------------------------------
(* Properties *)

Objects == (1..MaxIds) \X (1..MaxIds) \X {1, 2}
Versions == [at : 0..MaxInstants, objects : SUBSET Objects]

ArtifactsTypeOK ==
    /\ instant \in 0..MaxInstants /\ ids \in 0..MaxIds /\ removed \in BOOLEAN
    /\ store \subseteq Objects
    /\ art.item \in 0..MaxIds /\ art.type \in Types /\ art.versions \in Seq(Versions)
    /\ Len(art.versions) <= VersionCap /\ (Exists <=> art.versions # <<>>)
    /\ visit \in [st : {"review", "rework"}, entered : 0..MaxInstants, dec : 0..MaxDecisions]
    /\ graph \in [rev : 0..MaxGraphs, gated : BOOLEAN]

(* "No row may reference a missing object", and the history of an artifact *)
(* is in the order of its instants, so that the newest version decides     *)
(* freshness: however uploads, reaffirmations, retries after a lost race   *)
(* and deletions of the artifact and of its predecessors overlap.          *)
VersionsStand ==
    \A k \in DOMAIN art.versions :
        /\ art.versions[k].objects \subseteq store
        /\ \A j \in 1..k : art.versions[j].at <= art.versions[k].at

(* A caller who names the visit and the graph it read is gated on them: it *)
(* never takes the issue through a transition that requires the artifact   *)
(* in a visit in which none was attached (unless it was deleted since,     *)
(* which the code accepts), though check and write are separate reads.     *)
WitnessedMovesAreGated ==
    [][\A m \in Movers :
         mover[m].pc = "decided" /\ visit' # visit /\ mover'[m] # mover[m]
           /\ mover[m].witness # NoWitness /\ visit.st = "review" /\ graph.gated =>
             Satisfied \/ removed]_artifactVars
=============================================================================
