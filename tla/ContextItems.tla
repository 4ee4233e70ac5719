---------------------------- MODULE ContextItems ----------------------------
(***************************************************************************)
(* Writes to context items (api/context.ts): creating, patching, appending *)
(* and deleting, against each other and against the transfer of the issue  *)
(* an item belongs to (api/issue-transfer.ts, which moves the item and     *)
(* keeps its version).                                                     *)
(*                                                                         *)
(* A prompt has a body, a skill has files.  A scope is a project, alone or *)
(* together with the one issue of the model.  The batch of a write is one  *)
(* step, its reads come before it: the row with all checks but one, then   *)
(* the current files and the names taken.  A patch sets one field.         *)
(* Authority, archived projects, env values and positions are left out.    *)
(* MaxEdits, MaxTransfers and WriteRetries bound edits, moves of the       *)
(* issue and attempts (4 for a patch and 5 for an append in the code).     *)
(***************************************************************************)
EXTENDS Naturals, Sequences

CONSTANTS Prompts, Skills,      \* item ids, by kind
          Names, Homes,
          Scopes,               \* scopes in use: a project, with or without the issue
          Contents,             \* what items are created with, by kind
          Asks,                 \* patches in use: a field and its value
          Requests,             \* requests that overlap
          MaxEdits, MaxTransfers, WriteRetries

Items == Prompts \cup Skills

ASSUME ContextAssumption ==
    /\ Prompts \cap Skills = {}
    /\ Scopes \subseteq [project : Homes, ofIssue : BOOLEAN]
    /\ \A ask \in Asks :
         /\ ask.field = "name" => ask.value \in Names
         /\ ask.field = "scope" => ask.value \in [project : Homes, ofIssue : BOOLEAN]
    /\ MaxEdits \in Nat /\ MaxTransfers \in Nat /\ WriteRetries \in Nat

VARIABLES
    item,       \* the context_item rows with their files
    edits,      \* the context.updated events: an item and the version each names
    home,       \* the project of the issue, and how often it moved
    request     \* what each request in flight asked for and read

contextVars == <<item, edits, home, request>>

Waiting == [pc |-> "waiting"]
Unused == [st |-> "unused"]
Deleted == [st |-> "deleted"]

KindOf(i) == IF i \in Prompts THEN "prompt" ELSE "skill"
Live(i) == item[i].st = "live"

(* The unique index on kind, name and exact scope. *)
Taken(i, name, scope) ==
    \E j \in Items \ {i} : /\ Live(j) /\ KindOf(j) = KindOf(i)
                           /\ item[j].name = name /\ item[j].scope = scope

(* The trigger of migration 0027: an item of the issue is in its project. *)
Coherent(scope) == scope.ofIssue => scope.project = home.project

(* Some items may have been deleted, and the issue moved, before. *)
ContextInit ==
    /\ item \in [Items -> {Unused, Deleted}]
    /\ edits = <<>>
    /\ home \in [project : Homes, moves : 0..MaxTransfers]
    /\ request = [r \in Requests |-> Waiting]

-----------------------------------------------------------------------------
(* createContextItem *)

CreateReads(r, i, name, scope, content) ==
    /\ request[r] = Waiting
    /\ Coherent(scope) /\ ~Taken(i, name, scope)
    /\ request' = [request EXCEPT ![r] =
         [pc |-> "create", id |-> i, name |-> name, scope |-> scope, content |-> content]]
    /\ UNCHANGED <<item, edits, home>>

NeverUsed(i) == item[i] = Unused /\ \A r \in Requests : request[r] # Waiting => request[r].id # i

CreateCommits(r) ==
    LET q == request[r] IN
    /\ q.pc = "create"
    /\ item' = IF Taken(q.id, q.name, q.scope) \/ ~Coherent(q.scope) THEN item
               ELSE [item EXCEPT ![q.id] =
                      [st |-> "live", name |-> q.name, scope |-> q.scope,
                       content |-> q.content, version |-> 1]]
    /\ request' = [request EXCEPT ![r] = Waiting]
    /\ UNCHANGED <<edits, home>>

-----------------------------------------------------------------------------
(* Patches and appends *)

Suits(i, ask) ==
    \/ ask.field \in {"name", "scope"}
    \/ i \in Prompts /\ ask.field \in {"body", "append"}
    \/ i \in Skills /\ ask.field = "files"

(* What a request does to a row: a column replaced, or text appended. *)
Applied(patch, row) ==
    CASE patch.field = "append" -> [row EXCEPT !.content = Append(@, patch.value)]
      [] patch.field \in {"body", "files"} -> [row EXCEPT !.content = patch.value]
      [] patch.field = "name" -> [row EXCEPT !.name = patch.value]
      [] patch.field = "scope" -> [row EXCEPT !.scope = patch.value]

(* The caller may say which version it edits (expects). *)
WriteReads(r, i, patch, expects) ==
    /\ request[r] = Waiting /\ Live(i)
    /\ request' = [request EXCEPT ![r] =
         [pc |-> "read", id |-> i, patch |-> patch, expects |-> expects, tries |-> 0,
          row |-> item[i]]]
    /\ UNCHANGED <<item, edits, home>>

(* Names and current files are read after the row; a taken name (422) and  *)
(* a patch that changes nothing end the request.  Appends read no more.    *)
Refused(q) ==
    LET new == Applied(q.patch, q.row) IN
    \/ q.patch.field \in {"name", "scope"} /\ new # q.row /\ Taken(q.id, new.name, new.scope)
    \/ q.patch.field = "scope" /\ ~Coherent(q.patch.value)
    \/ q.patch.field = "files" /\ Live(q.id) /\ q.patch.value = item[q.id].content
    \/ q.patch.field # "files" /\ new = q.row

WritePrepares(r) ==
    LET q == request[r] IN
    /\ q.pc = "read"
    /\ request' = [request EXCEPT ![r] =
                    IF Refused(q) THEN Waiting ELSE [q EXCEPT !.pc = "ready"]]
    /\ UNCHANGED <<item, edits, home>>

Unchanged_SameScope(q) == Live(q.id) /\ item[q.id].scope = q.row.scope

(* The compare-and-swap of a patch is on the version and, since a transfer *)
(* keeps it, on the scope; that of an append on the version alone.         *)
Unchanged(q) ==
    /\ Live(q.id) /\ item[q.id].version = q.row.version
    /\ q.patch.field # "append" => item[q.id].scope = q.row.scope

(* The columns of the row that was read are written back with the patch,   *)
(* except that an append only writes the body and files are kept apart.    *)
Written(q) ==
    LET new == Applied(q.patch, q.row)
        now == item[q.id]
        keeps == q.patch.field # "files" /\ q.id \in Skills IN
    [st |-> "live", version |-> q.row.version + 1,
     name |-> IF q.patch.field = "append" THEN now.name ELSE new.name,
     scope |-> IF q.patch.field = "append" THEN now.scope ELSE new.scope,
     content |-> IF keeps THEN now.content ELSE new.content]

(* A violated index or trigger aborts the batch. *)
Aborts(q) ==
    LET new == Written(q) IN Taken(q.id, new.name, new.scope) \/ ~Coherent(new.scope)

Updated(q) == [id |-> q.id, version |-> q.row.version + 1]

WriteLands(r) ==
    LET q == request[r] IN
    /\ q.pc = "ready" /\ Unchanged(q) /\ ~Aborts(q)
    /\ Len(edits) < MaxEdits
    /\ item' = [item EXCEPT ![q.id] = Written(q)]
    /\ edits' = Append(edits, Updated(q))
    /\ request' = [request EXCEPT ![r] = Waiting]
    /\ UNCHANGED home

(* The statements after the update ask whether the item is at the version  *)
(* after the one that was read.                                            *)
LooksLanded(q) == Live(q.id) /\ item[q.id].version = q.row.version + 1

Retried(q) ==
    IF q.expects \/ q.tries = WriteRetries \/ ~Live(q.id) THEN Waiting
    ELSE [pc |-> "read", id |-> q.id, patch |-> q.patch, expects |-> q.expects,
          tries |-> q.tries + 1, row |-> item[q.id]]

WriteLoses(r) ==
    LET q == request[r] IN
    /\ q.pc = "ready" /\ ~Unchanged(q)
    /\ item' = IF LooksLanded(q) /\ q.patch.field = "files"
               THEN [item EXCEPT ![q.id].content = q.patch.value] ELSE item
    /\ edits' = IF LooksLanded(q) /\ Len(edits) < MaxEdits THEN Append(edits, Updated(q)) ELSE edits
    /\ request' = [request EXCEPT ![r] = Retried(q)]
    /\ UNCHANGED home

(* The batch aborts (409), or the isolate is evicted. *)
RequestEnds(r) ==
    /\ request[r] # Waiting
    /\ request' = [request EXCEPT ![r] = Waiting]
    /\ UNCHANGED <<item, edits, home>>

-----------------------------------------------------------------------------
DeleteItem(i) ==
    /\ Live(i)
    /\ item' = [item EXCEPT ![i] = Deleted]
    /\ UNCHANGED <<edits, home, request>>

(* transferIssueQueries, as far as items go *)
IssueMoves(p) ==
    /\ p # home.project /\ home.moves < MaxTransfers
    /\ home' = [project |-> p, moves |-> home.moves + 1]
    /\ item' = [i \in Items |-> IF Live(i) /\ item[i].scope.ofIssue
                                THEN [item[i] EXCEPT !.scope.project = p] ELSE item[i]]
    /\ UNCHANGED <<edits, request>>

ContextNext ==
    \/ \E r \in Requests, i \in Items :
         \/ \E name \in Names, scope \in Scopes :
              /\ NeverUsed(i)
              /\ \E content \in Contents[KindOf(i)] : CreateReads(r, i, name, scope, content)
         \/ \E ask \in Asks, expects \in BOOLEAN :
              Suits(i, ask) /\ WriteReads(r, i, ask, expects)
    \/ \E r \in Requests :
         \/ CreateCommits(r) \/ WritePrepares(r) \/ WriteLands(r) \/ WriteLoses(r)
         \/ RequestEnds(r)
    \/ \E i \in Items : DeleteItem(i)
    \/ \E p \in Homes : IssueMoves(p)

ContextSpec == ContextInit /\ [][ContextNext]_contextVars

-----------------------------------------------------------------------------
(* Properties *)

ContextTypeOK ==
    /\ home.project \in Homes /\ home.moves \in 0..MaxTransfers
    /\ edits \in Seq([id : Items, version : 2..MaxEdits + 1])
    /\ \A i \in Items :
         Live(i) => /\ item[i].name \in Names /\ item[i].scope.project \in Homes
                    /\ item[i].version \in 1..MaxEdits + 1
                    /\ Coherent(item[i].scope)
                    /\ ~Taken(i, item[i].name, item[i].scope)

(* "A concurrent append or edit can never be half-overwritten": a write of *)
(* row columns changes nothing but what its request asked for, against the *)
(* item as it is at the commit; so two appends both land, a patch never    *)
(* takes back another's name or body, and no edit undoes a transfer.       *)
NoLostUpdate ==
    [][\A r \in Requests :
         LET q == request[r] IN
         q.pc = "ready" /\ request'[r] # q /\ item'[q.id] # item[q.id]
           /\ q.patch.field # "files" =>
             item'[q.id] = [Applied(q.patch, item[q.id]) EXCEPT !.version = @ + 1]]_contextVars

(* "The file replacement plus the event only land if [the guarded update]  *)
(* did": a write that lost its race leaves the item alone.                 *)
LosersWriteNothing ==
    [][\A r \in Requests :
         LET q == request[r] IN
         q.pc = "ready" /\ ~Unchanged(q) /\ request'[r] # q => item' = item]_contextVars
=============================================================================
