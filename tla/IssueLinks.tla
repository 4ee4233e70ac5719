------------------------------- MODULE IssueLinks -------------------------------
(***************************************************************************)
(* The dependency graph of an account (api/issue-links.ts): adding a link, *)
(* filing an issue together with its links (createIssue of api/issues.ts)  *)
(* and removing one.  A plan is the sequence of edges one request adds; it *)
(* is made and, when an issue is filed, checked well before the batch that *)
(* inserts it, which is one step.                                          *)
(*                                                                         *)
(* All issues are one account's and are never deleted.  Archived projects, *)
(* access and a run's binding are left out: they only refuse requests.     *)
(* MaxPlan bounds the links an issue is filed with.                        *)
(***************************************************************************)
EXTENDS Naturals, Sequences

CONSTANTS Nodes,        \* issues, filed or not
          Linkers,      \* requests that overlap
          MaxPlan

ASSUME LinkAssumption == MaxPlan \in Nat \ {0}

VARIABLES
    filed,      \* issues that exist
    links,      \* the issue_link rows
    linker      \* each request's plan and the issue it files, if any

linkVars == <<filed, links, linker>>

Off == [pc |-> "off"]
Edges == [source : Nodes, target : Nodes, kind : {"blocks", "duplicate_of"}]

LinksInit ==
    /\ filed \in SUBSET Nodes
    /\ links = {}
    /\ linker = [r \in Linkers |-> Off]

-----------------------------------------------------------------------------
(* Plans *)

(* blocked_by is a blocks edge the other way round. *)
Oriented(i, ask) ==
    [source |-> IF ask.field = "blocked_by" THEN ask.other ELSE i,
     target |-> IF ask.field = "blocked_by" THEN i ELSE ask.other,
     kind |-> IF ask.field = "duplicate_of" THEN "duplicate_of" ELSE "blocks"]

Fields == <<"blocked_by", "blocks", "duplicate_of">>
LinkAsks == [field : {Fields[n] : n \in 1..3}, other : Nodes]

(* The two lists, then the single duplicate_of. *)
InFieldOrder(asks) ==
    \E rank \in [DOMAIN asks -> 1..3] :
        /\ \A k \in DOMAIN asks : asks[k].field = Fields[rank[k]]
        /\ \A j, k \in DOMAIN asks : j < k => rank[j] <= rank[k] /\ rank[j] # 3

-----------------------------------------------------------------------------
(* The admission guard *)

Closed(S, graph) == \A e \in graph : e.source \in S => e.target \in S

(* reachable: no set closed under edges holds a and not b. *)
Reaches(a, b, graph) == \A S \in SUBSET Nodes : a \in S /\ b \notin S => ~Closed(S, graph)

(* The rows of the table and the edges earlier in the plan. *)
GraphAt_StoredOnly(plan, k) == links

GraphAt(plan, k) == links \cup {plan[j] : j \in 1..(k - 1)}

Admits(plan, k) ==
    LET e == plan[k]
        graph == GraphAt(plan, k) IN
    /\ e \notin graph
    /\ ~\E d \in graph : d.kind = "duplicate_of" /\ e.kind = d.kind /\ d.source = e.source
    /\ ~Reaches(e.target, e.source, graph)

(* createIssueLinkAdmissionGuard; as preflight and recheck it is advisory. *)
Admissible(plan) == \A k \in DOMAIN plan : Admits(plan, k)

-----------------------------------------------------------------------------
LinkAsked(r, i, ask) ==
    /\ linker[r] = Off
    /\ i \in filed /\ ask.other \in filed /\ i # ask.other
    /\ linker' = [linker EXCEPT ![r] =
                   [pc |-> "link", files |-> {}, plan |-> <<Oriented(i, ask)>>]]
    /\ UNCHANGED <<filed, links>>

NewId(i) == i \notin filed /\ \A r \in Linkers : linker[r] # Off => i \notin linker[r].files

(* Preflighted before files are staged; the recheck after may refuse it.   *)
FilingAsked(r, i, asks) ==
    /\ linker[r] = Off
    /\ NewId(i)
    /\ InFieldOrder(asks) /\ \A k \in DOMAIN asks : asks[k].other \in filed
    /\ LET plan == [k \in DOMAIN asks |-> Oriented(i, asks[k])] IN
       /\ Admissible(plan)
       /\ linker' = [linker EXCEPT ![r] = [pc |-> "file", files |-> {i}, plan |-> plan]]
    /\ UNCHANGED <<filed, links>>

(* The whole plan, with the issue it files, or nothing. *)
LinksCommit(r) ==
    LET q == linker[r] IN
    /\ q # Off
    /\ IF Admissible(q.plan)
       THEN /\ filed' = filed \cup q.files
            /\ links' = links \cup {q.plan[k] : k \in DOMAIN q.plan}
       ELSE UNCHANGED <<filed, links>>
    /\ linker' = [linker EXCEPT ![r] = Off]

(* Another guard of the request refuses it, or its isolate is evicted. *)
LinkingFails(r) ==
    /\ linker[r] # Off
    /\ linker' = [linker EXCEPT ![r] = Off]
    /\ UNCHANGED <<filed, links>>

RemoveLink(e) ==
    /\ links' = links \ {e}
    /\ UNCHANGED <<filed, linker>>

LinksNext ==
    \/ \E r \in Linkers, i \in Nodes :
         \/ \E ask \in LinkAsks : LinkAsked(r, i, ask)
         \/ \E n \in 0..MaxPlan : \E asks \in [1..n -> LinkAsks] : FilingAsked(r, i, asks)
    \/ \E r \in Linkers : LinksCommit(r) \/ LinkingFails(r)
    \/ \E e \in links : RemoveLink(e)

LinksSpec == LinksInit /\ [][LinksNext]_linkVars

-----------------------------------------------------------------------------
(* Properties *)

LinksTypeOK ==
    /\ filed \subseteq Nodes
    /\ links \subseteq Edges
    /\ \A e \in links : e.source \in filed /\ e.target \in filed
    /\ linker \in [Linkers -> {Off} \cup [pc : {"link", "file"}, files : SUBSET Nodes,
                                          plan : Seq(Edges)]]

(* "Acyclicity is a commit-time invariant for API-created links, including *)
(* concurrent additions with disjoint endpoint pairs": blocks and           *)
(* duplicate_of edges together never close a cycle, whatever plans were    *)
(* checked before each other's commits, and a duplicate has one canonical  *)
(* issue.                                                                  *)
LinksAcyclic ==
    /\ \A e \in links : ~Reaches(e.target, e.source, links)
    /\ \A d, e \in links :
         d.kind = "duplicate_of" /\ e.kind = d.kind /\ d.source = e.source => d = e
=============================================================================
