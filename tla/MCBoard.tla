-------------------------------- MODULE MCBoard --------------------------------
(* What an account keeps on its board: a schedule, context items, an        *)
(* artifact, an issue that changes projects, links, workflows.  They write  *)
(* tables of their own, so each is explored by itself, from its own initial *)
(* states, with the others at rest, and some in several smaller instances.  *)
EXTENDS Schedules, ContextItems, Artifacts, IssueTransfer, IssueLinks,
        WorkflowEdits, TLC

CONSTANTS p1, p2, n1, n2, t1, a1, i1, i2, s1, m2, f1, f2, g1, g3

VARIABLE family

MCNextAfter(p, t) == (t \div p + 1) * p
MCScopes == {[project |-> p, ofIssue |-> TRUE] : p \in Homes}
MCAsks == {[field |-> "name", value |-> n2], [field |-> "append", value |-> t1],
           [field |-> "body", value |-> <<>>], [field |-> "files", value |-> {}],
           [field |-> "scope", value |-> [project |-> p1, ofIssue |-> FALSE]]}
MCFlowOf == [s \in Stages |-> IF s = g3 THEN f2 ELSE f1]
MCContents == [kind \in {"prompt", "skill"} |-> IF kind = "prompt" THEN {<<>>} ELSE {{"f"}}]

(* The items that are not in play were deleted before. *)
InPlay(items, moves) ==
    home.moves = moves /\ \A i \in Items : item[i] = Unused <=> i \in items

MCInit ==
    /\ family \in {"schedules", "prompt", "prompts", "skill", "uploads", "gate", "graph",
                   "movers", "claims", "links", "chains", "items", "seats"}
    /\ Init /\ sched.period = 2 /\ (sched.enabled = sched.gate)
    /\ family # "schedules" => sched.enabled
    /\ ContextInit /\ home.project = p1
    /\ CASE family = "prompts" -> InPlay(Prompts, MaxTransfers)
         [] family = "prompt" -> InPlay({i1}, 0)
         [] OTHER -> InPlay(Skills, 0)
    /\ ArtifactsInit
    /\ TransferInit
    /\ LinksInit
    /\ family # "links" => filed = {}
    /\ FlowsInit
    /\ family \notin {"chains", "items", "seats"} => minted = {}

(* One request at a time, which changes no pointer. *)
OneSaver ==
    /\ base' = base
    /\ \A r \in Savers :
         LET q == saver'[r] IN
         \/ q = AtRest
         \/ /\ q.pc \in {"save", "delete"} /\ (q.pc = "save" => DOMAIN q.moves = {})
            /\ \A o \in Savers \ {r} : saver'[o] = Resting

MCNext ==
    /\ UNCHANGED family
    /\ \/ /\ family = "schedules" /\ Next
          /\ sched'.gate = sched.gate /\ (archived' => sched.gate)
          /\ UNCHANGED <<contextVars, artifactVars, transferVars, linkVars, flowVars>>
       \/ /\ family \in {"prompt", "prompts", "skill"} /\ ContextNext
          /\ family = "prompts" => Len(edits') <= 1
          /\ UNCHANGED <<vars, artifactVars, transferVars, linkVars, flowVars>>
       \/ /\ family = "uploads" /\ ArtifactsNext /\ UNCHANGED <<mover, graph>>
          /\ UNCHANGED <<vars, contextVars, transferVars, linkVars, flowVars>>
       \/ /\ family = "gate" /\ ArtifactsNext /\ ids' <= 1 /\ UNCHANGED graph
          /\ UNCHANGED <<vars, contextVars, transferVars, linkVars, flowVars>>
       \/ /\ family = "graph" /\ ArtifactsNext /\ ids' <= 1 /\ mover'[m2] = mover[m2]
          /\ UNCHANGED <<vars, contextVars, transferVars, linkVars, flowVars>>
       \/ /\ family = "movers" /\ TransferNext /\ UNCHANGED <<claim, conf>>
          /\ UNCHANGED <<vars, contextVars, artifactVars, linkVars, flowVars>>
       \/ /\ family = "claims" /\ TransferNext /\ person'[a1] = person[a1]
          /\ UNCHANGED <<vars, contextVars, artifactVars, linkVars, flowVars>>
       \/ /\ family = "links" /\ LinksNext
          /\ UNCHANGED <<vars, contextVars, artifactVars, transferVars, flowVars>>
       \/ /\ family = "chains" /\ SavingNext
          /\ UNCHANGED <<vars, contextVars, artifactVars, transferVars, linkVars>>
       \/ /\ family = "items" /\ FlowsNext /\ OneSaver
          /\ board'.seat = NoStage /\ board'.start = NoStage
          /\ \A s \in Stages \ {g1} : board'.item[s] = 0
          /\ \A w \in Flows : ~flow'[w].default
          /\ UNCHANGED <<vars, contextVars, artifactVars, transferVars, linkVars>>
       \/ /\ family = "seats" /\ FlowsNext /\ OneSaver /\ board'.item = board.item
          /\ UNCHANGED <<vars, contextVars, artifactVars, transferVars, linkVars>>

MCSpec == MCInit /\ [][MCNext]_<<family, vars, contextVars, artifactVars, transferVars,
                                 linkVars, flowVars>>

Symmetry == Permutations(Handlers) \cup Permutations(Requests) \cup Permutations(Savers)

(* Every part is well typed. *)
TypesOK ==
    CASE family = "schedules" -> TypeOK
      [] family \in {"prompt", "prompts", "skill"} -> ContextTypeOK
      [] family \in {"uploads", "gate", "graph"} -> ArtifactsTypeOK
      [] family \in {"movers", "claims"} -> TransferTypeOK
      [] family = "links" -> LinksTypeOK
      [] family \in {"chains", "items", "seats"} -> FlowsTypeOK
=============================================================================
