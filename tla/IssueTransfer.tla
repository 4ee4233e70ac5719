---------------------------- MODULE IssueTransfer ----------------------------
(***************************************************************************)
(* Moving an issue to another project (api/issue-transfer.ts): the preview *)
(* that brackets its reads with the witness sections and signs them, the   *)
(* confirmation, and the batch guarded by the same sections; against       *)
(* filing (issueInsertQueries), claims of the supervisor, archiving and    *)
(* edits of whatever a review shows.  Addresses are those of migration     *)
(* 0027 and issue-address.ts.                                              *)
(*                                                                         *)
(* A witness is the sections themselves, not their hash.  `conf' stands    *)
(* for what the sections serialise besides assignment and archiving: text  *)
(* rows carry a timestamp, so an edit is a number never seen before;       *)
(* routing rules and runners carry none and can be changed back.           *)
(* MaxMoves and MaxConf bound the moves of an issue and the edits.         *)
(***************************************************************************)
EXTENDS Naturals, FiniteSetsExt

CONSTANTS Issues, Projects,
          Persons,      \* people moving issues: a preview and its confirmations
          Claims,       \* dispatch passes that claim
          Attempts,     \* readings of a preview
          MaxMoves, MaxConf

ASSUME TransferAssumption ==
    MaxMoves \in Nat /\ MaxConf \in Nat /\ Attempts \in Nat \ {0}

VARIABLES
    issue,      \* project, number and assignment token (here: moves so far)
    address,    \* the issue_address ledger
    archivedProjects,   \* projects whose archived_at is set
    conf,
    run,        \* by issue: the assignment token of its active run, if any
    person, claim

transferVars == <<issue, address, archivedProjects, conf, run, person, claim>>

Resting == [pc |-> "resting"]
Unfiled == [project |-> "none", number |-> 0, token |-> 0]
NoActiveRun == [active |-> FALSE, token |-> 0]

TransferInit ==
    /\ issue = [i \in Issues |-> Unfiled]
    /\ address = {}
    /\ archivedProjects = {}
    /\ conf = [text |-> 0, routing |-> 0]
    /\ run = [i \in Issues |-> NoActiveRun]
    /\ person = [p \in Persons |-> Resting]
    /\ claim = [c \in Claims |-> Resting]

Filed(i) == issue[i] # Unfiled

-----------------------------------------------------------------------------
(* Addresses *)

NextIssueNumber_FromOwned(p) ==
    1 + Max({0} \cup {issue[i].number : i \in {j \in Issues : issue[j].project = p}})

(* From the permanent ledger, never only from the issues owned now. *)
NextIssueNumber(p) == 1 + Max({0} \cup {a.number : a \in {b \in address : b.project = p}})

(* The triggers record every address an issue ever gets, with the          *)
(* assignment it came with.                                                *)
Addressed(i, p, token) ==
    address \cup {[project |-> p, number |-> NextIssueNumber(p), issue |-> i, token |-> token]}

(* The project may have been archived since it was checked. *)
FileIssue(i, p) ==
    /\ ~Filed(i)
    /\ issue' = [issue EXCEPT ![i] = [project |-> p, number |-> NextIssueNumber(p), token |-> 0]]
    /\ address' = Addressed(i, p, 0)
    /\ UNCHANGED <<archivedProjects, conf, run, person, claim>>

-----------------------------------------------------------------------------
(* The witness and the preview *)

Sections(i, destination) ==
    [issue |-> issue[i], source |-> issue[i].project \in archivedProjects,
     destination |-> destination \in archivedProjects, conf |-> conf]

PreviewBegins(p, i, destination, attempt) ==
    /\ \/ person[p] = Resting /\ attempt = 1
       \/ /\ person[p].pc = "again" /\ person[p].issue = i
          /\ person[p].to = destination /\ person[p].attempt = attempt
    /\ Filed(i)
    /\ person' = [person EXCEPT ![p] =
         [pc |-> "begun", issue |-> i, to |-> destination, attempt |-> attempt,
          sections |-> Sections(i, destination)]]
    /\ UNCHANGED <<issue, address, archivedProjects, conf, run, claim>>

(* The resolvers read what the review shows; blockers come with it. *)
PreviewAssembles(p) ==
    LET h == person[p] IN
    /\ h.pc = "begun"
    /\ person' = [person EXCEPT ![p] =
         [pc |-> "assembled", issue |-> h.issue, to |-> h.to, attempt |-> h.attempt,
          sections |-> h.sections, review |-> conf,
          blocked |-> h.sections.source \/ h.sections.destination \/ run[h.issue].active]]
    /\ UNCHANGED <<issue, address, archivedProjects, conf, run, claim>>

Settled(h) == Sections(h.issue, h.to) = h.sections

(* Signed only when the sections read after the assembly are the first     *)
(* ones; otherwise everything is read again.                               *)
PreviewSettles(p) ==
    LET h == person[p] IN
    /\ h.pc = "assembled"
    /\ person' = [person EXCEPT ![p] =
         IF Settled(h)
         THEN IF h.blocked THEN Resting
              ELSE [pc |-> "signed", issue |-> h.issue, to |-> h.to,
                    sections |-> h.sections, review |-> h.review]
         ELSE IF h.attempt < Attempts
         THEN [pc |-> "again", issue |-> h.issue, to |-> h.to, attempt |-> h.attempt + 1]
         ELSE Resting]
    /\ UNCHANGED <<issue, address, archivedProjects, conf, run, claim>>

(* The token expires, or nobody confirms. *)
PreviewDropped(p) ==
    /\ person[p].pc = "signed"
    /\ person' = [person EXCEPT ![p] = Resting]
    /\ UNCHANGED <<issue, address, archivedProjects, conf, run, claim>>

-----------------------------------------------------------------------------
(* The confirmation; a token can be confirmed more than once *)

ConfirmReads(p) ==
    LET h == person[p] IN
    /\ h.pc = "signed" /\ h.to # h.sections.issue.project
    /\ Sections(h.issue, h.to) = h.sections /\ ~run[h.issue].active
    /\ person' = [person EXCEPT ![p].pc = "confirming"]
    /\ UNCHANGED <<issue, address, archivedProjects, conf, run, claim>>

StillAsSigned_IssueOnly(h) == issue[h.issue] = h.sections.issue

StillAsSigned(h) == Sections(h.issue, h.to) = h.sections

HasNoRun(i) == ~run[i].active

(* transferIssueQueries, guarded: the sections, no active run, both        *)
(* projects live (which the sections say too).                             *)
TransferCommits(p) ==
    LET h == person[p]
        i == h.issue IN
    /\ h.pc = "confirming"
    /\ IF StillAsSigned(h) /\ HasNoRun(i) /\ {issue[i].project, h.to} \cap archivedProjects = {}
       THEN /\ issue[i].token < MaxMoves
            /\ issue' = [issue EXCEPT ![i] =
                 [project |-> h.to, number |-> NextIssueNumber(h.to), token |-> @.token + 1]]
            /\ address' = Addressed(i, h.to, issue[i].token + 1)
       ELSE UNCHANGED <<issue, address>>
    /\ person' = [person EXCEPT ![p].pc = "signed"]
    /\ UNCHANGED <<archivedProjects, conf, run, claim>>

-----------------------------------------------------------------------------
(* The rest of the system *)

ClaimReads(c, i) ==
    /\ claim[c] = Resting /\ Filed(i) /\ ~run[i].active
    /\ claim' = [claim EXCEPT ![c] = [pc |-> "claim", issue |-> i, token |-> issue[i].token]]
    /\ UNCHANGED <<issue, address, archivedProjects, conf, run, person>>

(* The trigger stale_project_assignment aborts a claim read before a move. *)
AssignmentIsCurrent_Unchecked(c) == TRUE

AssignmentIsCurrent(c) == claim[c].token = issue[claim[c].issue].token

ClaimCommits(c) ==
    LET i == claim[c].issue IN
    /\ claim[c] # Resting
    /\ run' = IF AssignmentIsCurrent(c) /\ ~run[i].active
              THEN [run EXCEPT ![i] = [active |-> TRUE, token |-> claim[c].token]] ELSE run
    /\ claim' = [claim EXCEPT ![c] = Resting]
    /\ UNCHANGED <<issue, address, archivedProjects, conf, person>>

RunFinishes(i) ==
    /\ run[i].active
    /\ run' = [run EXCEPT ![i] = NoActiveRun]
    /\ UNCHANGED <<issue, address, archivedProjects, conf, person, claim>>

ArchiveToggled(p) ==
    /\ archivedProjects' = IF p \in archivedProjects THEN archivedProjects \ {p} ELSE archivedProjects \cup {p}
    /\ UNCHANGED <<issue, address, conf, run, person, claim>>

TextEdited ==
    /\ conf.text < MaxConf
    /\ conf' = [conf EXCEPT !.text = @ + 1]
    /\ UNCHANGED <<issue, address, archivedProjects, run, person, claim>>

RoutingChanged ==
    /\ conf' = [conf EXCEPT !.routing = 1 - @]
    /\ UNCHANGED <<issue, address, archivedProjects, run, person, claim>>

TransferNext ==
    \/ \E i \in Issues, q \in Projects : FileIssue(i, q)
    \/ \E p \in Persons :
         \/ \E i \in Issues, q \in Projects, attempt \in 1..Attempts :
              PreviewBegins(p, i, q, attempt)
         \/ PreviewAssembles(p) \/ PreviewSettles(p) \/ PreviewDropped(p)
         \/ ConfirmReads(p) \/ TransferCommits(p)
    \/ \E c \in Claims : (\E i \in Issues : ClaimReads(c, i)) \/ ClaimCommits(c)
    \/ \E i \in Issues : RunFinishes(i)
    \/ \E q \in Projects : ArchiveToggled(q)
    \/ TextEdited \/ RoutingChanged

TransferSpec == TransferInit /\ [][TransferNext]_transferVars

-----------------------------------------------------------------------------
(* Properties *)

(* An address names one issue for good, and every issue is found under the *)
(* one it has now: no batch ever fails on the ledger's primary key.        *)
TransferTypeOK ==
    /\ issue \in [Issues -> [project : Projects \cup {"none"}, number : Nat, token : Nat]]
    /\ address \subseteq [project : Projects, number : Nat \ {0}, issue : Issues, token : Nat]
    /\ archivedProjects \subseteq Projects
    /\ run \in [Issues -> [active : BOOLEAN, token : Nat]]
    /\ \A a, b \in address :
         a.project = b.project /\ a.number = b.number => a = b
    /\ \A i \in Issues : Filed(i) =>
         \E a \in address : /\ a.issue = i /\ a.project = issue[i].project
                            /\ a.number = issue[i].number /\ a.token = issue[i].token

(* An issue never leaves its project under an active run, nor is a run     *)
(* claimed with what was read of the project it left.                      *)
ActiveRunsStay == \A i \in Issues : run[i].active => run[i].token = issue[i].token

(* What a person confirms is what happens: the issue is still where the    *)
(* review found it, everything timestamped that the review showed is as it *)
(* was shown, and nothing that was checked for the review has changed at   *)
(* the commit, though resolvers, signature and batch read apart.           *)
MovesAsReviewed ==
    [][\A p \in Persons :
         LET h == person[p] IN
         h.pc = "confirming" /\ issue' # issue /\ person'[p] # h =>
             /\ h.review.text = conf.text
             /\ h.sections.conf.routing = conf.routing
             /\ issue[h.issue] = h.sections.issue
             /\ {issue[h.issue].project, h.to} \cap archivedProjects = {}]_transferVars
=============================================================================
