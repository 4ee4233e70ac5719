----------------------------- MODULE Issues_proofs -----------------------------
(***************************************************************************)
(* Theorems about IssueTransfer, IssueLinks and WorkflowEdits, for any     *)
(* number of issues, projects, people, workflows and requests that         *)
(* overlap, and any bounds.                                                *)
(*                                                                         *)
(* Transfers rest on what is never taken back (addresses, tokens, the      *)
(* numbers of texts); links on sets closed under the edges: a set that     *)
(* tells the two ends of an edge apart is all it takes to know that no     *)
(* path leads back, so no path is ever built.  Chains of inheritance are   *)
(* functions that climb, and climb no further when pointers are cleared.   *)
(***************************************************************************)
EXTENDS IssueTransfer, IssueLinks, WorkflowEdits, SequenceTheorems, WellFoundedInduction,
        TLAPS

-----------------------------------------------------------------------------
(* Transfers: types *)

IssueRows == [project : Projects \cup {"none"}, number : Nat, token : Nat]
ConfRows == [text : Nat, routing : 0..1]
SectionRows == [issue : IssueRows, source : BOOLEAN, destination : BOOLEAN, conf : ConfRows]

BegunRows == [pc : {"begun"}, issue : Issues, to : Projects, attempt : Nat,
              sections : SectionRows]
AssembledRows == [pc : {"assembled"}, issue : Issues, to : Projects, attempt : Nat,
                  sections : SectionRows, review : ConfRows, blocked : BOOLEAN]
SignedRows == [pc : {"signed", "confirming"}, issue : Issues, to : Projects,
               sections : SectionRows, review : ConfRows]
AgainRows == [pc : {"again"}, issue : Issues, to : Projects, attempt : Nat]
PersonRows == BegunRows \cup AssembledRows \cup SignedRows \cup AgainRows \cup {Resting}

ClaimRows == [pc : {"claim"}, issue : Issues, token : Nat] \cup {Resting}

TransferRowsOK ==
    /\ issue \in [Issues -> IssueRows]
    /\ address \subseteq [project : Projects, number : Nat \ {0}, issue : Issues, token : Nat]
    /\ archivedProjects \subseteq Projects
    /\ conf \in ConfRows
    /\ run \in [Issues -> [active : BOOLEAN, token : Nat]]
    /\ person \in [Persons -> PersonRows]
    /\ claim \in [Claims -> ClaimRows]

(* Every project has a highest number in the ledger, 0 if it has none.     *)
Numbers(p) == {0} \cup {a.number : a \in {b \in address : b.project = p}}
LedgerHasTop == \A p \in Projects : \E m \in Numbers(p) : \A k \in Numbers(p) : k <= m

LedgerNamesOne == \A a, b \in address : a.project = b.project /\ a.number = b.number => a = b

IssuesAreFound ==
    \A i \in Issues : Filed(i) =>
         \E a \in address : /\ a.issue = i /\ a.project = issue[i].project
                            /\ a.number = issue[i].number /\ a.token = issue[i].token

(* What is read later is not older, and a signature joins the two reads.   *)
ReadsInOrder ==
    \A p \in Persons :
      LET h == person[p] IN
      /\ h.pc = "begun" => h.sections.conf.text <= conf.text
      /\ h.pc = "assembled" => /\ h.sections.conf.text <= h.review.text
                               /\ h.review.text <= conf.text
      /\ h.pc \in {"signed", "confirming"} => h.review.text = h.sections.conf.text

TransferInv ==
    /\ TransferRowsOK
    /\ LedgerHasTop
    /\ LedgerNamesOne
    /\ IssuesAreFound
    /\ ActiveRunsStay
    /\ ReadsInOrder

\* The program counter tells what kind of record a person's handler holds.
LEMMA PersonPc ==
  ASSUME NEW h \in PersonRows
  PROVE  /\ h.pc = "begun" => h \in BegunRows
         /\ h.pc = "assembled" => h \in AssembledRows
         /\ h.pc \in {"signed", "confirming"} => h \in SignedRows
         /\ h.pc = "again" => h \in AgainRows
BY DEF PersonRows, BegunRows, AssembledRows, SignedRows, AgainRows, Resting

\* The sections read in one statement are well formed.
LEMMA SectionsType ==
  ASSUME TransferRowsOK, NEW i \in Issues, NEW q
  PROVE  /\ Sections(i, q) \in SectionRows
         /\ Sections(i, q).conf = conf /\ Sections(i, q).issue = issue[i]
BY DEF TransferRowsOK, Sections, SectionRows

-----------------------------------------------------------------------------
(* Transfers: numbers *)

\* The next number of a project is above every number of its ledger.
LEMMA NextIsNew ==
  ASSUME TransferRowsOK, LedgerHasTop, NEW q \in Projects
  PROVE  /\ NextIssueNumber(q) \in Nat \ {0}
         /\ \A k \in Numbers(q) : k < NextIssueNumber(q)
<1>1. Numbers(q) \subseteq Nat
  BY DEF TransferRowsOK, Numbers
<1>2. \E m \in Numbers(q) : \A k \in Numbers(q) : m >= k
  BY <1>1 DEF LedgerHasTop
<1>3. /\ Max(Numbers(q)) \in Numbers(q)
      /\ \A k \in Numbers(q) : Max(Numbers(q)) >= k
  BY <1>2 DEF Max
<1>4. NextIssueNumber(q) = 1 + Max(Numbers(q))
  BY DEF NextIssueNumber, Numbers
<1> QED BY <1>1, <1>3, <1>4

\* An address that is added under the next number of its project keeps the
\* ledger in order.
LEMMA NextAddress ==
  ASSUME TransferRowsOK, LedgerHasTop, LedgerNamesOne,
         NEW i \in Issues, NEW q \in Projects, NEW t \in Nat,
         address' = Addressed(i, q, t)
  PROVE  /\ address' \subseteq [project : Projects, number : Nat \ {0}, issue : Issues, token : Nat]
         /\ LedgerHasTop' /\ LedgerNamesOne'
         /\ address \subseteq address'
         /\ \E a \in address' : /\ a.issue = i /\ a.project = q
                                /\ a.number = NextIssueNumber(q) /\ a.token = t
<1> DEFINE n == NextIssueNumber(q)
           x == [project |-> q, number |-> n, issue |-> i, token |-> t]
<1>1. n \in Nat \ {0} /\ \A k \in Numbers(q) : k < n
  BY NextIsNew
<1>2. address' = address \cup {x}
  BY DEF Addressed
<1> HIDE DEF n
<1>3. x.project = q /\ x.number = n /\ x.issue = i /\ x.token = t
      /\ x \in [project : Projects, number : Nat \ {0}, issue : Issues, token : Nat]
  BY <1>1
<1> HIDE DEF x
<1>4. ASSUME NEW a \in address, a.project = q
      PROVE  a.number < n
  BY <1>1, <1>4 DEF Numbers
<1>5. LedgerNamesOne'
  <2>1. ASSUME NEW a \in address', NEW b \in address',
               a.project = b.project, a.number = b.number
        PROVE  a = b
    <3>1. \A c \in address : c.project = q => c.number # n
      BY <1>1, <1>4 DEF TransferRowsOK
    <3> QED BY <1>2, <1>3, <2>1, <3>1 DEF LedgerNamesOne
  <2> QED BY <2>1 DEF LedgerNamesOne
<1>6. ASSUME NEW p \in Projects
      PROVE  \E m \in Numbers(p)' : \A k \in Numbers(p)' : k <= m
  <2>1. Numbers(p) \subseteq Nat
    BY DEF TransferRowsOK, Numbers
  <2>2. CASE p = q
    <3>1. Numbers(p)' = Numbers(p) \cup {n}
      BY <1>2, <1>3, <2>2 DEF Numbers
    <3>2. \A k \in Numbers(p)' : k <= n
      BY <1>1, <2>1, <2>2, <3>1
    <3> QED BY <3>1, <3>2
  <2>3. CASE p # q
    <3>1. Numbers(p)' = Numbers(p)
      BY <1>2, <1>3, <2>3 DEF Numbers
    <3> QED BY <3>1 DEF LedgerHasTop
  <2> QED BY <2>2, <2>3
<1>7. LedgerHasTop'
  BY <1>6 DEF LedgerHasTop
<1>8. address' \subseteq [project : Projects, number : Nat \ {0}, issue : Issues, token : Nat]
  BY <1>2, <1>3 DEF TransferRowsOK
<1> QED BY <1>2, <1>3, <1>5, <1>7, <1>8 DEF n

-----------------------------------------------------------------------------
(* Transfers: one lemma per action *)

\* Initially nothing is filed, moved, claimed or reviewed.
LEMMA Transfer_Init == TransferInit => TransferInv
<1> SUFFICES ASSUME TransferInit PROVE TransferInv
  OBVIOUS
<1>1. TransferRowsOK
  BY DEF TransferInit, TransferRowsOK, Unfiled, IssueRows, ConfRows, NoActiveRun,
         PersonRows, ClaimRows
<1>2. LedgerHasTop /\ LedgerNamesOne
  BY DEF TransferInit, LedgerHasTop, LedgerNamesOne, Numbers
<1>3. IssuesAreFound /\ ActiveRunsStay
  BY DEF TransferInit, IssuesAreFound, ActiveRunsStay, Filed, NoActiveRun
<1>4. ReadsInOrder
  BY DEF TransferInit, ReadsInOrder, Resting
<1> QED BY <1>1, <1>2, <1>3, <1>4 DEF TransferInv

\* A step that leaves issues and addresses alone keeps the ledger.
LEMMA LedgerKept ==
  ASSUME TransferInv, issue' = issue, address' = address
  PROVE  LedgerHasTop' /\ LedgerNamesOne' /\ IssuesAreFound'
BY DEF TransferInv, LedgerHasTop, LedgerNamesOne, IssuesAreFound, Numbers, Filed

\* Filing: the new number is above every number the project ever gave.
LEMMA FileIssue_Inv ==
  ASSUME TransferInv, NEW i \in Issues, NEW q \in Projects, FileIssue(i, q)
  PROVE  TransferInv'
<1> DEFINE x == [project |-> q, number |-> NextIssueNumber(q), token |-> 0]
<1>1. /\ issue' = [issue EXCEPT ![i] = x] /\ address' = Addressed(i, q, 0)
      /\ issue[i] = Unfiled
      /\ UNCHANGED <<archivedProjects, conf, run, person, claim>>
  BY DEF FileIssue, Filed
<1>2. NextIssueNumber(q) \in Nat \ {0}
  BY NextIsNew DEF TransferInv
<1>3. /\ address' \subseteq [project : Projects, number : Nat \ {0}, issue : Issues, token : Nat]
      /\ LedgerHasTop' /\ LedgerNamesOne' /\ address \subseteq address'
      /\ \E a \in address' : /\ a.issue = i /\ a.project = q
                             /\ a.number = NextIssueNumber(q) /\ a.token = 0
  BY <1>1, NextAddress DEF TransferInv
<1>4. /\ x \in IssueRows /\ x.token = 0 /\ x.project = q
      /\ x.number = NextIssueNumber(q)
  BY <1>2 DEF IssueRows
<1> HIDE DEF x
<1>5. issue' \in [Issues -> IssueRows] /\ issue'[i] = x
      /\ \A j \in Issues : j # i => issue'[j] = issue[j]
  BY <1>1, <1>4 DEF TransferInv, TransferRowsOK
<1>6. TransferRowsOK'
  BY <1>1, <1>3, <1>5 DEF TransferInv, TransferRowsOK
<1>7. IssuesAreFound'
  BY <1>3, <1>4, <1>5 DEF TransferInv, IssuesAreFound, Filed
<1>8. ActiveRunsStay'
  BY <1>1, <1>4, <1>5 DEF TransferInv, ActiveRunsStay, Unfiled
<1>9. ReadsInOrder'
  BY <1>1 DEF TransferInv, ReadsInOrder
<1> QED BY <1>3, <1>6, <1>7, <1>8, <1>9 DEF TransferInv

\* A step of one person's handler alone: it is enough that its new record
\* is well formed and in order.
LEMMA HandlerStep ==
  ASSUME TransferInv, NEW p \in Persons, NEW x \in PersonRows,
         person' = [person EXCEPT ![p] = x],
         UNCHANGED <<issue, address, archivedProjects, conf, run, claim>>,
         x.pc = "begun" => x.sections.conf.text <= conf.text,
         x.pc = "assembled" => /\ x.sections.conf.text <= x.review.text
                               /\ x.review.text <= conf.text,
         x.pc \in {"signed", "confirming"} => x.review.text = x.sections.conf.text
  PROVE  TransferInv'
<1>1. TransferRowsOK'
  BY DEF TransferInv, TransferRowsOK
<1>2. ReadsInOrder'
  BY DEF TransferInv, TransferRowsOK, ReadsInOrder
<1>3. ActiveRunsStay'
  BY DEF TransferInv, ActiveRunsStay
<1> QED BY <1>1, <1>2, <1>3, LedgerKept DEF TransferInv

\* A preview begins with the sections as they are.
LEMMA PreviewBegins_Inv ==
  ASSUME TransferInv, NEW p \in Persons, NEW i \in Issues, NEW q \in Projects,
         NEW attempt \in 1..Attempts, PreviewBegins(p, i, q, attempt)
  PROVE  TransferInv'
<1> DEFINE x == [pc |-> "begun", issue |-> i, to |-> q, attempt |-> attempt,
                 sections |-> Sections(i, q)]
<1>1. /\ Sections(i, q) \in SectionRows
      /\ Sections(i, q).conf = conf
  BY SectionsType DEF TransferInv
<1>2. x \in PersonRows
  BY <1>1, TransferAssumption DEF PersonRows, BegunRows
<1>3. x.pc = "begun" /\ x.sections.conf.text <= conf.text
  BY <1>1 DEF TransferInv, TransferRowsOK, ConfRows
<1>4. /\ person' = [person EXCEPT ![p] = x]
      /\ UNCHANGED <<issue, address, archivedProjects, conf, run, claim>>
  BY DEF PreviewBegins
<1> HIDE DEF x
<1> QED BY <1>2, <1>3, <1>4, HandlerStep

\* What a review shows is read after its first sections.
LEMMA PreviewAssembles_Inv ==
  ASSUME TransferInv, NEW p \in Persons, PreviewAssembles(p)
  PROVE  TransferInv'
<1> DEFINE h == person[p]
           x == [pc |-> "assembled", issue |-> h.issue, to |-> h.to, attempt |-> h.attempt,
                 sections |-> h.sections, review |-> conf,
                 blocked |-> h.sections.source \/ h.sections.destination \/ run[h.issue].active]
<1>1. /\ h.pc = "begun" /\ person' = [person EXCEPT ![p] = x]
      /\ UNCHANGED <<issue, address, archivedProjects, conf, run, claim>>
  BY DEF PreviewAssembles
<1>2. h \in BegunRows /\ h.sections.conf.text <= conf.text
  BY <1>1, PersonPc DEF TransferInv, TransferRowsOK, ReadsInOrder
<1>3. x \in PersonRows
  <2>1. conf \in ConfRows /\ run[h.issue].active \in BOOLEAN
    BY <1>2 DEF TransferInv, TransferRowsOK, BegunRows
  <2>2. x \in AssembledRows
    BY <1>2, <2>1 DEF BegunRows, AssembledRows, SectionRows
  <2> QED BY <2>2 DEF PersonRows
<1>4. /\ x.pc = "assembled" /\ x.sections.conf.text <= x.review.text
      /\ x.review.text <= conf.text
  BY <1>2 DEF TransferInv, TransferRowsOK, ConfRows
<1> HIDE DEF x
<1> QED BY <1>1, <1>3, <1>4, HandlerStep

\* A preview is signed only if the sections are still the first ones, so that
\* the text read in between is theirs: it never goes back.
LEMMA PreviewSettles_Inv ==
  ASSUME TransferInv, NEW p \in Persons, PreviewSettles(p)
  PROVE  TransferInv'
<1> DEFINE h == person[p]
           signed == [pc |-> "signed", issue |-> h.issue, to |-> h.to,
                      sections |-> h.sections, review |-> h.review]
           again == [pc |-> "again", issue |-> h.issue, to |-> h.to,
                     attempt |-> h.attempt + 1]
<1>1. /\ h.pc = "assembled"
      /\ UNCHANGED <<issue, address, archivedProjects, conf, run, claim>>
      /\ \/ Settled(h) /\ ~h.blocked /\ person' = [person EXCEPT ![p] = signed]
         \/ person' = [person EXCEPT ![p] = again]
         \/ person' = [person EXCEPT ![p] = Resting]
  BY DEF PreviewSettles
<1>2. /\ h \in AssembledRows /\ h.sections.conf.text <= h.review.text
      /\ h.review.text <= conf.text
  BY <1>1, PersonPc DEF TransferInv, TransferRowsOK, ReadsInOrder
<1>3. signed \in PersonRows /\ again \in PersonRows /\ Resting \in PersonRows
  <2>1. signed \in SignedRows /\ again \in AgainRows
    BY <1>2 DEF AssembledRows, SignedRows, AgainRows
  <2> QED BY <2>1 DEF PersonRows
<1>4. CASE Settled(h) /\ person' = [person EXCEPT ![p] = signed]
  <2>1. h.sections.conf = conf
    BY <1>4, <1>2, SectionsType DEF Settled, TransferInv, AssembledRows
  <2>2. h.review.text = h.sections.conf.text
    <3>1. h.review \in ConfRows /\ conf \in ConfRows
      BY <1>2 DEF AssembledRows, TransferInv, TransferRowsOK
    <3>2. h.review.text \in Nat /\ conf.text \in Nat
      BY <3>1 DEF ConfRows
    <3> QED BY <1>2, <2>1, <3>2
  <2>3. signed.pc = "signed" /\ signed.review.text = signed.sections.conf.text
    BY <2>2
  <2> HIDE DEF signed
  <2> QED BY <1>1, <1>3, <1>4, <2>3, HandlerStep
<1>5. CASE person' = [person EXCEPT ![p] = again]
  <2>1. again.pc = "again"
    OBVIOUS
  <2> HIDE DEF again
  <2> QED BY <1>1, <1>3, <1>5, <2>1, HandlerStep
<1>6. CASE person' = [person EXCEPT ![p] = Resting]
  <2>1. Resting.pc = "resting"
    BY DEF Resting
  <2> QED BY <1>1, <1>3, <1>6, <2>1, HandlerStep
<1> QED BY <1>1, <1>4, <1>5, <1>6

\* A signature may be dropped.
LEMMA PreviewDropped_Inv ==
  ASSUME TransferInv, NEW p \in Persons, PreviewDropped(p)
  PROVE  TransferInv'
<1>1. /\ person' = [person EXCEPT ![p] = Resting]
      /\ UNCHANGED <<issue, address, archivedProjects, conf, run, claim>>
  BY DEF PreviewDropped
<1>2. Resting.pc = "resting" /\ Resting \in PersonRows
  BY DEF Resting, PersonRows
<1> QED BY <1>1, <1>2, HandlerStep

\* A signed record that becomes a confirmation, or the reverse, differs in
\* nothing else.
LEMMA SignedMoves ==
  ASSUME NEW h \in SignedRows, NEW pc \in {"signed", "confirming"}, NEW x,
         x = [h EXCEPT !.pc = pc]
  PROVE  /\ x \in SignedRows /\ x.pc = pc
         /\ x.review = h.review /\ x.sections = h.sections
BY DEF SignedRows

\* A confirmation carries the signed record along.
LEMMA ConfirmReads_Inv ==
  ASSUME TransferInv, NEW p \in Persons, ConfirmReads(p)
  PROVE  TransferInv'
<1> DEFINE h == person[p]
           x == [h EXCEPT !.pc = "confirming"]
<1>1. /\ h.pc = "signed" /\ person' = [person EXCEPT ![p] = x]
      /\ UNCHANGED <<issue, address, archivedProjects, conf, run, claim>>
  BY DEF ConfirmReads
<1>2. h \in SignedRows /\ h.review.text = h.sections.conf.text
  BY <1>1, PersonPc DEF TransferInv, TransferRowsOK, ReadsInOrder
<1>3. x \in SignedRows /\ x.pc = "confirming" /\ x.review.text = x.sections.conf.text
  BY <1>2, SignedMoves
<1>4. x \in PersonRows
  BY <1>3 DEF PersonRows
<1> HIDE DEF x
<1> QED BY <1>1, <1>3, <1>4, HandlerStep

\* A commit that moves the issue finds it as it was signed, with no run.
LEMMA CommitMoves ==
  ASSUME TransferInv, NEW p \in Persons, TransferCommits(p), issue' # issue
  PROVE  LET h == person[p] IN
         /\ h \in SignedRows
         /\ StillAsSigned(h) /\ HasNoRun(h.issue)
         /\ {issue[h.issue].project, h.to} \cap archivedProjects = {}
         /\ issue' = [issue EXCEPT ![h.issue] =
              [project |-> h.to, number |-> NextIssueNumber(h.to),
               token |-> issue[h.issue].token + 1]]
         /\ address' = Addressed(h.issue, h.to, issue[h.issue].token + 1)
<1>1. person[p] \in SignedRows
  BY PersonPc DEF TransferInv, TransferRowsOK, TransferCommits
<1> QED BY <1>1 DEF TransferCommits, SignedRows, TransferInv, TransferRowsOK

\* A transfer moves an issue without a run to a number never given.
LEMMA TransferCommits_Inv ==
  ASSUME TransferInv, NEW p \in Persons, TransferCommits(p)
  PROVE  TransferInv'
<1> DEFINE h == person[p]
           y == [h EXCEPT !.pc = "signed"]
<1>1. /\ h.pc = "confirming" /\ person' = [person EXCEPT ![p] = y]
      /\ UNCHANGED <<archivedProjects, conf, run, claim>>
  BY DEF TransferCommits
<1>2. h \in SignedRows /\ h.review.text = h.sections.conf.text
  BY <1>1, PersonPc DEF TransferInv, TransferRowsOK, ReadsInOrder
<1>3. y \in SignedRows /\ y.pc = "signed" /\ y.review.text = y.sections.conf.text
  BY <1>2, SignedMoves
<1>4. y \in PersonRows
  BY <1>3 DEF PersonRows
<1> HIDE DEF y
<1>5. CASE issue' = issue
  <2>1. address' = address
    <3>1. h.issue \in Issues /\ issue[h.issue].token \in Nat
      BY <1>2 DEF SignedRows, TransferInv, TransferRowsOK, IssueRows
    <3>2. CASE address' # address
      <4> DEFINE i == h.issue
                 x == [project |-> h.to, number |-> NextIssueNumber(h.to),
                       token |-> issue[i].token + 1]
      <4>1. issue' = [issue EXCEPT ![i] = x]
        BY <3>2 DEF TransferCommits
      <4>2. issue'[i] = x
        BY <3>1, <4>1 DEF TransferInv, TransferRowsOK
      <4>3. issue[i].token = issue[i].token + 1
        BY <1>5, <4>2
      <4> QED BY <3>1, <4>3
    <3> QED BY <3>2
  <2> QED BY <1>1, <1>3, <1>4, <1>5, <2>1, HandlerStep
<1>6. CASE issue' # issue
  <2> DEFINE i == h.issue
             t == issue[i].token + 1
             x == [project |-> h.to, number |-> NextIssueNumber(h.to), token |-> t]
  <2>1. /\ HasNoRun(i) /\ issue' = [issue EXCEPT ![i] = x]
        /\ address' = Addressed(i, h.to, t)
    BY <1>6, CommitMoves
  <2>2. i \in Issues /\ h.to \in Projects
    BY <1>2 DEF SignedRows
  <2>3. t \in Nat
    BY <2>2 DEF TransferInv, TransferRowsOK, IssueRows
  <2>4. NextIssueNumber(h.to) \in Nat \ {0}
    BY <2>2, NextIsNew DEF TransferInv
  <2>5. /\ address' \subseteq [project : Projects, number : Nat \ {0}, issue : Issues, token : Nat]
        /\ LedgerHasTop' /\ LedgerNamesOne' /\ address \subseteq address'
        /\ \E a \in address' : /\ a.issue = i /\ a.project = h.to
                               /\ a.number = NextIssueNumber(h.to) /\ a.token = t
    BY <2>1, <2>2, <2>3, NextAddress DEF TransferInv
  <2>6. /\ x \in IssueRows /\ x.project = h.to /\ x.token = t
        /\ x.number = NextIssueNumber(h.to)
    BY <2>2, <2>3, <2>4 DEF IssueRows
  <2> HIDE DEF x, t
  <2>7. issue' \in [Issues -> IssueRows] /\ issue'[i] = x
        /\ \A j \in Issues : j # i => issue'[j] = issue[j]
    BY <2>1, <2>2, <2>6 DEF TransferInv, TransferRowsOK
  <2>8. TransferRowsOK'
    BY <1>1, <1>4, <2>5, <2>7 DEF TransferInv, TransferRowsOK
  <2>9. IssuesAreFound'
    BY <2>5, <2>6, <2>7 DEF TransferInv, IssuesAreFound, Filed
  <2>10. ActiveRunsStay'
    BY <1>1, <2>1, <2>7 DEF TransferInv, ActiveRunsStay, HasNoRun
  <2>11. ReadsInOrder'
    BY <1>1, <1>3 DEF TransferInv, TransferRowsOK, ReadsInOrder
  <2> QED BY <2>5, <2>8, <2>9, <2>10, <2>11 DEF TransferInv
<1> QED BY <1>5, <1>6

\* A claim takes the token along.
LEMMA ClaimReads_Inv ==
  ASSUME TransferInv, NEW c \in Claims, NEW i \in Issues, ClaimReads(c, i)
  PROVE  TransferInv'
<1> DEFINE x == [pc |-> "claim", issue |-> i, token |-> issue[i].token]
<1>1. /\ claim' = [claim EXCEPT ![c] = x]
      /\ UNCHANGED <<issue, address, archivedProjects, conf, run, person>>
  BY DEF ClaimReads
<1>2. x \in ClaimRows
  BY DEF ClaimRows, TransferInv, TransferRowsOK, IssueRows
<1> HIDE DEF x
<1>3. TransferRowsOK'
  BY <1>1, <1>2 DEF TransferInv, TransferRowsOK
<1>4. ActiveRunsStay' /\ ReadsInOrder'
  BY <1>1 DEF TransferInv, ActiveRunsStay, ReadsInOrder
<1> QED BY <1>1, <1>3, <1>4, LedgerKept DEF TransferInv

\* A claim lands only with the token the issue still has.
LEMMA ClaimCommits_Inv ==
  ASSUME TransferInv, NEW c \in Claims, ClaimCommits(c)
  PROVE  TransferInv'
<1> DEFINE i == claim[c].issue
           x == [active |-> TRUE, token |-> claim[c].token]
<1>1. /\ claim[c] # Resting /\ claim' = [claim EXCEPT ![c] = Resting]
      /\ UNCHANGED <<issue, address, archivedProjects, conf, person>>
      /\ \/ AssignmentIsCurrent(c) /\ run' = [run EXCEPT ![i] = x]
         \/ run' = run
  BY DEF ClaimCommits
<1>2. claim[c] \in [pc : {"claim"}, issue : Issues, token : Nat]
  BY <1>1 DEF TransferInv, TransferRowsOK, ClaimRows
<1>3. i \in Issues /\ x \in [active : BOOLEAN, token : Nat]
  BY <1>2
<1>4. TransferRowsOK'
  <2>1. run' \in [Issues -> [active : BOOLEAN, token : Nat]]
    BY <1>1, <1>3 DEF TransferInv, TransferRowsOK
  <2>2. claim' \in [Claims -> ClaimRows]
    BY <1>1 DEF TransferInv, TransferRowsOK, ClaimRows
  <2> QED BY <1>1, <2>1, <2>2 DEF TransferInv, TransferRowsOK
<1>5. ActiveRunsStay'
  BY <1>1, <1>3 DEF TransferInv, TransferRowsOK, ActiveRunsStay, AssignmentIsCurrent
<1>6. ReadsInOrder'
  BY <1>1 DEF TransferInv, ReadsInOrder
<1> QED BY <1>1, <1>4, <1>5, <1>6, LedgerKept DEF TransferInv

\* A run ends.
LEMMA RunFinishes_Inv ==
  ASSUME TransferInv, NEW i \in Issues, RunFinishes(i)
  PROVE  TransferInv'
<1>1. /\ run' = [run EXCEPT ![i] = NoActiveRun]
      /\ UNCHANGED <<issue, address, archivedProjects, conf, person, claim>>
  BY DEF RunFinishes
<1>2. TransferRowsOK' /\ ActiveRunsStay'
  BY <1>1 DEF TransferInv, TransferRowsOK, ActiveRunsStay, NoActiveRun
<1>3. ReadsInOrder'
  BY <1>1 DEF TransferInv, ReadsInOrder
<1> QED BY <1>1, <1>2, <1>3, LedgerKept DEF TransferInv

\* Archiving touches no issue.
LEMMA ArchiveToggled_Inv ==
  ASSUME TransferInv, NEW q \in Projects, ArchiveToggled(q)
  PROVE  TransferInv'
<1>1. /\ archivedProjects' \subseteq Projects
      /\ UNCHANGED <<issue, address, conf, run, person, claim>>
  BY DEF ArchiveToggled, TransferInv, TransferRowsOK
<1>2. TransferRowsOK' /\ ActiveRunsStay' /\ ReadsInOrder'
  BY <1>1 DEF TransferInv, TransferRowsOK, ActiveRunsStay, ReadsInOrder
<1> QED BY <1>1, <1>2, LedgerKept DEF TransferInv

\* Edits of what a review shows: the text's number only grows.
LEMMA Edited_Inv ==
  ASSUME TransferInv, TextEdited \/ RoutingChanged
  PROVE  TransferInv'
<1>1. /\ conf' \in ConfRows /\ conf.text <= conf'.text
      /\ UNCHANGED <<issue, address, archivedProjects, run, person, claim>>
  BY DEF TextEdited, RoutingChanged, TransferInv, TransferRowsOK, ConfRows
<1>2. TransferRowsOK' /\ ActiveRunsStay'
  BY <1>1 DEF TransferInv, TransferRowsOK, ActiveRunsStay
<1>3. ReadsInOrder'
  <2>1. ASSUME NEW p \in Persons
        PROVE  LET h == person[p] IN
               /\ h.pc = "begun" => h.sections.conf.text <= conf'.text
               /\ h.pc = "assembled" => h.review.text <= conf'.text
    <3>1. person[p].pc = "begun" => person[p].sections.conf.text \in Nat
      BY PersonPc DEF TransferInv, TransferRowsOK, BegunRows, SectionRows, ConfRows
    <3>2. person[p].pc = "assembled" => person[p].review.text \in Nat
      BY PersonPc DEF TransferInv, TransferRowsOK, AssembledRows, ConfRows
    <3>3. conf.text \in Nat /\ conf'.text \in Nat
      BY <1>1 DEF TransferInv, TransferRowsOK, ConfRows
    <3> QED BY <1>1, <3>1, <3>2, <3>3 DEF TransferInv, ReadsInOrder
  <2> QED BY <1>1, <2>1 DEF TransferInv, ReadsInOrder
<1> QED BY <1>1, <1>2, <1>3, LedgerKept DEF TransferInv

\* Every step keeps the invariant.
LEMMA Transfer_Next == TransferInv /\ [TransferNext]_transferVars => TransferInv'
<1> SUFFICES ASSUME TransferInv, [TransferNext]_transferVars PROVE TransferInv'
  OBVIOUS
<1>1. CASE UNCHANGED transferVars
  <2>1. /\ issue' = issue /\ address' = address /\ archivedProjects' = archivedProjects
        /\ conf' = conf /\ run' = run /\ person' = person /\ claim' = claim
    BY <1>1 DEF transferVars
  <2>2. TransferRowsOK' /\ ActiveRunsStay' /\ ReadsInOrder'
    BY <2>1 DEF TransferInv, TransferRowsOK, ActiveRunsStay, ReadsInOrder
  <2> QED BY <2>1, <2>2, LedgerKept DEF TransferInv
<1>2. CASE TransferNext
  BY <1>2, FileIssue_Inv, PreviewBegins_Inv, PreviewAssembles_Inv, PreviewSettles_Inv,
     PreviewDropped_Inv, ConfirmReads_Inv, TransferCommits_Inv, ClaimReads_Inv,
     ClaimCommits_Inv, RunFinishes_Inv, ArchiveToggled_Inv, Edited_Inv DEF TransferNext
<1> QED BY <1>1, <1>2

-----------------------------------------------------------------------------
(* Transfers: theorems *)

\* An address names one issue for good and every filed issue is found under its
\* own: the next number is above all that the ledger holds (issue-address.ts,
\* migration 0027), so no filing and no transfer ever fails on its key.
THEOREM TransferTypeCorrect == TransferSpec => []TransferTypeOK
<1>1. TransferInv => TransferTypeOK
  BY DEF TransferInv, TransferRowsOK, LedgerNamesOne, IssuesAreFound, TransferTypeOK, IssueRows
<1> QED BY <1>1, Transfer_Init, Transfer_Next, PTL DEF TransferSpec

\* No issue changes its project under an active run, and no claim lands with an
\* assignment it has left: the transfer asks for no run, the claim for the token.
THEOREM RunsKeepTheirIssue == TransferSpec => []ActiveRunsStay
<1>1. TransferInv => ActiveRunsStay
  BY DEF TransferInv
<1> QED BY <1>1, Transfer_Init, Transfer_Next, PTL DEF TransferSpec

\* A step that moves an issue and ends a confirmation is that confirmation's.
LEMMA Commits_Only ==
  ASSUME TransferInv, TransferNext, NEW p \in Persons,
         person[p].pc = "confirming", issue' # issue, person'[p] # person[p]
  PROVE  TransferCommits(p)
<1>1. PICK q \in Persons : TransferCommits(q)
  BY DEF TransferNext, FileIssue, PreviewBegins, PreviewAssembles, PreviewSettles,
         PreviewDropped, ConfirmReads, ClaimReads, ClaimCommits, RunFinishes,
         ArchiveToggled, TextEdited, RoutingChanged
<1>2. q = p
  BY <1>1 DEF TransferCommits, TransferInv, TransferRowsOK
<1> QED BY <1>1, <1>2

\* A confirmed transfer does what was reviewed, for any number of people,
\* claims and edits in between.
THEOREM ReviewsAreHonoured == TransferSpec => MovesAsReviewed
<1> DEFINE AsReviewed(p) ==
      LET h == person[p] IN
      h.pc = "confirming" /\ issue' # issue /\ person'[p] # h =>
        /\ h.review.text = conf.text
        /\ h.sections.conf.routing = conf.routing
        /\ issue[h.issue] = h.sections.issue
        /\ {issue[h.issue].project, h.to} \cap archivedProjects = {}
<1>1. ASSUME TransferInv, TransferNext, NEW p \in Persons
      PROVE  AsReviewed(p)
  <2> DEFINE h == person[p]
  <2> SUFFICES ASSUME h.pc = "confirming", issue' # issue, person'[p] # h
               PROVE  /\ h.review.text = conf.text
                      /\ h.sections.conf.routing = conf.routing
                      /\ issue[h.issue] = h.sections.issue
                      /\ {issue[h.issue].project, h.to} \cap archivedProjects = {}
    OBVIOUS
  <2>1. TransferCommits(p)
    BY <1>1, Commits_Only
  <2>2. /\ h \in SignedRows /\ StillAsSigned(h)
        /\ {issue[h.issue].project, h.to} \cap archivedProjects = {}
    BY <1>1, <2>1, CommitMoves
  <2>3. h.sections.conf = conf /\ h.sections.issue = issue[h.issue]
    BY <1>1, <2>2, SectionsType DEF StillAsSigned, SignedRows, TransferInv
  <2>4. h.review.text = h.sections.conf.text
    BY <1>1 DEF TransferInv, ReadsInOrder
  <2> QED BY <2>2, <2>3, <2>4
<1>2. TransferInv /\ [TransferNext]_transferVars
        => [\A p \in Persons : AsReviewed(p)]_transferVars
  BY <1>1
<1>3. TransferSpec => [][\A p \in Persons : AsReviewed(p)]_transferVars
  BY <1>2, Transfer_Init, Transfer_Next, PTL DEF TransferSpec
<1> QED BY <1>3 DEF MovesAsReviewed

-----------------------------------------------------------------------------
(* Links: graphs *)

Sound(graph) ==
    /\ \A e \in graph : ~Reaches(e.target, e.source, graph)
    /\ \A d, e \in graph :
         d.kind = "duplicate_of" /\ e.kind = d.kind /\ d.source = e.source => d = e

\* Nothing is reached exactly when a closed set tells the two ends apart.
LEMMA Apart ==
  ASSUME NEW a, NEW b, NEW graph
  PROVE  ~Reaches(a, b, graph) <=>
           \E S \in SUBSET Nodes : a \in S /\ b \notin S /\ Closed(S, graph)
BY DEF Reaches

\* Removing edges closes no cycle.
LEMMA FewerEdges ==
  ASSUME NEW graph, Sound(graph), NEW fewer \in SUBSET graph
  PROVE  Sound(fewer)
<1>1. ASSUME NEW e \in fewer
      PROVE  ~Reaches(e.target, e.source, fewer)
  <2>1. ~Reaches(e.target, e.source, graph)
    BY <1>1 DEF Sound
  <2>2. PICK S \in SUBSET Nodes : e.target \in S /\ e.source \notin S /\ Closed(S, graph)
    BY <2>1, Apart
  <2>3. Closed(S, fewer)
    BY <2>2 DEF Closed
  <2> QED BY <2>2, <2>3, Apart
<1> QED BY <1>1 DEF Sound

\* An edge whose target does not reach its source closes no cycle: of the
\* sets that tell the ends of another edge apart, one is closed under it too.
LEMMA OneMoreEdge ==
  ASSUME NEW graph, Sound(graph), NEW e,
         ~Reaches(e.target, e.source, graph),
         ~\E d \in graph : d.kind = "duplicate_of" /\ e.kind = d.kind /\ d.source = e.source
  PROVE  Sound(graph \cup {e})
<1> DEFINE more == graph \cup {e}
<1>1. PICK S \in SUBSET Nodes : e.target \in S /\ e.source \notin S /\ Closed(S, graph)
  BY Apart
<1>2. ~Reaches(e.target, e.source, more)
  <2>1. Closed(S, more)
    BY <1>1 DEF Closed
  <2> QED BY <1>1, <2>1, Apart
<1>3. ASSUME NEW d \in graph
      PROVE  ~Reaches(d.target, d.source, more)
  <2>1. PICK D \in SUBSET Nodes : d.target \in D /\ d.source \notin D /\ Closed(D, graph)
    BY <1>3, Apart DEF Sound
  <2>2. CASE e.source \notin D
    <3>1. Closed(D, more)
      BY <2>1, <2>2 DEF Closed
    <3> QED BY <2>1, <3>1, Apart
  <2>3. CASE e.source \in D /\ d.source \notin S
    <3> DEFINE U == D \cup S
    <3>1. Closed(U, more)
      BY <1>1, <2>1 DEF Closed
    <3>2. U \in SUBSET Nodes /\ d.target \in U /\ d.source \notin U
      BY <2>1, <2>3
    <3> HIDE DEF U
    <3> QED BY <3>1, <3>2, Apart
  <2>4. CASE d.source \in S
    <3> DEFINE I == D \cap S
    <3>1. Closed(I, more)
      BY <1>1, <2>1 DEF Closed
    <3>2. I \in SUBSET Nodes /\ d.target \in I /\ d.source \notin I
      BY <1>1, <1>3, <2>1, <2>4 DEF Closed
    <3> HIDE DEF I
    <3> QED BY <3>1, <3>2, Apart
  <2> QED BY <2>2, <2>3, <2>4
<1>4. \A x \in more : ~Reaches(x.target, x.source, more)
  BY <1>2, <1>3
<1>5. \A c, d \in more :
        c.kind = "duplicate_of" /\ d.kind = c.kind /\ c.source = d.source => c = d
  BY DEF Sound
<1> HIDE DEF more
<1>6. Sound(more)
  BY <1>4, <1>5 DEF Sound
<1> QED BY <1>6 DEF more

\* A set of naturals that is not empty has a least member.
LEMMA Least ==
  ASSUME NEW T \in SUBSET Nat, T # {}
  PROVE  \E n \in T : \A m \in T : n <= m
<1> DEFINE R == OpToRel(<, Nat)
<1>1. IsWellFoundedOn(R, Nat)
  BY NatLessThanWellFounded
<1>2. \A x, y \in Nat : <<y, x>> \in R <=> y < x
  BY DEF OpToRel
<1> HIDE DEF R
<1>3. PICK n \in T : \A m \in T : ~(<<m, n>> \in R)
  BY <1>1, WFMin
<1>4. ASSUME NEW m \in T
      PROVE  n <= m
  <2>1. n \in Nat /\ m \in Nat
    OBVIOUS
  <2>2. ~(m < n)
    BY <1>2, <1>3, <2>1
  <2> QED BY <2>1, <2>2
<1> QED BY <1>4

\* A plan that is admitted edge by edge keeps the graph sound.
LEMMA PlanKeepsSound ==
  ASSUME Sound(links), NEW plan \in Seq(Edges), Admissible(plan)
  PROVE  Sound(links \cup {plan[k] : k \in DOMAIN plan})
<1> DEFINE bad == {k \in 1..(Len(plan) + 1) : ~Sound(GraphAt(plan, k))}
<1>1. bad = {}
  <2> SUFFICES ASSUME bad # {} PROVE FALSE
    OBVIOUS
  <2>1. bad \in SUBSET Nat
    OBVIOUS
  <2>2. PICK n \in bad : \A m \in bad : n <= m
    BY <2>1, Least
  <2>3. CASE n = 1
    <3>1. GraphAt(plan, 1) = links
      BY DEF GraphAt
    <3> QED BY <2>3, <3>1
  <2>4. CASE n > 1
    <3> DEFINE k == n - 1
    <3>1. k \in DOMAIN plan /\ k \in 1..(Len(plan) + 1) /\ k \notin bad
      BY <2>2, <2>4
    <3>2. Sound(GraphAt(plan, k))
      BY <3>1
    <3>3. GraphAt(plan, n) = GraphAt(plan, k) \cup {plan[k]}
      <4>1. \A j : j \in 1..(n - 1) <=> j \in 1..(k - 1) \/ j = k
        BY <3>1, <2>4
      <4> QED BY <4>1 DEF GraphAt
    <3>4. Admits(plan, k)
      BY <3>1 DEF Admissible
    <3>5. Sound(GraphAt(plan, k) \cup {plan[k]})
      <4> DEFINE e == plan[k]
                 graph == GraphAt(plan, k)
      <4>1. /\ ~Reaches(e.target, e.source, graph)
            /\ ~\E d \in graph : /\ d.kind = "duplicate_of" /\ e.kind = d.kind
                                 /\ d.source = e.source
        BY <3>4 DEF Admits
      <4>2. Sound(graph)
        BY <3>2
      <4> HIDE DEF e, graph
      <4>3. Sound(graph \cup {e})
        BY <4>1, <4>2, OneMoreEdge
      <4> QED BY <4>3 DEF e, graph
    <3> QED BY <3>3, <3>5
  <2> QED BY <2>1, <2>2, <2>3, <2>4
<1>2. Sound(GraphAt(plan, Len(plan) + 1))
  <2>1. Len(plan) + 1 \in 1..(Len(plan) + 1)
    OBVIOUS
  <2> QED BY <1>1, <2>1
<1>3. GraphAt(plan, Len(plan) + 1) = links \cup {plan[k] : k \in DOMAIN plan}
  BY DEF GraphAt
<1> QED BY <1>2, <1>3

-----------------------------------------------------------------------------
(* Links: the inductive invariant.  The graph is sound, and a plan waiting  *)
(* to be committed has its ends among the issues that exist or it files.   *)

LinksInv ==
    /\ filed \subseteq Nodes
    /\ links \subseteq Edges
    /\ linker \in [Linkers -> {Off} \cup [pc : {"link", "file"}, files : SUBSET Nodes,
                                          plan : Seq(Edges)]]
    /\ \A e \in links : e.source \in filed /\ e.target \in filed
    /\ \A r \in Linkers : linker[r] # Off =>
         \A k \in DOMAIN linker[r].plan :
             /\ linker[r].plan[k].source \in filed \cup linker[r].files
             /\ linker[r].plan[k].target \in filed \cup linker[r].files
    /\ Sound(links)

\* What a request asks for becomes an edge between its two issues.
LEMMA OrientedEdge ==
  ASSUME NEW i \in Nodes, NEW ask \in LinkAsks
  PROVE  /\ Oriented(i, ask) \in Edges
         /\ Oriented(i, ask).source \in {i, ask.other}
         /\ Oriented(i, ask).target \in {i, ask.other}
<1>1. ask.other \in Nodes
  BY DEF LinkAsks
<1> QED BY <1>1 DEF Oriented, Edges

\* No links, no cycle.
LEMMA LinksInit_Inv == LinksInit => LinksInv
<1> SUFFICES ASSUME LinksInit PROVE LinksInv
  OBVIOUS
<1>1. Sound({})
  BY DEF Sound
<1> QED BY <1>1 DEF LinksInit, LinksInv

\* A request for one link is a plan of one edge.
LEMMA LinkAsked_Inv ==
  ASSUME LinksInv, NEW r \in Linkers, NEW i \in Nodes, NEW ask \in LinkAsks,
         LinkAsked(r, i, ask)
  PROVE  LinksInv'
<1> DEFINE x == [pc |-> "link", files |-> {}, plan |-> <<Oriented(i, ask)>>]
<1>1. linker' = [linker EXCEPT ![r] = x] /\ filed' = filed /\ links' = links
      /\ i \in filed /\ ask.other \in filed
  BY DEF LinkAsked
<1>2. /\ x \in [pc : {"link", "file"}, files : SUBSET Nodes, plan : Seq(Edges)]
      /\ \A k \in DOMAIN x.plan : x.plan[k].source \in filed /\ x.plan[k].target \in filed
  BY <1>1, OrientedEdge
<1> HIDE DEF x
<1> QED BY <1>1, <1>2 DEF LinksInv

\* Filing with links: every edge of the plan has the new issue at one end.
LEMMA FilingAsked_Inv ==
  ASSUME LinksInv, NEW r \in Linkers, NEW i \in Nodes,
         NEW n \in 0..MaxPlan, NEW asks \in [1..n -> LinkAsks], FilingAsked(r, i, asks)
  PROVE  LinksInv'
<1> DEFINE plan == [k \in DOMAIN asks |-> Oriented(i, asks[k])]
           x == [pc |-> "file", files |-> {i}, plan |-> plan]
<1>1. linker' = [linker EXCEPT ![r] = x] /\ filed' = filed /\ links' = links
      /\ \A k \in DOMAIN asks : asks[k].other \in filed
  BY DEF FilingAsked
<1>2. plan \in Seq(Edges) /\ DOMAIN plan = DOMAIN asks
  <2>1. n \in Nat
    BY LinkAssumption
  <2>2. plan \in [1..n -> Edges]
    BY OrientedEdge
  <2> QED BY <2>1, <2>2
<1>3. \A k \in DOMAIN plan : /\ plan[k].source \in filed \cup {i}
                             /\ plan[k].target \in filed \cup {i}
  BY <1>1, OrientedEdge
<1> HIDE DEF plan
<1>4. /\ x \in [pc : {"link", "file"}, files : SUBSET Nodes, plan : Seq(Edges)]
      /\ x.plan = plan /\ x.files = {i}
  BY <1>2
<1> HIDE DEF x
<1> QED BY <1>1, <1>3, <1>4 DEF LinksInv

\* A plan lands whole, admitted at its commit, or not at all.
LEMMA LinksCommit_Inv ==
  ASSUME LinksInv, NEW r \in Linkers, LinksCommit(r)
  PROVE  LinksInv'
<1> DEFINE q == linker[r]
           added == {q.plan[k] : k \in DOMAIN q.plan}
<1>1. /\ q \in [pc : {"link", "file"}, files : SUBSET Nodes, plan : Seq(Edges)]
      /\ \A k \in DOMAIN q.plan : /\ q.plan[k].source \in filed \cup q.files
                                 /\ q.plan[k].target \in filed \cup q.files
      /\ linker' = [linker EXCEPT ![r] = Off]
  BY DEF LinksInv, LinksCommit
<1>2. CASE Admissible(q.plan)
  <2>1. filed' = filed \cup q.files /\ links' = links \cup added
    BY <1>2 DEF LinksCommit
  <2>2. added \subseteq Edges
    BY <1>1
  <2>3. \A e \in added : e.source \in filed' /\ e.target \in filed'
    BY <1>1, <2>1
  <2>4. Sound(links')
    BY <1>1, <1>2, <2>1, PlanKeepsSound DEF LinksInv
  <2> HIDE DEF added
  <2>5. filed' \subseteq Nodes /\ links' \subseteq Edges
    BY <1>1, <2>1, <2>2 DEF LinksInv
  <2>6. \A e \in links' : e.source \in filed' /\ e.target \in filed'
    BY <2>1, <2>3 DEF LinksInv
  <2>7. Sound(links)'
    BY <2>4 DEF Sound, Reaches, Closed
  <2> QED BY <1>1, <2>1, <2>5, <2>6, <2>7 DEF LinksInv
<1>3. CASE ~Admissible(q.plan)
  BY <1>1, <1>3 DEF LinksCommit, LinksInv
<1> QED BY <1>2, <1>3

\* Removing a link.
LEMMA RemoveLink_Inv ==
  ASSUME LinksInv, NEW e \in links, RemoveLink(e)
  PROVE  LinksInv'
<1>1. links' \in SUBSET links /\ filed' = filed /\ linker' = linker
  BY DEF RemoveLink
<1>2. Sound(links')
  BY <1>1, FewerEdges DEF LinksInv
<1>3. Sound(links)'
  BY <1>2 DEF Sound, Reaches, Closed
<1> QED BY <1>1, <1>3 DEF LinksInv

\* Every step keeps the invariant.
LEMMA LinksNext_Inv == LinksInv /\ [LinksNext]_linkVars => LinksInv'
<1> SUFFICES ASSUME LinksInv, [LinksNext]_linkVars PROVE LinksInv'
  OBVIOUS
<1>1. ASSUME NEW r \in Linkers, LinkingFails(r) PROVE LinksInv'
  BY <1>1 DEF LinkingFails, LinksInv
<1>2. CASE UNCHANGED linkVars
  BY <1>2 DEF linkVars, LinksInv
<1> QED
  BY <1>1, <1>2, LinkAsked_Inv, FilingAsked_Inv, LinksCommit_Inv, RemoveLink_Inv DEF LinksNext

-----------------------------------------------------------------------------
(* Links: theorems *)

\* Links join issues that exist, also those filed together with them.
THEOREM LinksTypeCorrect == LinksSpec => []LinksTypeOK
<1>1. LinksInv => LinksTypeOK
  BY DEF LinksInv, LinksTypeOK
<1> QED BY <1>1, LinksInit_Inv, LinksNext_Inv, PTL DEF LinksSpec

\* Blocks and duplicate_of edges never close a cycle and a duplicate has one
\* canonical issue, for any number of requests that overlap and plans of any
\* length: the batch admits each edge against the rows and the edges before it.
THEOREM LinksStayAcyclic == LinksSpec => []LinksAcyclic
<1>1. LinksInv => LinksAcyclic
  BY DEF LinksInv, Sound, LinksAcyclic
<1> QED BY <1>1, LinksInit_Inv, LinksNext_Inv, PTL DEF LinksSpec

-----------------------------------------------------------------------------
(* Workflows: chains *)

Pointers == [Stages -> Stages \cup {NoStage}]

\* A function that climbs from s, as far as the cap goes.
Climbs(up, pointer, s, last) ==
  up = [n \in 0..last |-> IF n = 0 THEN s
                          ELSE IF up[n - 1] = NoStage THEN NoStage ELSE pointer[up[n - 1]]]

\* There is one for any cap: otherwise take the least without.
LEMMA ClimbsExist ==
  ASSUME NEW pointer, NEW s, NEW n \in Nat
  PROVE  \E up : Climbs(up, pointer, s, n)
<1> DEFINE T == {m \in Nat : ~\E up : Climbs(up, pointer, s, m)}
<1> SUFFICES ASSUME T # {} PROVE FALSE
  OBVIOUS
<1>1. PICK m \in T : \A j \in T : m <= j
  <2>1. T \in SUBSET Nat
    OBVIOUS
  <2> HIDE DEF T
  <2> QED BY <2>1, Least
<1>2. m # 0
  <2>1. Climbs([i \in 0..0 |-> s], pointer, s, 0)
    BY DEF Climbs
  <2> QED BY <1>1, <2>1
<1>3. m \in Nat /\ m - 1 \in Nat
  BY <1>1, <1>2
<1>4. m - 1 \notin T
  BY <1>1, <1>3
<1>5. PICK f : Climbs(f, pointer, s, m - 1)
  BY <1>3, <1>4
<1> DEFINE top == IF f[m - 1] = NoStage THEN NoStage ELSE pointer[f[m - 1]]
           g == [i \in 0..m |-> IF i = m THEN top ELSE f[i]]
<1>6. \A i \in 0..(m - 1) :
        f[i] = IF i = 0 THEN s ELSE IF f[i - 1] = NoStage THEN NoStage ELSE pointer[f[i - 1]]
  BY <1>5 DEF Climbs
<1>7. ASSUME NEW i \in 0..m
      PROVE  g[i] = IF i = 0 THEN s ELSE IF g[i - 1] = NoStage THEN NoStage ELSE pointer[g[i - 1]]
  <2>1. CASE i = 0
    <3>1. g[i] = f[i] /\ i \in 0..(m - 1)
      BY <1>2, <1>3, <2>1
    <3> QED BY <1>6, <2>1, <3>1
  <2>2. CASE i # 0
    <3>1. i - 1 \in 0..(m - 1) /\ i - 1 \in 0..m /\ i - 1 # m
      BY <1>3, <2>2
    <3>2. g[i - 1] = f[i - 1]
      BY <3>1
    <3>3. CASE i = m
      BY <1>7, <2>2, <3>2, <3>3
    <3>4. CASE i # m
      <4>1. i \in 0..(m - 1) /\ g[i] = f[i]
        BY <1>3, <3>4
      <4> HIDE DEF g
      <4> QED BY <1>6, <2>2, <3>2, <4>1
    <3> QED BY <3>3, <3>4
  <2> QED BY <2>1, <2>2
<1>8. Climbs(g, pointer, s, m)
  <2>1. g = [i \in 0..m |-> g[i]]
    OBVIOUS
  <2> HIDE DEF g
  <2> QED BY <1>7, <2>1 DEF Climbs
<1> QED BY <1>1, <1>8

\* Whether a chain fits is told by such a function.
LEMMA FitsIs ==
  ASSUME NEW pointer, NEW s
  PROVE  \E up : /\ Climbs(up, pointer, s, MaxChain)
                 /\ Fits(pointer, s) <=> up[MaxChain] = NoStage
<1> DEFINE g == CHOOSE up : Climbs(up, pointer, s, MaxChain)
<1>1. Climbs(g, pointer, s, MaxChain)
  BY ClimbsExist, FlowsAssumption
<1>2. Fits(pointer, s) <=> g[MaxChain] = NoStage
  BY DEF Fits, Climbs
<1> QED BY <1>1, <1>2

\* A chain that fits also fits when pointers along it are cleared.
LEMMA FewerPointers ==
  ASSUME NEW S, NEW s \in S, NoStage \notin S, NEW p, NEW o,
         \A t \in S : p[t] \in S \cup {NoStage} /\ o[t] \in {p[t], NoStage},
         Fits(p, s)
  PROVE  Fits(o, s)
<1>1. PICK f : Climbs(f, p, s, MaxChain) /\ f[MaxChain] = NoStage
  BY FitsIs
<1>2. PICK g : Climbs(g, o, s, MaxChain) /\ (Fits(o, s) <=> g[MaxChain] = NoStage)
  BY FitsIs
<1>3. \A i \in 0..MaxChain :
        f[i] = IF i = 0 THEN s ELSE IF f[i - 1] = NoStage THEN NoStage ELSE p[f[i - 1]]
  BY <1>1 DEF Climbs
<1>4. \A i \in 0..MaxChain :
        g[i] = IF i = 0 THEN s ELSE IF g[i - 1] = NoStage THEN NoStage ELSE o[g[i - 1]]
  BY <1>2 DEF Climbs
<1> DEFINE T == {i \in 0..MaxChain : ~(f[i] \in S \cup {NoStage} /\ g[i] \in {f[i], NoStage})}
<1>5. T = {}
  <2> SUFFICES ASSUME T # {} PROVE FALSE
    OBVIOUS
  <2>1. PICK m \in T : \A j \in T : m <= j
    <3>1. T \in SUBSET Nat
      OBVIOUS
    <3> HIDE DEF T
    <3> QED BY <3>1, Least
  <2>2. m # 0
    BY <1>3, <1>4, <2>1
  <2>3. m \in 0..MaxChain /\ m - 1 \in 0..MaxChain /\ ~(m <= m - 1)
    BY <2>1, <2>2, FlowsAssumption
  <2>4. f[m - 1] \in S \cup {NoStage} /\ g[m - 1] \in {f[m - 1], NoStage}
    BY <2>1, <2>3
  <2>5. f[m] = IF f[m - 1] = NoStage THEN NoStage ELSE p[f[m - 1]]
    BY <1>3, <2>2, <2>3
  <2>6. g[m] = IF g[m - 1] = NoStage THEN NoStage ELSE o[g[m - 1]]
    BY <1>4, <2>2, <2>3
  <2>7. f[m] \in S \cup {NoStage} /\ g[m] \in {f[m], NoStage}
    BY <2>4, <2>5, <2>6
  <2> QED BY <2>1, <2>7
<1>6. MaxChain \in 0..MaxChain
  BY FlowsAssumption
<1> QED BY <1>1, <1>2, <1>5, <1>6

-----------------------------------------------------------------------------
(* Workflows: the inductive invariant.  A save whose revision still stands  *)
(* removes exactly what it does not keep, and the chains it planned fit the *)
(* pointers as they are now; whoever creates a workflow is alone with it.   *)

OwnBase(s, x) == IF x # NoStage /\ FlowOf[x] = FlowOf[s] THEN x ELSE NoStage
Own(pointer) == [s \in Stages |-> OwnBase(s, pointer[s])]
Plan(moves, pointer) == [s \in Stages |-> IF s \in DOMAIN moves THEN moves[s] ELSE pointer[s]]

Rows(f, m) ==
    /\ f \in [Flows -> [rev : Nat, stages : SUBSET Stages, default : BOOLEAN]]
    /\ \A w \in Flows : f[w].rev = 0 <=> f[w].stages = {}
    /\ \A w \in Flows : f[w].stages \subseteq OfFlow(w) /\ f[w].stages \subseteq m

Saves(q, f, m) ==
    /\ q.pc = "save" /\ q.flow \in Flows /\ q.rev \in Nat \ {0}
    /\ q.keep # {} /\ q.keep \subseteq OfFlow(q.flow) /\ q.keep \subseteq m
    /\ q.drop \subseteq OfFlow(q.flow)
    /\ DOMAIN q.moves \subseteq q.keep
    /\ \A s \in DOMAIN q.moves : q.moves[s] \in Stages \cup {NoStage}
    /\ f[q.flow].rev = 0 \/ q.rev <= f[q.flow].rev
    /\ f[q.flow].rev = q.rev => q.drop = f[q.flow].stages \ q.keep

Creates(q, f, m) ==
    /\ q.pc = "create" /\ q.flow \in Flows
    /\ DOMAIN q.to # {} /\ DOMAIN q.to \subseteq OfFlow(q.flow) /\ DOMAIN q.to \subseteq m
    /\ \A s \in DOMAIN q.to : q.to[s] \in Stages \cup {NoStage}
    /\ f[q.flow].rev = 0

Deletes(q, m) ==
    q.pc = "delete" /\ q.flow \in Flows /\ OfFlow(q.flow) \cap m # {}

SaverFits(q, f, m) == q = AtRest \/ Saves(q, f, m) \/ Creates(q, f, m) \/ Deletes(q, m)

Alone(q, o) == q.pc = "create" /\ o # AtRest => o.flow # q.flow

PlanFits(q, f, pointer) ==
    /\ q.pc = "save" /\ f[q.flow].rev = q.rev =>
         \A s \in q.keep : Fits(Own(Plan(q.moves, pointer)), s)
    /\ q.pc = "create" => \A s \in DOMAIN q.to : Fits(Own(Plan(q.to, pointer)), s)

StagesFit(f, pointer) == \A w \in Flows : \A s \in f[w].stages : Fits(Own(pointer), s)

There(f) == {s \in Stages : FlowOf[s] \in Flows /\ s \in f[FlowOf[s]].stages}

PointersFit(f, pointer) ==
    /\ pointer \in Pointers
    /\ \A s \in Stages : pointer[s] # NoStage => s \in There(f) /\ pointer[s] \in There(f)

BoardFits(f, b) ==
    /\ b = [seat |-> b.seat, start |-> b.start, item |-> b.item]
    /\ b.seat \in There(f) \cup {NoStage}
    /\ b.start \in There(f) \cup {w \in Flows : f[w].rev > 0} \cup {NoStage}
    /\ b.item \in [Stages -> Nat]
    /\ \A s \in Stages : b.item[s] % 2 = 1 => s \in There(f)

SaversFit ==
    /\ saver = [r \in Savers |-> saver[r]]
    /\ \A r \in Savers : SaverFits(saver[r], flow, minted)
    /\ \A r, s \in Savers : r # s => Alone(saver[r], saver[s])

PlansFit ==
    /\ StagesFit(flow, base)
    /\ \A r \in Savers : PlanFits(saver[r], flow, base)

FlowsInv ==
    /\ Rows(flow, minted) /\ PointersFit(flow, base) /\ BoardFits(flow, board)
    /\ SaversFit /\ PlansFit

-----------------------------------------------------------------------------
(* Workflows: what steps have in common *)

\* A state exists where its workflow lists it.
LEMMA ExistingIs == Rows(flow, minted) => Existing = There(flow)
<1> SUFFICES ASSUME Rows(flow, minted) PROVE Existing = There(flow)
  OBVIOUS
<1>1. \A w \in Flows : \A s : s \in flow[w].stages => s \in Stages /\ FlowOf[s] = w
  BY DEF Rows, OfFlow
<1>2. \A s : s \in Existing <=> \E w \in Flows : s \in flow[w].stages
  BY DEF Existing
<1> QED BY <1>1, <1>2 DEF There

\* What a saver in flight asked for tells what it is.
LEMMA SaverPc ==
  ASSUME NEW q, NEW f, NEW m, SaverFits(q, f, m)
  PROVE  /\ q.pc = "save" => Saves(q, f, m)
         /\ q.pc = "create" => Creates(q, f, m)
         /\ q.pc = "delete" => Deletes(q, m)
         /\ q # AtRest => q.flow \in Flows /\ OfFlow(q.flow) \cap m # {}
         /\ q = AtRest \/ q.pc \in {"save", "create", "delete"}
<1>1. AtRest.pc = "rest"
  BY DEF AtRest
<1> QED BY <1>1 DEF SaverFits, Saves, Creates, Deletes

\* What a step of another request, or none, may do to the workflow of q.
Spares(q, f, g) ==
    \/ g[q.flow].rev = f[q.flow].rev /\ g[q.flow].stages = f[q.flow].stages
    \/ /\ q.pc = "save"
       /\ \/ g[q.flow].rev = 0
          \/ f[q.flow].rev # 0 /\ g[q.flow].rev = f[q.flow].rev + 1
    \/ q.pc = "delete"

\* Pointers within a workflow are cleared at most.
Wanes(v, p, o) ==
    \A s \in OfFlow(v) : OwnBase(s, o[s]) \in {OwnBase(s, p[s]), NoStage}

LEMMA SaverKept ==
  ASSUME NEW q, NEW f, NEW g, NEW m, NEW n, SaverFits(q, f, m), m \subseteq n,
         Rows(f, m), q # AtRest => Spares(q, f, g)
  PROVE  SaverFits(q, g, n)
<1>1. CASE q = AtRest
  BY <1>1 DEF SaverFits
<1>2. CASE Creates(q, f, m)
  <2>1. q.pc # "save" /\ q.pc # "delete" /\ q # AtRest
    BY <1>2 DEF Creates, AtRest
  <2>2. g[q.flow].rev = f[q.flow].rev
    BY <2>1 DEF Spares
  <2>3. Creates(q, g, n)
    BY <1>2, <2>2 DEF Creates
  <2> QED BY <2>3 DEF SaverFits
<1>3. CASE Deletes(q, m)
  BY <1>3 DEF SaverFits, Deletes
<1>4. CASE Saves(q, f, m)
  <2>1. q.pc # "delete" /\ q # AtRest /\ q.rev \in Nat /\ q.rev # 0 /\ q.flow \in Flows
    BY <1>4 DEF Saves, AtRest
  <2>2. f[q.flow].rev \in Nat
    BY <2>1 DEF Rows
  <2>3. f[q.flow].rev = 0 \/ q.rev <= f[q.flow].rev
    BY <1>4 DEF Saves
  <2>4. CASE g[q.flow].rev = f[q.flow].rev /\ g[q.flow].stages = f[q.flow].stages
    <3>1. Saves(q, g, n)
      BY <1>4, <2>4 DEF Saves
    <3> QED BY <3>1 DEF SaverFits
  <2>5. CASE g[q.flow].rev = 0
    <3>1. Saves(q, g, n)
      BY <1>4, <2>1, <2>5 DEF Saves
    <3> QED BY <3>1 DEF SaverFits
  <2>6. CASE g[q.flow].rev = f[q.flow].rev + 1 /\ f[q.flow].rev # 0
    <3>1. q.rev <= g[q.flow].rev /\ g[q.flow].rev # q.rev
      BY <2>1, <2>2, <2>3, <2>6
    <3>2. Saves(q, g, n)
      BY <1>4, <3>1 DEF Saves
    <3> QED BY <3>2 DEF SaverFits
  <2> QED BY <2>1, <2>4, <2>5, <2>6 DEF Spares
<1> QED BY <1>1, <1>2, <1>3, <1>4 DEF SaverFits

\* Chains within a workflow stand when its pointers wane.
LEMMA ChainKept ==
  ASSUME NEW v \in Flows, NEW s \in OfFlow(v), NEW p \in Pointers, NEW o \in Pointers,
         Wanes(v, p, o), Fits(Own(p), s)
  PROVE  Fits(Own(o), s)
<1> DEFINE S == OfFlow(v)
<1>1. \A t \in S : t \in Stages /\ FlowOf[t] = v
  BY DEF OfFlow
<1>2. ASSUME NEW t \in S
      PROVE  Own(p)[t] \in S \cup {NoStage} /\ Own(o)[t] \in {Own(p)[t], NoStage}
  <2>1. Own(p)[t] = OwnBase(t, p[t]) /\ Own(o)[t] = OwnBase(t, o[t])
    BY <1>1 DEF Own
  <2>2. p[t] \in Stages \cup {NoStage}
    BY <1>1 DEF Pointers
  <2>3. OwnBase(t, p[t]) \in S \cup {NoStage}
    BY <1>1, <2>2 DEF OwnBase, OfFlow
  <2> QED BY <2>1, <2>3 DEF Wanes
<1>3. NoStage \notin S
  BY <1>1, FlowsAssumption
<1>4. s \in S
  OBVIOUS
<1> HIDE DEF S
<1> QED BY <1>2, <1>3, <1>4, FewerPointers

LEMMA PlanType ==
  ASSUME NEW moves, NEW p \in Pointers, \A s \in DOMAIN moves : moves[s] \in Stages \cup {NoStage}
  PROVE  Plan(moves, p) \in Pointers
BY DEF Plan, Pointers

LEMMA PlanWanes ==
  ASSUME NEW v, NEW moves, NEW p, NEW o, Wanes(v, p, o)
  PROVE  Wanes(v, Plan(moves, p), Plan(moves, o))
<1> SUFFICES ASSUME NEW s \in OfFlow(v)
             PROVE  OwnBase(s, Plan(moves, o)[s]) \in {OwnBase(s, Plan(moves, p)[s]), NoStage}
  BY DEF Wanes
<1>1. s \in Stages
  BY DEF OfFlow
<1>2. CASE s \in DOMAIN moves
  BY <1>1, <1>2 DEF Plan
<1>3. CASE s \notin DOMAIN moves
  BY <1>1, <1>3 DEF Plan, Wanes
<1> QED BY <1>2, <1>3

LEMMA PlanKept ==
  ASSUME NEW q, NEW f, NEW g, NEW m, NEW p \in Pointers, NEW o \in Pointers,
         SaverFits(q, f, m), Rows(f, m), PlanFits(q, f, p),
         q # AtRest => Spares(q, f, g),
         q # AtRest /\ g[q.flow].rev = f[q.flow].rev => Wanes(q.flow, p, o)
  PROVE  PlanFits(q, g, o)
<1>1. ASSUME q.pc = "save", g[q.flow].rev = q.rev, NEW s \in q.keep
      PROVE  Fits(Own(Plan(q.moves, o)), s)
  <2>1. Saves(q, f, m) /\ q # AtRest
    BY <1>1, SaverPc DEF AtRest
  <2>2. q.flow \in Flows /\ s \in OfFlow(q.flow) /\ q.rev \in Nat /\ q.rev # 0
    BY <1>1, <2>1 DEF Saves
  <2>3. f[q.flow].rev \in Nat /\ (f[q.flow].rev = 0 \/ q.rev <= f[q.flow].rev)
    BY <2>1, <2>2 DEF Rows, Saves
  <2>4. f[q.flow].rev = q.rev
    BY <1>1, <2>1, <2>2, <2>3 DEF Spares
  <2>5. Fits(Own(Plan(q.moves, p)), s)
    BY <1>1, <2>4 DEF PlanFits
  <2>6. Plan(q.moves, p) \in Pointers /\ Plan(q.moves, o) \in Pointers
    BY <2>1, PlanType DEF Saves
  <2>7. Wanes(q.flow, Plan(q.moves, p), Plan(q.moves, o))
    BY <1>1, <2>1, <2>4, PlanWanes
  <2> QED BY <2>2, <2>5, <2>6, <2>7, ChainKept
<1>2. ASSUME q.pc = "create", NEW s \in DOMAIN q.to
      PROVE  Fits(Own(Plan(q.to, o)), s)
  <2>1. Creates(q, f, m) /\ q # AtRest
    BY <1>2, SaverPc DEF AtRest
  <2>2. q.flow \in Flows /\ s \in OfFlow(q.flow)
    BY <1>2, <2>1 DEF Creates
  <2>3. Fits(Own(Plan(q.to, p)), s)
    BY <1>2 DEF PlanFits
  <2>4. Plan(q.to, p) \in Pointers /\ Plan(q.to, o) \in Pointers
    BY <2>1, PlanType DEF Creates
  <2>5. Wanes(q.flow, Plan(q.to, p), Plan(q.to, o))
    <3>1. g[q.flow].rev = f[q.flow].rev
      BY <1>2, <2>1 DEF Spares
    <3> QED BY <2>1, <3>1, PlanWanes
  <2> QED BY <2>2, <2>3, <2>4, <2>5, ChainKept
<1> QED BY <1>1, <1>2 DEF PlanFits

\* A request that was resolved keeps its chains within the workflow.
LEMMA ResolvedFits ==
  ASSUME NEW keep, NEW drop, NEW to, NEW moves, Resolves(keep, drop, to),
         base \in Pointers, \A s \in keep : to[s] \in Stages \cup {NoStage},
         Plan(moves, base) = [s \in Stages |-> IF s \in keep THEN to[s] ELSE base[s]],
         NEW s \in keep, s \in Stages
  PROVE  Fits(Own(Plan(moves, base)), s)
<1> DEFINE pointer == [t \in Stages |-> IF t \in keep THEN to[t] ELSE base[t]]
<1>1. Fits(pointer, s)
  BY DEF Resolves
<1>2. ASSUME NEW t \in Stages
      PROVE  pointer[t] \in Stages \cup {NoStage} /\ Own(pointer)[t] \in {pointer[t], NoStage}
  BY DEF Pointers, Own, OwnBase
<1>3. NoStage \notin Stages
  BY FlowsAssumption
<1>4. Plan(moves, base) = pointer
  OBVIOUS
<1> HIDE DEF pointer
<1>5. Fits(Own(pointer), s)
  BY <1>1, <1>2, <1>3, FewerPointers
<1> QED BY <1>4, <1>5

\* One saver moves on; what the others asked for stands.
LEMMA SaversStep ==
  ASSUME FlowsInv, NEW r \in Savers, minted \subseteq minted',
         saver' = [saver EXCEPT ![r] = saver'[r]],
         SaverFits(saver'[r], flow', minted'),
         \A s \in Savers \ {r} :
            /\ saver[s] # AtRest => Spares(saver[s], flow, flow')
            /\ Alone(saver'[r], saver[s]) /\ Alone(saver[s], saver'[r])
  PROVE  SaversFit'
<1>1. SaversFit /\ Rows(flow, minted)
  BY DEF FlowsInv
<1>2. \A s \in Savers \ {r} : saver'[s] = saver[s]
  BY <1>1 DEF SaversFit
<1>3. saver' = [s \in Savers |-> saver'[s]]
  BY <1>1 DEF SaversFit
<1>4. ASSUME NEW s \in Savers \ {r}
      PROVE  SaverFits(saver'[s], flow', minted')
  <2>1. SaverFits(saver[s], flow, minted)
    BY <1>1 DEF SaversFit
  <2>2. SaverFits(saver[s], flow', minted')
    BY <1>1, <2>1, SaverKept
  <2> QED BY <1>2, <2>2
<1>5. \A s \in Savers : SaverFits(saver'[s], flow', minted')
  BY <1>4
<1>6. ASSUME NEW s \in Savers, NEW t \in Savers, s # t
      PROVE  Alone(saver'[s], saver'[t])
  <2>1. Alone(saver[s], saver[t])
    BY <1>1, <1>6 DEF SaversFit
  <2> QED BY <1>2, <1>6, <2>1
<1> QED BY <1>3, <1>5, <1>6 DEF SaversFit

LEMMA PlansStep ==
  ASSUME FlowsInv, NEW r \in Savers, base' \in Pointers,
         saver' = [saver EXCEPT ![r] = saver'[r]],
         StagesFit(flow', base'), PlanFits(saver'[r], flow', base'),
         \A s \in Savers \ {r} : saver[s] # AtRest =>
            /\ Spares(saver[s], flow, flow')
            /\ flow'[saver[s].flow].rev = flow[saver[s].flow].rev =>
                 Wanes(saver[s].flow, base, base')
  PROVE  PlansFit'
<1>1. SaversFit /\ Rows(flow, minted) /\ PlansFit /\ base \in Pointers
  BY DEF FlowsInv, PointersFit
<1>2. \A s \in Savers \ {r} : saver'[s] = saver[s]
  BY <1>1 DEF SaversFit
<1>3. ASSUME NEW s \in Savers \ {r}
      PROVE  PlanFits(saver'[s], flow', base')
  <2>1. SaverFits(saver[s], flow, minted) /\ PlanFits(saver[s], flow, base)
    BY <1>1 DEF SaversFit, PlansFit
  <2>2. PlanFits(saver[s], flow', base')
    BY <1>1, <2>1, PlanKept
  <2> QED BY <1>2, <2>2
<1>4. \A s \in Savers : PlanFits(saver'[s], flow', base')
  BY <1>3
<1> QED BY <1>4 DEF PlansFit

\* No pointer changes: nothing wanes.
LEMMA SameWanes == ASSUME NEW p PROVE \A v : Wanes(v, p, p)
  BY DEF Wanes

LEMMA AtRestFits ==
  ASSUME NEW f, NEW m, NEW p
  PROVE  /\ SaverFits(AtRest, f, m) /\ PlanFits(AtRest, f, p)
         /\ \A q : Alone(AtRest, q) /\ Alone(q, AtRest)
  BY DEF SaverFits, PlanFits, Alone, AtRest

-----------------------------------------------------------------------------
(* Workflows: one lemma per action *)

LEMMA SaveReads_Inv ==
  ASSUME FlowsInv, NEW r \in Savers, NEW w \in Flows, NEW keep \in SUBSET OfFlow(w),
         NEW to \in [keep -> Stages \cup {NoStage}], SaveReads(r, w, keep, to)
  PROVE  FlowsInv'
<1>1. Rows(flow, minted) /\ PointersFit(flow, base) /\ BoardFits(flow, board)
      /\ SaversFit /\ PlansFit
  BY DEF FlowsInv
<1>2. flow' = flow /\ base' = base /\ board' = board /\ minted' = minted \cup keep
  BY DEF SaveReads
<1> DEFINE drop == flow[w].stages \ keep
           moves == [s \in {k \in keep : to[k] # base[k]} |-> to[s]]
<1>3. saver' = [saver EXCEPT ![r] = saver'[r]]
  BY <1>1 DEF SaveReads, SaversFit
<1>4. saver'[r] =
        [pc |-> "save", flow |-> w, rev |-> flow[w].rev, keep |-> keep, drop |-> drop,
         moves |-> moves, items |-> AttachedTo(drop),
         cleared |-> {p \in ChildrenOf(drop, drop) : p[1] \in keep => to[p[1]] = p[2]}]
  BY <1>1 DEF SaveReads, SaversFit
<1>5. /\ saver'[r].pc = "save" /\ saver'[r].flow = w /\ saver'[r].rev = flow[w].rev
      /\ saver'[r].keep = keep /\ saver'[r].drop = drop /\ saver'[r].moves = moves
  BY <1>4
<1>6. flow[w].rev > 0 /\ keep # {} /\ Resolves(keep, drop, to) /\ saver[r] = AtRest
  BY DEF SaveReads
<1>7. Rows(flow', minted')
  BY <1>1, <1>2 DEF Rows
<1>8. flow[w].rev \in Nat \ {0} /\ flow[w].stages \subseteq OfFlow(w)
  BY <1>1, <1>6 DEF Rows
<1>9. DOMAIN moves \subseteq keep /\ \A s \in DOMAIN moves : moves[s] \in Stages \cup {NoStage}
  OBVIOUS
<1>10. Plan(moves, base) = [s \in Stages |-> IF s \in keep THEN to[s] ELSE base[s]]
  BY DEF Plan
<1> HIDE DEF moves
<1>11. Saves(saver'[r], flow', minted')
  BY <1>2, <1>5, <1>6, <1>8, <1>9 DEF Saves
<1>12. SaverFits(saver'[r], flow', minted')
  BY <1>11 DEF SaverFits
<1>13. PlanFits(saver'[r], flow', base')
  <2>1. ASSUME NEW s \in keep
        PROVE  Fits(Own(Plan(moves, base)), s)
    <3>1. s \in Stages /\ base \in Pointers
      BY <1>1 DEF OfFlow, PointersFit
    <3>2. \A t \in keep : to[t] \in Stages \cup {NoStage}
      OBVIOUS
    <3> QED BY <1>6, <1>10, <3>1, <3>2, ResolvedFits
  <2> QED BY <1>2, <1>5, <2>1 DEF PlanFits
<1>14. ASSUME NEW s \in Savers \ {r}
       PROVE  /\ Spares(saver[s], flow, flow') /\ Wanes(saver[s].flow, base, base')
              /\ Alone(saver'[r], saver[s]) /\ Alone(saver[s], saver'[r])
  <2>1. Spares(saver[s], flow, flow')
    BY <1>2 DEF Spares
  <2>2. Alone(saver'[r], saver[s])
    BY <1>5 DEF Alone
  <2>3. saver[s].pc = "create" => saver[s].flow # w
    <3>1. SaverFits(saver[s], flow, minted)
      BY <1>1 DEF SaversFit
    <3> QED BY <1>8, <3>1, SaverPc DEF Creates
  <2> QED BY <1>2, <1>5, <2>1, <2>2, <2>3, SameWanes DEF Alone
<1>15. SaversFit'
  <2>1. minted \subseteq minted'
    BY <1>2
  <2> QED BY <1>3, <1>12, <1>14, <2>1, SaversStep
<1>16. PlansFit'
  <2>1. StagesFit(flow', base') /\ base' \in Pointers
    BY <1>1, <1>2 DEF PlansFit, PointersFit
  <2> QED BY <1>3, <1>13, <1>14, <2>1, PlansStep
<1>17. PointersFit(flow', base') /\ BoardFits(flow', board')
  BY <1>1, <1>2
<1> QED BY <1>7, <1>15, <1>16, <1>17 DEF FlowsInv

\* A request that ends without a write.
LEMMA SaverRests ==
  ASSUME FlowsInv, NEW r \in Savers, saver' = [saver EXCEPT ![r] = AtRest],
         UNCHANGED <<flow, base, minted, board>>
  PROVE  FlowsInv'
<1>1. Rows(flow, minted) /\ PointersFit(flow, base) /\ BoardFits(flow, board)
      /\ SaversFit /\ PlansFit
  BY DEF FlowsInv
<1>2. saver'[r] = AtRest /\ saver' = [saver EXCEPT ![r] = saver'[r]]
  BY <1>1 DEF SaversFit
<1>3. \A s \in Savers : Spares(saver[s], flow, flow') /\ Wanes(saver[s].flow, base, base')
  BY SameWanes DEF Spares
<1>4. SaversFit'
  <2>1. SaverFits(saver'[r], flow', minted') /\ minted \subseteq minted'
    BY <1>2, AtRestFits
  <2>2. \A s \in Savers : Alone(saver'[r], saver[s]) /\ Alone(saver[s], saver'[r])
    BY <1>2, AtRestFits
  <2> QED BY <1>2, <1>3, <2>1, <2>2, SaversStep
<1>5. PlansFit'
  <2>1. StagesFit(flow', base') /\ base' \in Pointers
    BY <1>1 DEF PlansFit, PointersFit
  <2> QED BY <1>2, <1>3, <2>1, AtRestFits, PlansStep
<1> QED BY <1>1, <1>4, <1>5 DEF FlowsInv

LEMMA SaveCommits_Inv ==
  ASSUME FlowsInv, NEW r \in Savers, SaveCommits(r)
  PROVE  FlowsInv'
<1>1. Rows(flow, minted) /\ PointersFit(flow, base) /\ BoardFits(flow, board)
      /\ SaversFit /\ PlansFit
  BY DEF FlowsInv
<1>2. PICK q : q = saver[r]
  OBVIOUS
<1>3. PICK w : w = q.flow
  OBVIOUS
<1>4. q.pc = "save" /\ saver' = [saver EXCEPT ![r] = AtRest] /\ minted' = minted
  BY <1>2 DEF SaveCommits
<1>5. Saves(q, flow, minted) /\ q # AtRest
  <2>1. SaverFits(q, flow, minted)
    BY <1>1, <1>2 DEF SaversFit
  <2> QED BY <1>4, <2>1, SaverPc DEF AtRest
<1>6. CASE UNCHANGED <<flow, base, board>>
  BY <1>4, <1>6, SaverRests
<1>7. CASE /\ ClaimsRevision(q) /\ Releasable(q.drop, q.items)
           /\ \A s \in DOMAIN q.moves :
                q.moves[s] \in (Existing \ q.drop) \cup q.keep \cup {NoStage}
           /\ flow' = [flow EXCEPT ![w].rev = @ + 1, ![w].stages = q.keep]
           /\ base' = [s \in Stages |-> IF s \in DOMAIN q.moves THEN q.moves[s]
                                        ELSE IF s \in q.drop THEN NoStage
                                        ELSE Unpointed(q.drop)[s]]
           /\ board' = [board EXCEPT !.item = Sweeps(q.drop),
                                     !.start = IF @ \in q.drop THEN w ELSE @]
  <2>1. /\ w \in Flows /\ q.rev \in Nat \ {0} /\ q.keep # {} /\ q.keep \subseteq OfFlow(w)
        /\ q.keep \subseteq minted /\ DOMAIN q.moves \subseteq q.keep
        /\ q.drop \subseteq OfFlow(w)
    BY <1>3, <1>5 DEF Saves
  <2>2. flow[w].rev = q.rev /\ q.drop = flow[w].stages \ q.keep
    BY <1>3, <1>5, <1>7 DEF ClaimsRevision, Saves
  <2>3. flow[w].rev \in Nat /\ flow[w].default \in BOOLEAN
        /\ flow[w] = [rev |-> flow[w].rev, stages |-> flow[w].stages, default |-> flow[w].default]
    BY <1>1, <2>1 DEF Rows
  <2>4. flow'[w] = [rev |-> flow[w].rev + 1, stages |-> q.keep, default |-> flow[w].default]
    BY <1>1, <1>7, <2>1, <2>3 DEF Rows
  <2>5. \A v \in Flows : v # w => flow'[v] = flow[v]
    BY <1>1, <1>7 DEF Rows
  <2>6. flow' = [v \in Flows |-> flow'[v]]
    BY <1>1, <1>7 DEF Rows
  <2>7. Rows(flow', minted')
    <3>1. \A s : s \in OfFlow(w) => s \in Stages
      BY DEF OfFlow
    <3>2. flow'[w] \in [rev : Nat, stages : SUBSET Stages, default : BOOLEAN]
      BY <2>1, <2>3, <2>4, <3>1
    <3>3. flow'[w].rev # 0 /\ flow'[w].stages = q.keep
      BY <2>3, <2>4
    <3> QED BY <1>1, <1>4, <2>1, <2>5, <2>6, <3>2, <3>3 DEF Rows
  <2>8. Existing = There(flow) /\ There(flow') = (There(flow) \ q.drop) \cup q.keep
    <3>1. Existing = There(flow)
      BY <1>1, ExistingIs
    <3>2. \A s \in Stages : s \in OfFlow(w) <=> FlowOf[s] = w
      BY DEF OfFlow
    <3>3. q.keep \subseteq Stages
      BY <2>1 DEF OfFlow
    <3> QED BY <2>1, <2>2, <2>4, <2>5, <3>1, <3>2, <3>3 DEF There
  <2>9. PointersFit(flow', base')
    <3>1. base \in Pointers /\ q.drop \subseteq Stages
      BY <1>1, <2>1 DEF PointersFit, OfFlow
    <3>2. ASSUME NEW s \in Stages
          PROVE  /\ base'[s] \in Stages \cup {NoStage}
                 /\ base'[s] # NoStage => s \in There(flow') /\ base'[s] \in There(flow')
      <4>1. CASE s \in DOMAIN q.moves
        <5>1. base'[s] = q.moves[s]
          BY <1>7, <4>1
        <5>2. q.moves[s] \in There(flow') \cup {NoStage} /\ s \in There(flow')
          BY <1>7, <2>1, <2>8, <4>1
        <5> QED BY <5>1, <5>2 DEF There
      <4>2. CASE s \notin DOMAIN q.moves /\ s \in q.drop
        BY <1>7, <4>2
      <4>3. CASE s \notin DOMAIN q.moves /\ s \notin q.drop
        <5>1. base'[s] = IF base[s] \in q.drop THEN NoStage ELSE base[s]
          BY <1>7, <4>3 DEF Unpointed
        <5>2. base[s] # NoStage => s \in There(flow) /\ base[s] \in There(flow)
          BY <1>1 DEF PointersFit
        <5> QED BY <2>8, <3>1, <4>3, <5>1, <5>2 DEF Pointers
      <4> QED BY <4>1, <4>2, <4>3
    <3>3. base' \in Pointers
      BY <1>7, <3>2 DEF Pointers
    <3> QED BY <3>2, <3>3 DEF PointersFit
  <2>10. BoardFits(flow', board')
    <3>1. board = [seat |-> board.seat, start |-> board.start, item |-> board.item]
      BY <1>1 DEF BoardFits
    <3>2. board' = [seat |-> board.seat,
                    start |-> IF board.start \in q.drop THEN w ELSE board.start,
                    item |-> Sweeps(q.drop)]
      BY <1>7, <3>1
    <3>3. board.seat \in There(flow') \cup {NoStage}
      BY <1>1, <1>7, <2>8 DEF BoardFits, Releasable
    <3>4. \A v \in Flows : flow[v].rev > 0 => flow'[v].rev > 0
      BY <2>3, <2>4, <2>5
    <3>5. flow'[w].rev > 0
      BY <2>3, <2>4
    <3>6. board'.start \in There(flow') \cup {v \in Flows : flow'[v].rev > 0} \cup {NoStage}
      BY <1>1, <2>1, <2>8, <3>2, <3>4, <3>5 DEF BoardFits
    <3>7. ASSUME NEW s \in Stages
          PROVE  Sweeps(q.drop)[s] \in Nat /\ (Sweeps(q.drop)[s] % 2 = 1 => s \in There(flow'))
      <4>1. board.item[s] \in Nat /\ (board.item[s] % 2 = 1 => s \in There(flow))
        BY <1>1 DEF BoardFits
      <4>2. Sweeps(q.drop)[s] = IF s \in q.drop /\ board.item[s] % 2 = 1 THEN board.item[s] + 1
                                ELSE board.item[s]
        BY DEF Sweeps, Attached
      <4>3. board.item[s] % 2 = 1 => (board.item[s] + 1) % 2 = 0
        BY <4>1
      <4> QED BY <2>8, <4>1, <4>2, <4>3
    <3>8. Sweeps(q.drop) \in [Stages -> Nat]
      BY <3>7 DEF Sweeps
    <3> QED BY <3>2, <3>3, <3>6, <3>7, <3>8 DEF BoardFits
  <2>11. saver'[r] = AtRest /\ saver' = [saver EXCEPT ![r] = saver'[r]]
    BY <1>1, <1>4 DEF SaversFit
  <2>12. ASSUME NEW v \in Flows, v # w
         PROVE  Wanes(v, base, base')
    <3> SUFFICES ASSUME NEW s \in OfFlow(v)
                 PROVE  OwnBase(s, base'[s]) \in {OwnBase(s, base[s]), NoStage}
      BY DEF Wanes
    <3>1. s \in Stages /\ FlowOf[s] = v /\ s \notin q.drop /\ s \notin DOMAIN q.moves
      BY <2>1, <2>12 DEF OfFlow
    <3>2. base'[s] = IF base[s] \in q.drop THEN NoStage ELSE base[s]
      BY <1>7, <3>1 DEF Unpointed
    <3> QED BY <3>2 DEF OwnBase
  <2>13. ASSUME NEW s \in Savers \ {r}, saver[s] # AtRest
         PROVE  /\ Spares(saver[s], flow, flow')
                /\ flow'[saver[s].flow].rev = flow[saver[s].flow].rev =>
                     Wanes(saver[s].flow, base, base')
    <3>1. SaverFits(saver[s], flow, minted) /\ Alone(saver[s], saver[r])
      BY <1>1 DEF SaversFit
    <3>2. saver[s].flow \in Flows /\ saver[s].pc \in {"save", "create", "delete"}
      BY <2>13, <3>1, SaverPc
    <3>3. saver[s].pc = "create" => saver[s].flow # w
      BY <1>2, <1>3, <1>5, <3>1 DEF Alone
    <3>4. flow'[w].rev = flow[w].rev + 1 /\ flow[w].rev # 0 /\ flow'[w].rev # flow[w].rev
      BY <2>1, <2>2, <2>3, <2>4
    <3>5. Spares(saver[s], flow, flow')
      BY <2>5, <3>2, <3>3, <3>4 DEF Spares
    <3> QED BY <2>12, <3>2, <3>4, <3>5
  <2>14. SaversFit'
    <3>1. SaverFits(saver'[r], flow', minted') /\ minted \subseteq minted'
      BY <1>4, <2>11, AtRestFits
    <3> QED BY <2>11, <2>13, <3>1, AtRestFits, SaversStep
  <2>15. ASSUME NEW v \in Flows, NEW s \in flow'[v].stages
         PROVE  Fits(Own(base'), s)
    <3>1. base \in Pointers /\ base' \in Pointers
      BY <1>1, <2>9 DEF PointersFit
    <3>2. CASE v # w
      <4>1. s \in OfFlow(v) /\ Fits(Own(base), s)
        BY <1>1, <2>5, <2>15, <3>2 DEF PlansFit, StagesFit, Rows
      <4> QED BY <2>12, <3>1, <3>2, <4>1, ChainKept
    <3>3. CASE v = w
      <4>1. s \in q.keep /\ s \in OfFlow(w)
        BY <2>1, <2>4, <2>15, <3>3
      <4>2. Fits(Own(Plan(q.moves, base)), s)
        BY <1>1, <1>2, <1>3, <1>4, <2>2, <4>1 DEF PlansFit, PlanFits
      <4>3. Plan(q.moves, base) \in Pointers
        BY <1>5, <3>1, PlanType DEF Saves
      <4>4. Wanes(w, Plan(q.moves, base), base')
        <5> SUFFICES ASSUME NEW t \in OfFlow(w)
                     PROVE  OwnBase(t, base'[t]) \in {OwnBase(t, Plan(q.moves, base)[t]), NoStage}
          BY DEF Wanes
        <5>1. t \in Stages
          BY DEF OfFlow
        <5>2. CASE t \in DOMAIN q.moves
          BY <1>7, <5>1, <5>2 DEF Plan
        <5>3. CASE t \notin DOMAIN q.moves
          <6>1. base'[t] \in {base[t], NoStage} /\ Plan(q.moves, base)[t] = base[t]
            BY <1>7, <5>1, <5>3 DEF Plan, Unpointed
          <6> QED BY <6>1 DEF OwnBase
        <5> QED BY <5>2, <5>3
      <4> QED BY <2>1, <3>1, <4>1, <4>2, <4>3, <4>4, ChainKept
    <3> QED BY <3>2, <3>3
  <2>16. PlansFit'
    <3>1. StagesFit(flow', base') /\ base' \in Pointers /\ PlanFits(saver'[r], flow', base')
      BY <2>9, <2>11, <2>15, AtRestFits DEF StagesFit, PointersFit
    <3> QED BY <2>11, <2>13, <3>1, PlansStep
  <2> QED BY <2>7, <2>9, <2>10, <2>14, <2>16 DEF FlowsInv
<1> QED BY <1>2, <1>3, <1>6, <1>7 DEF SaveCommits

LEMMA CreateAsked_Inv ==
  ASSUME FlowsInv, NEW r \in Savers, NEW w \in Flows, NEW keep \in SUBSET OfFlow(w),
         NEW to \in [keep -> Stages \cup {NoStage}], CreateAsked(r, w, keep, to)
  PROVE  FlowsInv'
<1>1. Rows(flow, minted) /\ PointersFit(flow, base) /\ BoardFits(flow, board)
      /\ SaversFit /\ PlansFit
  BY DEF FlowsInv
<1>2. flow' = flow /\ base' = base /\ board' = board /\ minted' = minted \cup keep
  BY DEF CreateAsked
<1>3. keep # {} /\ OfFlow(w) \cap minted = {} /\ Resolves(keep, {}, to)
  BY DEF CreateAsked
<1>4. saver'[r] = [pc |-> "create", flow |-> w, to |-> to]
      /\ saver' = [saver EXCEPT ![r] = saver'[r]]
  BY <1>1 DEF CreateAsked, SaversFit
<1>5. saver'[r].pc = "create" /\ saver'[r].flow = w /\ saver'[r].to = to
  BY <1>4
<1>6. flow[w].rev = 0
  BY <1>1, <1>3 DEF Rows
<1>7. Rows(flow', minted')
  BY <1>1, <1>2 DEF Rows
<1>8. Creates(saver'[r], flow', minted')
  BY <1>2, <1>3, <1>5, <1>6 DEF Creates
<1>9. PlanFits(saver'[r], flow', base')
  <2>1. ASSUME NEW s \in keep
        PROVE  Fits(Own(Plan(to, base)), s)
    <3>1. s \in Stages /\ base \in Pointers
      BY <1>1 DEF OfFlow, PointersFit
    <3>2. Plan(to, base) = [t \in Stages |-> IF t \in keep THEN to[t] ELSE base[t]]
      BY DEF Plan
    <3>3. \A t \in keep : to[t] \in Stages \cup {NoStage}
      OBVIOUS
    <3> QED BY <1>3, <3>1, <3>2, <3>3, ResolvedFits
  <2>2. DOMAIN to = keep
    OBVIOUS
  <2> QED BY <1>2, <1>5, <2>1, <2>2 DEF PlanFits
<1>10. \A s \in Savers : Spares(saver[s], flow, flow') /\ Wanes(saver[s].flow, base, base')
  BY <1>2, SameWanes DEF Spares
<1>11. ASSUME NEW s \in Savers \ {r}
       PROVE  Alone(saver'[r], saver[s]) /\ Alone(saver[s], saver'[r])
  <2>1. SaverFits(saver[s], flow, minted)
    BY <1>1 DEF SaversFit
  <2>2. saver[s] = AtRest \/ saver[s].flow # w
    BY <1>3, <2>1, SaverPc
  <2>3. saver[s].pc = "create" => saver[s] # AtRest
    BY DEF AtRest
  <2> QED BY <1>5, <2>2, <2>3 DEF Alone
<1>12. SaversFit'
  <2>1. SaverFits(saver'[r], flow', minted') /\ minted \subseteq minted'
    BY <1>2, <1>8 DEF SaverFits
  <2> QED BY <1>4, <1>10, <1>11, <2>1, SaversStep
<1>13. PlansFit'
  <2>1. StagesFit(flow', base') /\ base' \in Pointers
    BY <1>1, <1>2 DEF PlansFit, PointersFit
  <2> QED BY <1>4, <1>9, <1>10, <2>1, PlansStep
<1> QED BY <1>1, <1>2, <1>7, <1>12, <1>13 DEF FlowsInv

LEMMA CreateInserts_Inv ==
  ASSUME FlowsInv, NEW r \in Savers, CreateInserts(r)
  PROVE  FlowsInv'
<1>1. Rows(flow, minted) /\ PointersFit(flow, base) /\ BoardFits(flow, board)
      /\ SaversFit /\ PlansFit
  BY DEF FlowsInv
<1>2. PICK q : q = saver[r]
  OBVIOUS
<1>3. PICK w, keep : w = q.flow /\ keep = DOMAIN q.to
  OBVIOUS
<1>4. q.pc = "create" /\ saver' = [saver EXCEPT ![r] = AtRest] /\ minted' = minted /\ board' = board
  BY <1>2 DEF CreateInserts
<1>5. Creates(q, flow, minted) /\ q # AtRest
  <2>1. SaverFits(q, flow, minted)
    BY <1>1, <1>2 DEF SaversFit
  <2> QED BY <1>4, <2>1, SaverPc DEF AtRest
<1>6. CASE UNCHANGED <<flow, base>>
  BY <1>4, <1>6, SaverRests
<1>7. CASE /\ \A s \in keep : q.to[s] \in Existing \cup keep \cup {NoStage}
           /\ flow' = [flow EXCEPT ![w].rev = 1, ![w].stages = keep]
           /\ base' = [s \in Stages |-> IF s \in keep THEN q.to[s] ELSE base[s]]
  <2>1. w \in Flows /\ keep # {} /\ keep \subseteq OfFlow(w) /\ keep \subseteq minted
        /\ flow[w].rev = 0
    BY <1>3, <1>5 DEF Creates
  <2>2. flow[w].stages = {} /\ flow[w].default \in BOOLEAN
        /\ flow[w] = [rev |-> flow[w].rev, stages |-> flow[w].stages, default |-> flow[w].default]
    BY <1>1, <2>1 DEF Rows
  <2>3. flow'[w] = [rev |-> 1, stages |-> keep, default |-> flow[w].default]
    BY <1>1, <1>7, <2>1, <2>2 DEF Rows
  <2>4. \A v \in Flows : v # w => flow'[v] = flow[v]
    BY <1>1, <1>7 DEF Rows
  <2>5. flow' = [v \in Flows |-> flow'[v]]
    BY <1>1, <1>7 DEF Rows
  <2>6. Rows(flow', minted')
    <3>1. \A s : s \in OfFlow(w) => s \in Stages
      BY DEF OfFlow
    <3>2. flow'[w] \in [rev : Nat, stages : SUBSET Stages, default : BOOLEAN]
      BY <2>1, <2>2, <2>3, <3>1
    <3>3. flow'[w].rev # 0 /\ flow'[w].stages = keep
      BY <2>3
    <3> QED BY <1>1, <1>4, <2>1, <2>4, <2>5, <3>2, <3>3 DEF Rows
  <2>7. Existing = There(flow) /\ There(flow') = There(flow) \cup keep
    <3>1. Existing = There(flow)
      BY <1>1, ExistingIs
    <3>2. \A s \in Stages : s \in OfFlow(w) <=> FlowOf[s] = w
      BY DEF OfFlow
    <3>3. keep \subseteq Stages
      BY <2>1 DEF OfFlow
    <3> QED BY <2>1, <2>2, <2>3, <2>4, <3>1, <3>2, <3>3 DEF There
  <2>8. PointersFit(flow', base')
    <3>1. base \in Pointers /\ There(flow) \subseteq Stages /\ keep \subseteq Stages
      BY <1>1, <2>1 DEF PointersFit, OfFlow, There
    <3>2. ASSUME NEW s \in Stages
          PROVE  /\ base'[s] \in Stages \cup {NoStage}
                 /\ base'[s] # NoStage => s \in There(flow') /\ base'[s] \in There(flow')
      <4>1. CASE s \in keep
        <5>1. base'[s] = q.to[s] /\ q.to[s] \in There(flow') \cup {NoStage} /\ s \in There(flow')
          BY <1>7, <2>7, <4>1
        <5> QED BY <5>1 DEF There
      <4>2. CASE s \notin keep
        <5>1. base'[s] = base[s] /\ base[s] \in Stages \cup {NoStage}
          BY <1>7, <3>1, <4>2 DEF Pointers
        <5>2. base[s] # NoStage => s \in There(flow) /\ base[s] \in There(flow)
          BY <1>1 DEF PointersFit
        <5> QED BY <2>7, <5>1, <5>2
      <4> QED BY <4>1, <4>2
    <3>3. base' \in Pointers
      BY <1>7, <3>2 DEF Pointers
    <3> QED BY <3>2, <3>3 DEF PointersFit
  <2>9. BoardFits(flow', board')
    <3>1. \A v \in Flows : flow[v].rev > 0 => flow'[v].rev > 0
      BY <2>3, <2>4
    <3> QED BY <1>1, <1>4, <2>7, <3>1 DEF BoardFits
  <2>10. saver'[r] = AtRest /\ saver' = [saver EXCEPT ![r] = saver'[r]]
    BY <1>1, <1>4 DEF SaversFit
  <2>11. ASSUME NEW v \in Flows, v # w
         PROVE  Wanes(v, base, base')
    <3> SUFFICES ASSUME NEW s \in OfFlow(v)
                 PROVE  OwnBase(s, base'[s]) \in {OwnBase(s, base[s]), NoStage}
      BY DEF Wanes
    <3>1. s \in Stages /\ s \notin keep
      BY <2>1, <2>11 DEF OfFlow
    <3>2. base'[s] = base[s]
      BY <1>7, <3>1
    <3> QED BY <3>2
  <2>12. ASSUME NEW s \in Savers \ {r}, saver[s] # AtRest
         PROVE  Spares(saver[s], flow, flow') /\ Wanes(saver[s].flow, base, base')
    <3>1. SaverFits(saver[s], flow, minted) /\ Alone(saver[r], saver[s])
      BY <1>1 DEF SaversFit
    <3>2. saver[s].flow \in Flows /\ saver[s].flow # w
      BY <1>2, <1>3, <1>4, <2>12, <3>1, SaverPc DEF Alone
    <3> QED BY <2>4, <2>11, <3>2 DEF Spares
  <2>13. SaversFit'
    <3>1. SaverFits(saver'[r], flow', minted') /\ minted \subseteq minted'
      BY <1>4, <2>10, AtRestFits
    <3>2. \A s \in Savers : Alone(saver'[r], saver[s]) /\ Alone(saver[s], saver'[r])
      BY <2>10, AtRestFits
    <3> QED BY <2>10, <2>12, <3>1, <3>2, SaversStep
  <2>14. ASSUME NEW v \in Flows, NEW s \in flow'[v].stages
         PROVE  Fits(Own(base'), s)
    <3>1. base \in Pointers /\ base' \in Pointers
      BY <1>1, <2>8 DEF PointersFit
    <3>2. CASE v # w
      <4>1. s \in OfFlow(v) /\ Fits(Own(base), s)
        BY <1>1, <2>4, <2>14, <3>2 DEF PlansFit, StagesFit, Rows
      <4> QED BY <2>11, <3>1, <3>2, <4>1, ChainKept
    <3>3. CASE v = w
      <4>1. s \in keep
        BY <2>3, <2>14, <3>3
      <4>2. Fits(Own(Plan(q.to, base)), s)
        BY <1>1, <1>2, <1>3, <1>4, <4>1 DEF PlansFit, PlanFits
      <4>3. Plan(q.to, base) = base'
        BY <1>3, <1>7 DEF Plan
      <4> QED BY <4>2, <4>3
    <3> QED BY <3>2, <3>3
  <2>15. PlansFit'
    <3>1. StagesFit(flow', base') /\ base' \in Pointers /\ PlanFits(saver'[r], flow', base')
      BY <2>8, <2>10, <2>14, AtRestFits DEF StagesFit, PointersFit
    <3> QED BY <2>10, <2>12, <3>1, PlansStep
  <2> QED BY <2>6, <2>8, <2>9, <2>13, <2>15 DEF FlowsInv
<1> QED BY <1>2, <1>3, <1>6, <1>7 DEF CreateInserts

LEMMA FlowDeleteReads_Inv ==
  ASSUME FlowsInv, NEW r \in Savers, NEW w \in Flows, FlowDeleteReads(r, w)
  PROVE  FlowsInv'
<1>1. Rows(flow, minted) /\ PointersFit(flow, base) /\ BoardFits(flow, board)
      /\ SaversFit /\ PlansFit
  BY DEF FlowsInv
<1>2. flow' = flow /\ base' = base /\ board' = board /\ minted' = minted
  BY DEF FlowDeleteReads
<1>3. saver' = [saver EXCEPT ![r] = saver'[r]] /\ saver'[r].pc = "delete" /\ saver'[r].flow = w
  BY <1>1 DEF FlowDeleteReads, SaversFit
<1>4. flow[w].rev > 0 /\ flow[w].stages # {} /\ OfFlow(w) \cap minted # {}
  BY <1>1 DEF FlowDeleteReads, Rows
<1>5. Deletes(saver'[r], minted')
  BY <1>2, <1>3, <1>4 DEF Deletes
<1>6. \A s \in Savers : Spares(saver[s], flow, flow') /\ Wanes(saver[s].flow, base, base')
  BY <1>2, SameWanes DEF Spares
<1>7. ASSUME NEW s \in Savers \ {r}
      PROVE  Alone(saver'[r], saver[s]) /\ Alone(saver[s], saver'[r])
  <2>1. SaverFits(saver[s], flow, minted)
    BY <1>1 DEF SaversFit
  <2>2. saver[s].pc = "create" => saver[s].flow # w
    BY <1>4, <2>1, SaverPc DEF Creates
  <2> QED BY <1>3, <2>2 DEF Alone
<1>8. SaversFit'
  <2>1. SaverFits(saver'[r], flow', minted') /\ minted \subseteq minted'
    BY <1>2, <1>5 DEF SaverFits
  <2> QED BY <1>3, <1>6, <1>7, <2>1, SaversStep
<1>9. PlansFit'
  <2>1. StagesFit(flow', base') /\ base' \in Pointers /\ PlanFits(saver'[r], flow', base')
    BY <1>1, <1>2, <1>3 DEF PlansFit, PointersFit, PlanFits
  <2> QED BY <1>3, <1>6, <2>1, PlansStep
<1> QED BY <1>1, <1>2, <1>8, <1>9 DEF FlowsInv

LEMMA FlowDeleteCommits_Inv ==
  ASSUME FlowsInv, NEW r \in Savers, FlowDeleteCommits(r)
  PROVE  FlowsInv'
<1>1. Rows(flow, minted) /\ PointersFit(flow, base) /\ BoardFits(flow, board)
      /\ SaversFit /\ PlansFit
  BY DEF FlowsInv
<1>2. PICK q : q = saver[r]
  OBVIOUS
<1>3. PICK w, stages : w = q.flow /\ stages = flow[w].stages
  OBVIOUS
<1>4. q.pc = "delete" /\ saver' = [saver EXCEPT ![r] = AtRest] /\ minted' = minted
  BY <1>2 DEF FlowDeleteCommits
<1>5. Deletes(q, minted)
  <2>1. SaverFits(q, flow, minted)
    BY <1>1, <1>2 DEF SaversFit
  <2> QED BY <1>4, <2>1, SaverPc
<1>6. CASE UNCHANGED <<flow, base, board>>
  BY <1>4, <1>6, SaverRests
<1>7. CASE /\ flow[w].rev > 0 /\ Releasable(stages, q.items) /\ ~Scheduled(w)
           /\ \A s \in Existing \ stages : base[s] \notin stages \ q.stages
           /\ flow' = [flow EXCEPT ![w] = [rev |-> 0, stages |-> {}, default |-> FALSE]]
           /\ base' = [s \in Stages |-> IF s \in stages THEN NoStage ELSE Unpointed(q.stages)[s]]
           /\ board' = [board EXCEPT !.item = Sweeps(stages)]
  <2>1. w \in Flows /\ stages \subseteq OfFlow(w) /\ flow[w].rev \in Nat /\ flow[w].rev # 0
    BY <1>1, <1>3, <1>5, <1>7 DEF Deletes, Rows
  <2>2. flow'[w] = [rev |-> 0, stages |-> {}, default |-> FALSE]
    BY <1>1, <1>7, <2>1 DEF Rows
  <2>3. \A v \in Flows : v # w => flow'[v] = flow[v]
    BY <1>1, <1>7 DEF Rows
  <2>4. flow' = [v \in Flows |-> flow'[v]]
    BY <1>1, <1>7 DEF Rows
  <2>5. Rows(flow', minted')
    <3>1. flow'[w] \in [rev : Nat, stages : SUBSET Stages, default : BOOLEAN]
      BY <2>2
    <3>2. flow'[w].rev = 0 /\ flow'[w].stages = {}
      BY <2>2
    <3> QED BY <1>1, <1>4, <2>1, <2>3, <2>4, <3>1, <3>2 DEF Rows
  <2>6. Existing = There(flow) /\ There(flow') = There(flow) \ stages
    <3>1. Existing = There(flow)
      BY <1>1, ExistingIs
    <3>2. \A s \in Stages : s \in OfFlow(w) <=> FlowOf[s] = w
      BY DEF OfFlow
    <3> QED BY <1>3, <2>1, <2>2, <2>3, <3>1, <3>2 DEF There
  <2>7. PointersFit(flow', base')
    <3>1. base \in Pointers
      BY <1>1 DEF PointersFit
    <3>2. ASSUME NEW s \in Stages
          PROVE  /\ base'[s] \in Stages \cup {NoStage}
                 /\ base'[s] # NoStage => s \in There(flow') /\ base'[s] \in There(flow')
      <4>1. CASE s \in stages
        BY <1>7, <4>1
      <4>2. CASE s \notin stages
        <5>1. base'[s] = IF base[s] \in q.stages THEN NoStage ELSE base[s]
          BY <1>7, <4>2 DEF Unpointed
        <5>2. base[s] # NoStage => s \in There(flow) /\ base[s] \in There(flow)
          BY <1>1 DEF PointersFit
        <5>3. s \in There(flow) => base[s] \notin stages \ q.stages
          BY <1>7, <2>6, <4>2
        <5> QED BY <2>6, <3>1, <4>2, <5>1, <5>2, <5>3 DEF Pointers
      <4> QED BY <4>1, <4>2
    <3>3. base' \in Pointers
      BY <1>7, <3>2 DEF Pointers
    <3> QED BY <3>2, <3>3 DEF PointersFit
  <2>8. BoardFits(flow', board')
    <3>1. board = [seat |-> board.seat, start |-> board.start, item |-> board.item]
      BY <1>1 DEF BoardFits
    <3>2. board' = [seat |-> board.seat, start |-> board.start, item |-> Sweeps(stages)]
      BY <1>7, <3>1
    <3>3. board.seat \in There(flow') \cup {NoStage}
      BY <1>1, <1>7, <2>6 DEF BoardFits, Releasable
    <3>4. board.start # w /\ board.start \notin stages
      BY <1>7, <2>1 DEF Scheduled
    <3>5. board.start \in There(flow') \cup {v \in Flows : flow'[v].rev > 0} \cup {NoStage}
      BY <1>1, <2>3, <2>6, <3>4 DEF BoardFits
    <3>6. ASSUME NEW s \in Stages
          PROVE  Sweeps(stages)[s] \in Nat /\ (Sweeps(stages)[s] % 2 = 1 => s \in There(flow'))
      <4>1. board.item[s] \in Nat /\ (board.item[s] % 2 = 1 => s \in There(flow))
        BY <1>1 DEF BoardFits
      <4>2. Sweeps(stages)[s] = IF s \in stages /\ board.item[s] % 2 = 1 THEN board.item[s] + 1
                                ELSE board.item[s]
        BY DEF Sweeps, Attached
      <4>3. board.item[s] % 2 = 1 => (board.item[s] + 1) % 2 = 0
        BY <4>1
      <4> QED BY <2>6, <4>1, <4>2, <4>3
    <3>7. Sweeps(stages) \in [Stages -> Nat]
      BY <3>6 DEF Sweeps
    <3> QED BY <3>2, <3>3, <3>5, <3>6, <3>7 DEF BoardFits
  <2>9. saver'[r] = AtRest /\ saver' = [saver EXCEPT ![r] = saver'[r]]
    BY <1>1, <1>4 DEF SaversFit
  <2>10. ASSUME NEW v \in Flows, v # w
         PROVE  Wanes(v, base, base')
    <3> SUFFICES ASSUME NEW s \in OfFlow(v)
                 PROVE  OwnBase(s, base'[s]) \in {OwnBase(s, base[s]), NoStage}
      BY DEF Wanes
    <3>1. s \in Stages /\ s \notin stages
      BY <2>1, <2>10 DEF OfFlow
    <3>2. base'[s] \in {base[s], NoStage}
      BY <1>7, <3>1 DEF Unpointed
    <3> QED BY <3>2 DEF OwnBase
  <2>11. ASSUME NEW s \in Savers \ {r}, saver[s] # AtRest
         PROVE  /\ Spares(saver[s], flow, flow')
                /\ flow'[saver[s].flow].rev = flow[saver[s].flow].rev =>
                     Wanes(saver[s].flow, base, base')
    <3>1. SaverFits(saver[s], flow, minted)
      BY <1>1 DEF SaversFit
    <3>2. saver[s].flow \in Flows /\ saver[s].pc \in {"save", "create", "delete"}
      BY <2>11, <3>1, SaverPc
    <3>3. saver[s].pc = "create" => saver[s].flow # w
      BY <2>1, <3>1, SaverPc DEF Creates
    <3>4. flow'[w].rev = 0 /\ flow[w].rev # 0
      BY <2>1, <2>2
    <3>5. Spares(saver[s], flow, flow')
      BY <2>3, <3>2, <3>3, <3>4 DEF Spares
    <3> QED BY <2>10, <3>2, <3>4, <3>5
  <2>12. SaversFit'
    <3>1. SaverFits(saver'[r], flow', minted') /\ minted \subseteq minted'
      BY <1>4, <2>9, AtRestFits
    <3>2. \A s \in Savers : Alone(saver'[r], saver[s]) /\ Alone(saver[s], saver'[r])
      BY <2>9, AtRestFits
    <3> QED BY <2>9, <2>11, <3>1, <3>2, SaversStep
  <2>13. ASSUME NEW v \in Flows, NEW s \in flow'[v].stages
         PROVE  Fits(Own(base'), s)
    <3>1. base \in Pointers /\ base' \in Pointers
      BY <1>1, <2>7 DEF PointersFit
    <3>2. v # w
      BY <2>2, <2>13
    <3>3. s \in OfFlow(v) /\ Fits(Own(base), s)
      BY <1>1, <2>3, <2>13, <3>2 DEF PlansFit, StagesFit, Rows
    <3> QED BY <2>10, <3>1, <3>2, <3>3, ChainKept
  <2>14. PlansFit'
    <3>1. StagesFit(flow', base') /\ base' \in Pointers /\ PlanFits(saver'[r], flow', base')
      BY <2>7, <2>9, <2>13, AtRestFits DEF StagesFit, PointersFit
    <3> QED BY <2>9, <2>11, <3>1, PlansStep
  <2> QED BY <2>5, <2>7, <2>8, <2>12, <2>14 DEF FlowsInv
<1> QED BY <1>2, <1>3, <1>6, <1>7 DEF FlowDeleteCommits

LEMMA BoardUsed_Inv ==
  ASSUME FlowsInv, BoardFits(flow, board'), UNCHANGED <<flow, base, minted, saver>>
  PROVE  FlowsInv'
BY DEF FlowsInv, SaversFit, PlansFit

LEMMA Using_Inv == FlowsInv /\ UsingNext => FlowsInv'
<1> SUFFICES ASSUME FlowsInv, UsingNext PROVE FlowsInv'
  OBVIOUS
<1>1. Rows(flow, minted) /\ PointersFit(flow, base) /\ BoardFits(flow, board)
      /\ SaversFit /\ PlansFit
  BY DEF FlowsInv
<1>2. Existing = There(flow)
  BY <1>1, ExistingIs
<1>3. board = [seat |-> board.seat, start |-> board.start, item |-> board.item]
  BY <1>1 DEF BoardFits
<1>4. ASSUME NEW s, IssueGoes(s)
      PROVE  FlowsInv'
  <2>1. board' = [seat |-> s, start |-> board.start, item |-> board.item]
        /\ s \in There(flow) \cup {NoStage}
    BY <1>2, <1>3, <1>4 DEF IssueGoes
  <2>2. BoardFits(flow, board')
    BY <1>1, <2>1 DEF BoardFits
  <2> QED BY <1>4, <2>2, BoardUsed_Inv DEF IssueGoes
<1>5. ASSUME NEW s, ScheduleStarts(s)
      PROVE  FlowsInv'
  <2>1. board' = [seat |-> board.seat, start |-> s, item |-> board.item]
        /\ s \in There(flow) \cup {w \in Flows : flow[w].rev > 0} \cup {NoStage}
    BY <1>2, <1>3, <1>5 DEF ScheduleStarts
  <2>2. BoardFits(flow, board')
    BY <1>1, <2>1 DEF BoardFits
  <2> QED BY <1>5, <2>2, BoardUsed_Inv DEF ScheduleStarts
<1>6. ASSUME NEW s \in Stages, ItemWritten(s)
      PROVE  FlowsInv'
  <2>1. PICK n \in {1, 2} : board' = [board EXCEPT !.item[s] = @ + n]
    BY <1>6 DEF ItemWritten
  <2>2. board' = [seat |-> board.seat, start |-> board.start,
                  item |-> [board.item EXCEPT ![s] = board.item[s] + n]]
    BY <1>3, <2>1
  <2>3. s \in There(flow)
    BY <1>2, <1>6 DEF ItemWritten
  <2>4. [board.item EXCEPT ![s] = board.item[s] + n] \in [Stages -> Nat]
    BY <1>1 DEF BoardFits
  <2>5. \A t \in Stages : t # s => [board.item EXCEPT ![s] = board.item[s] + n][t] = board.item[t]
    BY <1>1 DEF BoardFits
  <2>6. BoardFits(flow, board')
    BY <1>1, <2>2, <2>3, <2>4, <2>5 DEF BoardFits
  <2> QED BY <1>6, <2>6, BoardUsed_Inv DEF ItemWritten
<1>7. ASSUME NEW w \in Flows, DefaultSet(w)
      PROVE  FlowsInv'
  <2>1. \A v \in Flows : flow'[v].rev = flow[v].rev /\ flow'[v].stages = flow[v].stages
    BY <1>1, <1>7 DEF DefaultSet, Rows
  <2>2. flow' \in [Flows -> [rev : Nat, stages : SUBSET Stages, default : BOOLEAN]]
    BY <1>1, <1>7 DEF DefaultSet, Rows
  <2>3. base' = base /\ board' = board /\ minted' = minted /\ saver' = saver
    BY <1>7 DEF DefaultSet
  <2>4. Rows(flow', minted')
    BY <1>1, <2>1, <2>2, <2>3 DEF Rows
  <2>5. There(flow') = There(flow)
    BY <2>1 DEF There
  <2>6. PointersFit(flow', base')
    BY <1>1, <2>3, <2>5 DEF PointersFit
  <2>7. BoardFits(flow', board')
    BY <1>1, <2>1, <2>3, <2>5 DEF BoardFits
  <2>8. ASSUME NEW r \in Savers
        PROVE  SaverFits(saver'[r], flow', minted') /\ PlanFits(saver'[r], flow', base')
    <3>1. SaverFits(saver[r], flow, minted) /\ PlanFits(saver[r], flow, base)
      BY <1>1 DEF SaversFit, PlansFit
    <3>2. saver[r] # AtRest => Spares(saver[r], flow, flow')
      BY <2>1, <3>1, SaverPc DEF Spares
    <3>3. base \in Pointers /\ minted \subseteq minted'
      BY <1>1, <2>3 DEF PointersFit
    <3>4. SaverFits(saver[r], flow', minted')
      BY <1>1, <3>1, <3>2, <3>3, SaverKept
    <3>5. PlanFits(saver[r], flow', base)
      BY <1>1, <3>1, <3>2, <3>3, PlanKept, SameWanes
    <3> QED BY <2>3, <3>4, <3>5
  <2>9. SaversFit'
    BY <1>1, <2>3, <2>8 DEF SaversFit
  <2>10. PlansFit'
    BY <1>1, <2>1, <2>3, <2>8 DEF PlansFit, StagesFit
  <2> QED BY <2>4, <2>6, <2>7, <2>9, <2>10 DEF FlowsInv
<1> QED BY <1>4, <1>5, <1>6, <1>7 DEF UsingNext

\* Whatever the initial workflows, none inherits yet.
LEMMA Flows_Init == FlowsInit => FlowsInv
<1> SUFFICES ASSUME FlowsInit PROVE FlowsInv
  OBVIOUS
<1>1. Rows(flow, minted)
  <2>1. flow \in [Flows -> [rev : Nat, stages : SUBSET Stages, default : BOOLEAN]]
    <3>1. \A w \in Flows : flow[w] \in [rev : {0, 1}, stages : SUBSET Stages, default : {FALSE}]
      BY DEF FlowsInit
    <3>2. ASSUME NEW w \in Flows
          PROVE  flow[w] \in [rev : Nat, stages : SUBSET Stages, default : BOOLEAN]
      <4>1. /\ flow[w] = [rev |-> flow[w].rev, stages |-> flow[w].stages,
                          default |-> flow[w].default]
            /\ flow[w].rev \in {0, 1} /\ flow[w].stages \in SUBSET Stages
            /\ flow[w].default = FALSE
        BY <3>1
      <4>2. flow[w].rev \in Nat
        BY <4>1
      <4>3. flow[w].default \in BOOLEAN
        BY <4>1
      <4> QED BY <4>1, <4>2, <4>3
    <3>3. flow = [w \in Flows |-> flow[w]]
      BY DEF FlowsInit
    <3> QED BY <3>2, <3>3
  <2>2. \A w \in Flows : flow[w].stages \subseteq minted
    BY DEF FlowsInit, Existing
  <2> QED BY <2>1, <2>2 DEF FlowsInit, Rows
<1>2. base = [s \in Stages |-> NoStage] /\ PointersFit(flow, base)
  BY DEF FlowsInit, PointersFit, Pointers
<1>3. BoardFits(flow, board)
  BY DEF FlowsInit, BoardFits
<1>4. SaversFit
  BY AtRestFits DEF FlowsInit, SaversFit
<1>5. ASSUME NEW w \in Flows, NEW s \in flow[w].stages
      PROVE  Fits(Own(base), s)
  <2>1. PICK up : /\ Climbs(up, Own(base), s, MaxChain)
                  /\ Fits(Own(base), s) <=> up[MaxChain] = NoStage
    BY FitsIs
  <2>2. s \in Stages
    BY <1>1, <1>5 DEF Rows, OfFlow
  <2>3. \A t \in Stages : Own(base)[t] = NoStage
    BY <1>2 DEF Own, OwnBase
  <2>4. \A n \in 0..MaxChain :
          up[n] = IF n = 0 THEN s ELSE IF up[n - 1] = NoStage THEN NoStage ELSE Own(base)[up[n - 1]]
    BY <2>1 DEF Climbs
  <2> DEFINE T == {n \in 1..MaxChain : up[n] # NoStage}
  <2>5. T = {}
    <3> SUFFICES ASSUME T # {} PROVE FALSE
      OBVIOUS
    <3>1. PICK m \in T : \A j \in T : m <= j
      <4>1. T \in SUBSET Nat
        OBVIOUS
      <4> HIDE DEF T
      <4> QED BY <4>1, Least
    <3>2. m \in 0..MaxChain /\ m # 0 /\ m - 1 \in 0..MaxChain /\ ~(m <= m - 1)
      BY <3>1, FlowsAssumption
    <3>3. m - 1 = 0 \/ up[m - 1] = NoStage
      BY <3>1, <3>2
    <3>4. up[m] = IF up[m - 1] = NoStage THEN NoStage ELSE Own(base)[up[m - 1]]
      BY <2>4, <3>2
    <3>5. m - 1 = 0 => up[m - 1] = s
      BY <2>4, <3>2
    <3> QED BY <2>2, <2>3, <3>1, <3>3, <3>4, <3>5
  <2>6. MaxChain \in 1..MaxChain
    BY FlowsAssumption
  <2> QED BY <2>1, <2>5, <2>6
<1>6. PlansFit
  BY <1>5, AtRestFits DEF FlowsInit, PlansFit, StagesFit
<1> QED BY <1>1, <1>2, <1>3, <1>4, <1>6 DEF FlowsInv

LEMMA Flows_Next == FlowsInv /\ [FlowsNext]_flowVars => FlowsInv'
<1> SUFFICES ASSUME FlowsInv, [FlowsNext]_flowVars PROVE FlowsInv'
  OBVIOUS
<1>1. CASE UNCHANGED flowVars
  BY <1>1 DEF flowVars, FlowsInv, SaversFit, PlansFit
<1>2. CASE SavingNext
  <2>1. ASSUME NEW r \in Savers, SaverFails(r)
        PROVE  FlowsInv'
    BY <2>1, SaverRests DEF SaverFails
  <2> QED BY <1>2, <2>1, SaveReads_Inv, CreateAsked_Inv, SaveCommits_Inv, CreateInserts_Inv,
             FlowDeleteReads_Inv, FlowDeleteCommits_Inv DEF SavingNext
<1>3. CASE UsingNext
  BY <1>3, Using_Inv
<1> QED BY <1>1, <1>2, <1>3 DEF FlowsNext

-----------------------------------------------------------------------------
(* Workflows: theorems *)

\* What refers to a state or a workflow refers to one that exists, whatever
\* saves, creations and deletions overlap: what the foreign keys keep is what
\* the batches themselves re-check or clear.
THEOREM FlowsTypeCorrect == FlowsSpec => []FlowsTypeOK
<1>1. FlowsInv => FlowsTypeOK
  <2> SUFFICES ASSUME FlowsInv PROVE FlowsTypeOK
    OBVIOUS
  <2>1. Rows(flow, minted) /\ PointersFit(flow, base) /\ BoardFits(flow, board) /\ SaversFit
    BY DEF FlowsInv
  <2>2. Existing = There(flow)
    BY <2>1, ExistingIs
  <2>3. \A r \in Savers : saver[r] = AtRest \/ saver[r].pc \in {"save", "create", "delete"}
    BY <2>1, SaverPc DEF SaversFit
  <2>4. \A s \in Stages : Attached(s) => s \in Existing
    BY <2>1, <2>2 DEF BoardFits, Attached
  <2>5. \A s \in Stages : base[s] # NoStage => {s, base[s]} \subseteq Existing
    BY <2>1, <2>2 DEF PointersFit
  <2> QED BY <2>1, <2>2, <2>3, <2>4, <2>5 DEF FlowsTypeOK, Rows, PointersFit, Pointers, BoardFits
<1> QED BY <1>1, Flows_Init, Flows_Next, PTL DEF FlowsSpec

\* Chains of inheritance within a workflow never loop or exceed the cap, for
\* any cap, workflows and requests that overlap: a save that lands has seen
\* the last revision, and what others clear only shortens a chain.
THEOREM OwnChainsAlwaysFit == FlowsSpec => []OwnChainsFit
<1>1. FlowsInv => OwnChainsFit
  <2> SUFFICES ASSUME FlowsInv PROVE OwnChainsFit
    OBVIOUS
  <2>1. Rows(flow, minted) /\ PlansFit
    BY DEF FlowsInv
  <2>2. \A s \in Existing : Fits(Own(base), s)
    BY <2>1 DEF Existing, PlansFit, StagesFit
  <2> QED BY <2>2 DEF OwnChainsFit, Own, OwnBase
<1> QED BY <1>1, Flows_Init, Flows_Next, PTL DEF FlowsSpec
=============================================================================
