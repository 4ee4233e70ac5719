-------------------------- MODULE Consent_proofs --------------------------
(***************************************************************************)
(* Theorems about Consent, for any number of overlapping requests and any  *)
(* bounds on the revisions: its types, what an inherited "on" rests on,    *)
(* what a launch rests on, which claims are released, and that the tables  *)
(* implement PersonalPermission.                                           *)
(***************************************************************************)
EXTENDS Consent, TLAPS

-----------------------------------------------------------------------------
(* The inductive invariant.                                                 *)

\* The rows of the issue: none was written in a later epoch or membership
\* than the current one, and a row that does not exist says nothing.
ChoicesAreOld ==
    \A u \in People : /\ choice[u].epoch <= issue.epoch
                      /\ choice[u].member <= Stamp(u)
                      /\ choice[u].rev = 0 =>
                           choice[u].value = "unset" /\ choice[u].source = "none"

\* The rows of the schedule: each one that exists has the current permission
\* epoch, because every change of the epoch rewrites them.
GrantsAreCurrent ==
    \A u \in People : /\ grant[u].member <= Stamp(u)
                      /\ IF grant[u].rev = 0 THEN grant[u].value = "unset"
                         ELSE grant[u].epoch = schedule.epoch /\ grant[u].value # "unset"

\* Nobody says anything before there is something to say it of, and a member
\* who left has said nothing that still counts.
NothingSaid ==
    /\ ~shared => ~member.in /\ \A u \in People : choice[u].rev = 0 /\ grant[u].rev = 0
    /\ ~member.in => /\ choice[Member].value = "unset"
                     /\ grant[Member].rev = 0 \/ grant[Member].member < member.rev
    /\ issue.place = "none" => run.st = "none" /\ \A u \in People : choice[u].rev = 0
    /\ schedule.st = "none" => schedule.epoch = 0 /\ \A u \in People : grant[u].rev = 0

\* What a request read and nothing takes back.
RequestsAreSound ==
    \A h \in Handlers :
        /\ handler[h].pc \in {"choice", "grant"} => shared
        /\ handler[h].pc \in {"choice", "decide"} => issue.place # "none"
        /\ handler[h].pc = "decide" => (handler[h].shared => shared)
        /\ handler[h].pc = "workflow" => (handler[h].listed => shared)

\* In a shared project an issue that is done starts over: nothing said of it
\* counts, and no claim of it would pass the launching flip.
DoneIsFresh ==
    /\ run.st = "assigned" => run.epoch <= issue.epoch
    /\ issue.place = "done" /\ shared =>
         /\ \A u \in People : Effective(u) = "unset"
         /\ run.st = "assigned" => run.epoch < issue.epoch

PermissionInv ==
    /\ ChoicesAreOld /\ GrantsAreCurrent /\ NothingSaid /\ RequestsAreSound
    /\ DoneIsFresh /\ InheritedIsBacked

-----------------------------------------------------------------------------
(* Types.                                                                   *)

\* A row of the issue that is rewritten, field by field.
LEMMA Rewritten ==
  ASSUME NEW r \in Rows, NEW v \in {"on", "off", "unset"}, NEW e \in Nat
  PROVE  /\ [r EXCEPT !.value = v, !.rev = @ + 1, !.source = "none"]
              = [value |-> v, rev |-> r.rev + 1, epoch |-> r.epoch, member |-> r.member,
                 source |-> "none"]
         /\ [r EXCEPT !.value = v, !.rev = @ + 1, !.epoch = e, !.source = "none"]
              = [value |-> v, rev |-> r.rev + 1, epoch |-> e, member |-> r.member,
                 source |-> "none"]
         /\ [r EXCEPT !.value = v, !.rev = @ + 1]
              = [value |-> v, rev |-> r.rev + 1, epoch |-> r.epoch, member |-> r.member,
                 source |-> r.source]
<1> DEFINE x == [r EXCEPT !.value = v]
           y == [x EXCEPT !.rev = @ + 1]
           z == [y EXCEPT !.epoch = e]
           Fields(t, n, m, source) == /\ t.value = v /\ t.rev = r.rev + 1 /\ t.epoch = n
                                      /\ t.member = m /\ t.source = source
<1>1. /\ x \in Rows /\ x.value = v /\ x.rev = r.rev /\ x.epoch = r.epoch
      /\ x.member = r.member /\ x.source = r.source
  BY DEF Rows
<1> HIDE DEF x
<1>2. y \in Rows /\ Fields(y, r.epoch, r.member, r.source)
  BY <1>1 DEF Rows
<1> HIDE DEF y
<1>3. z \in Rows /\ Fields(z, e, r.member, r.source)
  BY <1>2 DEF Rows
<1> HIDE DEF z
<1>4. /\ [y EXCEPT !.source = "none"] \in Rows
      /\ Fields([y EXCEPT !.source = "none"], r.epoch, r.member, "none")
  BY <1>2 DEF Rows
<1>5. /\ [z EXCEPT !.source = "none"] \in Rows
      /\ Fields([z EXCEPT !.source = "none"], e, r.member, "none")
  BY <1>3 DEF Rows
<1>6. /\ [r EXCEPT !.value = v, !.rev = @ + 1, !.source = "none"] = [y EXCEPT !.source = "none"]
      /\ [r EXCEPT !.value = v, !.rev = @ + 1, !.epoch = e, !.source = "none"]
           = [z EXCEPT !.source = "none"]
      /\ [r EXCEPT !.value = v, !.rev = @ + 1] = y
  BY DEF x, y, z
<1>7. ASSUME NEW t \in Rows, NEW n, NEW m, NEW source, Fields(t, n, m, source)
      PROVE  t = [value |-> v, rev |-> r.rev + 1, epoch |-> n, member |-> m, source |-> source]
  BY <1>7 DEF Rows
<1> HIDE DEF Fields
<1>8. [y EXCEPT !.source = "none"]
        = [value |-> v, rev |-> r.rev + 1, epoch |-> r.epoch, member |-> r.member,
           source |-> "none"]
  BY <1>4, <1>7
<1>9. [z EXCEPT !.source = "none"]
        = [value |-> v, rev |-> r.rev + 1, epoch |-> e, member |-> r.member, source |-> "none"]
  BY <1>5, <1>7
<1>10. y = [value |-> v, rev |-> r.rev + 1, epoch |-> r.epoch, member |-> r.member,
            source |-> r.source]
  BY <1>2, <1>7
<1> QED BY <1>6, <1>8, <1>9, <1>10

\* What a person says.
LEMMA SaidRows ==
  ASSUME TypeOK, NEW u \in People, NEW v \in {"on", "off", "unset"},
         NEW source \in {"issue", "schedule"}
  PROVE  /\ Stamp(u) \in Nat
         /\ Said(u, v, source) \in [People -> Rows]
         /\ Said(u, v, source)[u] =
              [value |-> v, rev |-> choice[u].rev + 1, epoch |-> issue.epoch,
               member |-> Stamp(u), source |-> source]
         /\ \A w \in People \ {u} : Said(u, v, source)[w] = choice[w]
<1>1. Stamp(u) \in Nat
  BY DEF TypeOK, Stamp
<1> QED BY <1>1 DEF TypeOK, Said, Rows

\* A lifecycle boundary: a row that exists is unset in the new epoch.
LEMMA ResetRowsRows ==
  ASSUME NEW rows \in [People -> Rows], NEW e \in Nat
  PROVE  /\ ResetRows(rows, e) \in [People -> Rows]
         /\ \A u \in People : ResetRows(rows, e)[u] =
              IF rows[u].rev = 0 THEN rows[u]
              ELSE [value |-> "unset", rev |-> rows[u].rev + 1, epoch |-> e,
                    member |-> rows[u].member, source |-> "none"]
<1>1. \A u \in People : ResetRows(rows, e)[u] =
        IF rows[u].rev = 0 THEN rows[u]
        ELSE [value |-> "unset", rev |-> rows[u].rev + 1, epoch |-> e,
              member |-> rows[u].member, source |-> "none"]
  BY Rewritten DEF ResetRows
<1>2. ASSUME NEW u \in People PROVE ResetRows(rows, e)[u] \in Rows
  <2>1. rows[u] \in Rows /\ rows[u].rev + 1 \in Nat /\ rows[u].member \in Nat
    BY DEF Rows
  <2>2. [value |-> "unset", rev |-> rows[u].rev + 1, epoch |-> e, member |-> rows[u].member,
         source |-> "none"] \in Rows
    BY <2>1 DEF Rows
  <2> QED BY <1>1, <2>1, <2>2
<1> QED BY <1>1, <1>2 DEF ResetRows

\* What was inherited is taken back.
LEMMA RevokedRows ==
  ASSUME TypeOK, NEW users \in SUBSET People, NEW v \in {"off", "unset"}
  PROVE  /\ Revoked(users, v) \in [People -> Rows]
         /\ \A u \in People : Revoked(users, v)[u] =
              IF u \in users /\ Inherited(u)
              THEN [value |-> IF u = Owner THEN v ELSE "unset", rev |-> choice[u].rev + 1,
                    epoch |-> choice[u].epoch, member |-> choice[u].member, source |-> "none"]
              ELSE choice[u]
<1>1. \A u \in People : choice[u] \in Rows
  BY DEF TypeOK
<1>2. \A u \in People : Revoked(users, v)[u] =
        IF u \in users /\ Inherited(u)
        THEN [value |-> IF u = Owner THEN v ELSE "unset", rev |-> choice[u].rev + 1,
              epoch |-> choice[u].epoch, member |-> choice[u].member, source |-> "none"]
        ELSE choice[u]
  BY <1>1, Rewritten DEF Revoked
<1>3. ASSUME NEW u \in People PROVE Revoked(users, v)[u] \in Rows
  <2>1. /\ choice[u] \in Rows /\ choice[u].rev + 1 \in Nat
        /\ choice[u].epoch \in Nat /\ choice[u].member \in Nat
    BY <1>1 DEF Rows
  <2>2. \A w \in {"off", "unset"} :
          [value |-> w, rev |-> choice[u].rev + 1, epoch |-> choice[u].epoch,
           member |-> choice[u].member, source |-> "none"] \in Rows
    BY <2>1 DEF Rows
  <2> QED BY <1>2, <2>1, <2>2
<1> QED BY <1>2, <1>3 DEF Revoked

\* What is said of a schedule, and what a new definition leaves of it.
LEMMA GrantRows ==
  ASSUME TypeOK, NEW e \in Nat
  PROVE  /\ \A u \in People, v \in {"on", "off", "unset"} : Granted(u, v, e) \in Grants
         /\ Invalidated(e) \in [People -> Grants]
         /\ \A u \in People : Invalidated(e)[u] =
              IF grant[u].rev = 0 THEN grant[u]
              ELSE [value |-> IF u = Owner THEN grant[u].value ELSE "off",
                    rev |-> grant[u].rev + 1, epoch |-> e, member |-> grant[u].member]
<1>1. \A u \in People : grant[u] \in Grants /\ grant[u].value \in {"on", "off", "unset"}
                        /\ Stamp(u) \in Nat
  BY DEF TypeOK, Grants, Stamp
<1>2. \A u \in People, v \in {"on", "off", "unset"} : Granted(u, v, e) \in Grants
  BY <1>1 DEF Granted, Grants
<1>3. ASSUME NEW u \in People
      PROVE  /\ Invalidated(e)[u] =
                  IF grant[u].rev = 0 THEN grant[u]
                  ELSE [value |-> IF u = Owner THEN grant[u].value ELSE "off",
                        rev |-> grant[u].rev + 1, epoch |-> e, member |-> grant[u].member]
             /\ Invalidated(e)[u] \in Grants
  <2> DEFINE new(w) == [value |-> w, rev |-> grant[u].rev + 1, epoch |-> e,
                        member |-> grant[u].member]
  <2>1. /\ grant[u] \in Grants /\ grant[u].rev + 1 \in Nat /\ grant[u].member \in Nat
        /\ grant[u].value \in {"on", "off", "unset"}
    BY <1>1 DEF Grants
  <2>2. ASSUME NEW w \in {"on", "off", "unset"}
        PROVE  [grant[u] EXCEPT !.value = w, !.rev = @ + 1, !.epoch = e] = new(w)
    <3> DEFINE x == [grant[u] EXCEPT !.value = w]
               y == [x EXCEPT !.rev = @ + 1]
               z == [y EXCEPT !.epoch = e]
    <3>1. /\ x \in Grants /\ x.value = w /\ x.rev = grant[u].rev
          /\ x.member = grant[u].member
      BY <2>1 DEF Grants
    <3> HIDE DEF x
    <3>2. /\ y \in Grants /\ y.value = w /\ y.rev = grant[u].rev + 1
          /\ y.member = grant[u].member
      BY <3>1 DEF Grants
    <3> HIDE DEF y
    <3>3. /\ z \in Grants /\ z.value = w /\ z.rev = grant[u].rev + 1 /\ z.epoch = e
          /\ z.member = grant[u].member
      BY <3>2 DEF Grants
    <3> HIDE DEF z
    <3>4. z = new(w)
      BY <3>3 DEF Grants
    <3> QED BY <3>4 DEF x, y, z
  <2>3. \A w \in {"on", "off", "unset"} : new(w) \in Grants
    BY <2>1 DEF Grants
  <2> HIDE DEF new
  <2>4. Invalidated(e)[u] = IF grant[u].rev = 0 THEN grant[u]
                            ELSE new(IF u = Owner THEN grant[u].value ELSE "off")
    BY <2>1, <2>2 DEF Invalidated
  <2>5. Invalidated(e)[u] \in Grants
    BY <2>1, <2>3, <2>4
  <2> QED BY <2>4, <2>5 DEF new
<1> QED BY <1>2, <1>3 DEF Invalidated

\* A run that is released is well typed.
LEMMA RunTypes ==
  ASSUME TypeOK
  PROVE  ReleasedRun \in {NoRun, [st |-> "launched"]}
             \cup [st : {"assigned"}, shared : BOOLEAN, epoch : Nat, rev : Nat]
BY DEF TypeOK, ReleasedRun

\* What a decision read stays well typed when an edit of the workflow outdates it.
LEMMA OutdatedRecord ==
  ASSUME TypeOK, NEW k \in Handlers, handler[k].pc = "decide"
  PROVE  [handler[k] EXCEPT !.workflow = FALSE] \in Records
<1>1. handler[k] \in [pc : {"decide"}, who : People, from : Places, dec : Nat, epoch : Nat,
                      rev : Nat, member : Nat, shared : BOOLEAN, workflow : BOOLEAN]
  BY DEF TypeOK, Records, Idle, Absent
<1>2. [handler[k] EXCEPT !.workflow = FALSE]
        \in [pc : {"decide"}, who : People, from : Places, dec : Nat, epoch : Nat,
             rev : Nat, member : Nat, shared : BOOLEAN, workflow : BOOLEAN]
  BY <1>1
<1> QED BY <1>2 DEF Records

\* A request that ends is well typed, and so is one outdated by an edit.
LEMMA RequestTypes ==
  ASSUME TypeOK, NEW h \in Handlers
  PROVE  /\ Finish(h) => handler' \in [Handlers -> Records \cup {Idle, Absent}]
         /\ \A x \in Records : Start(h, x) => handler' \in [Handlers -> Records \cup {Idle, Absent}]
         /\ Outdated(h) => handler' \in [Handlers -> Records \cup {Idle, Absent}]
<1>1. \A k \in Handlers : handler[k].pc = "decide" =>
        [handler[k] EXCEPT !.workflow = FALSE] \in Records
  BY OutdatedRecord
<1> QED BY <1>1 DEF TypeOK, Finish, Start, Outdated

\* Sharing, joining, leaving.
LEMMA MembershipTypes ==
  ASSUME TypeOK
  PROVE  Share \/ AcceptInvitation \/ RemoveMember => TypeOK'
<1>1. \A u \in People : /\ choice[u] \in Rows
                        /\ [choice[u] EXCEPT !.value = "unset", !.rev = @ + 1] \in Rows
  <2>1. ASSUME NEW u \in People PROVE choice[u] \in Rows
    BY DEF TypeOK
  <2>2. ASSUME NEW r \in Rows PROVE [r EXCEPT !.value = "unset", !.rev = @ + 1] \in Rows
    <3>1. [r EXCEPT !.value = "unset"] \in Rows
      BY DEF Rows
    <3>2. \A x \in Rows : [x EXCEPT !.rev = @ + 1] \in Rows
      BY DEF Rows
    <3> QED BY <3>1, <3>2
  <2> QED BY <2>1, <2>2
<1>2. \A u \in People : /\ grant[u] \in Grants
                        /\ [grant[u] EXCEPT !.value = "off", !.rev = @ + 1] \in Grants
  <2>1. ASSUME NEW u \in People PROVE grant[u] \in Grants
    BY DEF TypeOK
  <2>2. ASSUME NEW r \in Grants PROVE [r EXCEPT !.value = "off", !.rev = @ + 1] \in Grants
    <3>1. [r EXCEPT !.value = "off"] \in Grants
      BY DEF Grants
    <3>2. \A x \in Grants : [x EXCEPT !.rev = @ + 1] \in Grants
      BY DEF Grants
    <3> QED BY <3>1, <3>2
  <2> QED BY <2>1, <2>2
<1>3. CASE Share
  BY <1>1, <1>2, <1>3, RunTypes DEF Share, Release, TypeOK
<1>4. CASE AcceptInvitation
  BY <1>4 DEF AcceptInvitation, TypeOK
<1>5. CASE RemoveMember
  <2>1. choice' \in [People -> Rows]
    BY <1>1, <1>5 DEF RemoveMember, TypeOK, People
  <2>2. grant' \in [People -> Grants]
    BY <1>2, <1>5 DEF RemoveMember, TypeOK, People
  <2> QED BY <1>5, <2>1, <2>2 DEF RemoveMember, TypeOK
<1> QED BY <1>3, <1>4, <1>5

\* Filing the issue.
LEMMA FilingTypes ==
  ASSUME TypeOK, NEW place \in Open, NEW v \in {"on", "off", "unset"}
  PROVE  OwnerCreates(place, v) \/ OthersCreate(place, v) \/ ScheduleCreates(place)
           => TypeOK'
<1>1. /\ \A u \in People : choice[u] \in Rows
      /\ \A u \in People : grant[u].value \in {"on", "off", "unset"}
      /\ issue.dec \in Nat /\ issue.epoch \in Nat
      /\ Owner \in People /\ Member \in People
  BY DEF TypeOK, Grants, People
<1>2. FiledAt(place) => issue' \in [place : Places \cup {"none"}, dec : Nat, epoch : Nat]
  BY DEF TypeOK, FiledAt, Open, Places
<1>3. ASSUME NEW u \in People, NEW w \in {"on", "off", "unset"},
             NEW source \in {"issue", "schedule"}
      PROVE  Said(u, w, source)[u] \in Rows
  <2>1. Said(u, w, source) \in [People -> Rows]
    BY SaidRows
  <2> QED BY <2>1
<1>4. \A u \in People : InheritedValue(u) \in {"on", "off", "unset"}
  BY <1>1 DEF InheritedValue, Future
<1>5. CASE OwnerCreates(place, v)
  BY <1>2, <1>5, SaidRows DEF OwnerCreates, TypeOK, People
<1>6. CASE OthersCreate(place, v)
  BY <1>1, <1>2, <1>3, <1>6 DEF OthersCreate, TypeOK
<1>7. CASE ScheduleCreates(place)
  BY <1>1, <1>2, <1>3, <1>4, <1>7 DEF ScheduleCreates, TypeOK
<1> QED BY <1>5, <1>6, <1>7

\* Choosing, on the issue and on the schedule.
LEMMA ChoosingTypes ==
  ASSUME TypeOK, NEW h \in Handlers, NEW u \in People, NEW v \in {"on", "off"}
  PROVE  (\/ ReadIssueChoice(h, u) \/ ReadScheduleChoice(h, u)
          \/ WriteIssueChoice(h, v) \/ WriteScheduleChoice(h, v)) => TypeOK'
<1> USE RequestTypes
<1>1. /\ Stamp(u) \in Nat /\ choice[u].rev \in Nat /\ grant[u].rev \in Nat
      /\ issue.epoch \in Nat /\ issue.dec \in Nat /\ schedule.epoch \in Nat
  BY DEF TypeOK, Rows, Grants, Stamp
<1>2. handler[h].pc \in {"choice", "grant"} => handler[h].who \in People
  BY DEF TypeOK, Records, Idle, Absent
<1>3. handler[h].pc = "grant" => handler[h].epoch \in Nat
  BY DEF TypeOK, Records, Idle, Absent
<1>4. CASE ReadIssueChoice(h, u)
  <2>1. [pc |-> "choice", who |-> u, rev |-> choice[u].rev, epoch |-> issue.epoch,
         dec |-> issue.dec, member |-> Stamp(u)] \in Records
    BY <1>1 DEF Records
  <2> QED BY <1>4, <2>1 DEF ReadIssueChoice, TypeOK
<1>5. CASE ReadScheduleChoice(h, u)
  <2>1. [pc |-> "grant", who |-> u, rev |-> grant[u].rev,
         epoch |-> schedule.epoch, member |-> Stamp(u)] \in Records
    BY <1>1 DEF Records
  <2> QED BY <1>5, <2>1 DEF ReadScheduleChoice, TypeOK
<1>6. CASE WriteIssueChoice(h, v)
  <2>1. handler[h].who \in People /\ Finish(h) /\ choice' = Said(handler[h].who, v, "issue")
    BY <1>2, <1>6 DEF WriteIssueChoice
  <2>2. choice' \in [People -> Rows]
    BY <2>1, SaidRows
  <2> QED BY <1>6, <2>1, <2>2, RunTypes DEF WriteIssueChoice, TypeOK, Release
<1>7. CASE WriteScheduleChoice(h, v)
  <2>1. /\ handler[h].who \in People /\ handler[h].epoch \in Nat /\ Finish(h)
        /\ grant' = [grant EXCEPT ![handler[h].who] = Granted(handler[h].who, v, handler[h].epoch)]
        /\ choice' \in {choice, Revoked({handler[h].who}, "off")}
        /\ run' \in {run, ReleasedRun}
    BY <1>2, <1>3, <1>7 DEF WriteScheduleChoice, RevokeReleases
  <2>2. Revoked({handler[h].who}, "off") \in [People -> Rows]
    BY <2>1, RevokedRows
  <2>3. grant' \in [People -> Grants]
    BY <2>1, GrantRows DEF TypeOK
  <2> QED BY <1>7, <2>1, <2>2, <2>3, RunTypes DEF WriteScheduleChoice, TypeOK
<1> QED BY <1>4, <1>5, <1>6, <1>7

\* The schedule appears, means something else, or goes.
LEMMA ScheduleTypes ==
  ASSUME TypeOK, NEW u \in People, NEW v \in {"on", "off", "unset"}
  PROVE  CreateSchedule(u, v) \/ EditSchedule \/ DeleteSchedule => TypeOK'
<1>1. schedule.epoch \in Nat /\ \A w \in People : grant[w] \in Grants
  BY DEF TypeOK
<1>2. \A w \in People, x \in {"on", "off", "unset"} : Granted(w, x, 0) \in Grants
  BY GrantRows
<1>3. Revoked(People, "unset") \in [People -> Rows]
  BY RevokedRows
<1>4. Invalidated(schedule.epoch + 1) \in [People -> Grants]
  <2>1. \A e \in Nat : Invalidated(e) \in [People -> Grants]
    BY GrantRows
  <2> QED BY <1>1, <2>1
<1>5. CASE CreateSchedule(u, v)
  <2>1. grant' \in [People -> Grants]
    BY <1>1, <1>2, <1>5 DEF CreateSchedule
  <2> QED BY <1>5, <2>1 DEF CreateSchedule, TypeOK
<1>6. CASE EditSchedule
  <2>1. run' \in {run, ReleasedRun}
    BY <1>6 DEF EditSchedule, RevokeReleases
  <2> QED BY <1>3, <1>4, <1>6, <2>1, RunTypes DEF EditSchedule, TypeOK
<1>7. CASE DeleteSchedule
  <2>1. run' \in {run, ReleasedRun}
    BY <1>7 DEF DeleteSchedule, RevokeReleases
  <2> QED BY <1>3, <1>7, <2>1, RunTypes DEF DeleteSchedule, TypeOK
<1> QED BY <1>5, <1>6, <1>7

\* What a decision read.
LEMMA DecisionRecord ==
  ASSUME TypeOK, NEW h \in Handlers, handler[h].pc = "decide"
  PROVE  /\ handler[h].who \in People /\ handler[h].from \in Places
         /\ handler[h].dec \in Nat /\ handler[h].epoch \in Nat /\ handler[h].rev \in Nat
         /\ handler[h].member \in Nat /\ handler[h].shared \in BOOLEAN
BY DEF TypeOK, Records, Idle, Absent

\* Decisions.
LEMMA DecisionTypes ==
  ASSUME TypeOK, NEW h \in Handlers, NEW u \in People, NEW to \in Places,
         NEW v \in {"on", "off", "keep"}, NEW other \in BOOLEAN
  PROVE  (\/ ReadDecision(h, u) \/ Transition(h, to, v)
          \/ TransitionUnshared(h, to) \/ ForceState(h, to, other)) => TypeOK'
<1> USE RequestTypes
<1>1. /\ Stamp(u) \in Nat /\ choice[u].rev \in Nat /\ issue.epoch \in Nat /\ issue.dec \in Nat
      /\ issue.place \in Places \cup {"none"} /\ shared \in BOOLEAN
      /\ choice \in [People -> Rows]
  BY DEF TypeOK, Rows, Stamp
<1>2. ResetRows(choice, issue.epoch + 1) \in [People -> Rows]
  BY <1>1, ResetRowsRows
<1>3. \A e \in {issue.epoch, issue.epoch + 1} :
        [place |-> to, dec |-> issue.dec + 1, epoch |-> e]
          \in [place : Places \cup {"none"}, dec : Nat, epoch : Nat]
  BY <1>1
<1>4. Moves(handler[h], to) => issue' \in [place : Places \cup {"none"}, dec : Nat, epoch : Nat]
  BY <1>3 DEF Moves
<1>5. CASE ReadDecision(h, u)
  <2>1. [pc |-> "decide", who |-> u, from |-> issue.place, dec |-> issue.dec,
         epoch |-> issue.epoch, rev |-> choice[u].rev,
         member |-> Stamp(u), shared |-> shared, workflow |-> TRUE] \in Records
    BY <1>1, <1>5 DEF Records, ReadDecision
  <2> QED BY <1>5, <2>1 DEF ReadDecision, TypeOK
<1>6. CASE Transition(h, to, v)
  <2>1. handler[h].who \in People
    BY <1>6, DecisionRecord DEF Transition
  <2>2. v # "keep" => Said(handler[h].who, v, "issue") \in [People -> Rows]
    BY <2>1, SaidRows
  <2>3. choice' \in [People -> Rows]
    BY <1>1, <1>2, <1>6, <2>2 DEF Transition
  <2> QED BY <1>4, <1>6, <2>3, RunTypes DEF Transition, TypeOK, Release
<1>7. CASE TransitionUnshared(h, to)
  BY <1>4, <1>7 DEF TransitionUnshared, TypeOK
<1>8. CASE ForceState(h, to, other)
  <2>1. choice' \in [People -> Rows] /\ run' \in {run, ReleasedRun}
    BY <1>1, <1>2, <1>8 DEF ForceState, Release
  <2>2. issue' \in [place : Places \cup {"none"}, dec : Nat, epoch : Nat]
    BY <1>3, <1>8 DEF ForceState
  <2> QED BY <1>8, <2>1, <2>2, RunTypes DEF ForceState, TypeOK
<1> QED BY <1>5, <1>6, <1>7, <1>8

\* Edits of the workflow.
LEMMA WorkflowTypes ==
  ASSUME TypeOK, NEW h \in Handlers, NEW inIt \in BOOLEAN, NEW start \in BOOLEAN
  PROVE  ReadWorkflow(h, inIt) \/ WriteWorkflow(h, inIt, start) => TypeOK'
<1> USE RequestTypes
<1>1. /\ issue.epoch \in Nat /\ issue.dec \in Nat /\ schedule.epoch \in Nat
      /\ issue.place \in Places \cup {"none"} /\ shared \in BOOLEAN
      /\ choice \in [People -> Rows]
  BY DEF TypeOK
<1>2. CASE ReadWorkflow(h, inIt)
  <2>1. [pc |-> "workflow", inIt |-> inIt, listed |-> inIt /\ shared,
         dec |-> issue.dec, place |-> issue.place] \in Records
    BY <1>1 DEF Records
  <2> QED BY <1>2, <2>1 DEF ReadWorkflow, TypeOK
<1>3. CASE WriteWorkflow(h, inIt, start)
  <2> DEFINE taken == IF start THEN Revoked(People, "unset") ELSE choice
  <2>1. taken \in [People -> Rows]
    BY <1>1, RevokedRows
  <2>2. ResetRows(taken, issue.epoch + 1) \in [People -> Rows]
    <3> HIDE DEF taken
    <3>1. issue.epoch + 1 \in Nat
      BY <1>1
    <3> QED BY <2>1, <3>1, ResetRowsRows
  <2>3. choice' \in [People -> Rows]
    BY <1>3, <2>1, <2>2 DEF WriteWorkflow
  <2>4. schedule' \in [st : {"none", "there", "gone"}, epoch : Nat]
    BY <1>3 DEF WriteWorkflow, TypeOK
  <2>5. Invalidated(schedule.epoch + 1) \in [People -> Grants]
    BY <1>1, GrantRows
  <2>6. grant' \in [People -> Grants]
    BY <1>3, <2>5 DEF WriteWorkflow, TypeOK
  <2>7. issue' \in [place : Places \cup {"none"}, dec : Nat, epoch : Nat]
    BY <1>3 DEF WriteWorkflow, TypeOK, Places
  <2>8. run' \in {run, ReleasedRun} /\ Outdated(h) /\ UNCHANGED <<shared, member>>
    BY <1>3 DEF WriteWorkflow
  <2> HIDE DEF taken
  <2> QED BY <2>3, <2>4, <2>6, <2>7, <2>8, RunTypes DEF TypeOK
<1> QED BY <1>2, <1>3

\* Reopening an issue keeps the types.
LEMMA ReopenTypes ==
  ASSUME TypeOK, NEW place \in Open, ReopenState(place)
  PROVE  TypeOK'
<1>1. \A k \in Handlers : handler[k].pc = "decide" =>
        [handler[k] EXCEPT !.workflow = FALSE] \in Records
  BY OutdatedRecord
<1>2. handler' \in [Handlers -> Records \cup {Idle, Absent}]
  BY <1>1 DEF ReopenState, TypeOK
<1> QED BY <1>2 DEF ReopenState, TypeOK, Open, Places

\* The owner's agent, and a request that is given up.
LEMMA RunStepTypes ==
  ASSUME TypeOK, ClaimRun \/ LaunchRun \/ EndRun \/ \E h \in Handlers : GiveUp(h)
  PROVE  TypeOK'
<1>1. issue.epoch \in Nat /\ choice[Owner].rev \in Nat /\ shared \in BOOLEAN
  BY DEF TypeOK, Rows, People
<1>2. CASE ClaimRun
  BY <1>1, <1>2 DEF ClaimRun, TypeOK
<1>3. CASE LaunchRun
  BY <1>3 DEF LaunchRun, TypeOK
<1>4. CASE EndRun
  BY <1>4 DEF EndRun, TypeOK
<1>5. CASE \E h \in Handlers : GiveUp(h)
  BY <1>5, RequestTypes DEF GiveUp, TypeOK
<1> QED BY <1>2, <1>3, <1>4, <1>5

\* The types hold at first.
LEMMA InitType == Init => TypeOK
<1> SUFFICES ASSUME Init PROVE TypeOK
  OBVIOUS
<1>1. member \in [in : BOOLEAN, rev : Nat]
  BY BoundsAssumption DEF Init
<1>2. NoChoice \in Rows /\ NoGrant \in Grants
  BY DEF NoChoice, NoGrant, Rows, Grants
<1> QED BY <1>1, <1>2 DEF Init, TypeOK

\* Every step keeps the types.
LEMMA TypeStep == TypeOK /\ [Next]_vars => TypeOK'
<1> SUFFICES ASSUME TypeOK, [Next]_vars PROVE TypeOK'
  OBVIOUS
<1>1. CASE Share \/ AcceptInvitation \/ RemoveMember
  BY <1>1, MembershipTypes
<1>2. ASSUME NEW place \in Open, NEW v \in {"on", "off", "unset"},
             OwnerCreates(place, v) \/ OthersCreate(place, v) \/ ScheduleCreates(place)
      PROVE  TypeOK'
  BY <1>2, FilingTypes
<1>3. ASSUME NEW place \in Open, ReopenState(place)
      PROVE  TypeOK'
  BY <1>3, ReopenTypes
<1>4. ASSUME NEW u \in People, NEW v \in {"on", "off", "unset"},
             CreateSchedule(u, v) \/ EditSchedule \/ DeleteSchedule
      PROVE  TypeOK'
  BY <1>4, ScheduleTypes
<1>5. CASE ClaimRun \/ LaunchRun \/ EndRun \/ \E h \in Handlers : GiveUp(h)
  BY <1>5, RunStepTypes
<1>6. ASSUME NEW h \in Handlers, NEW u \in People, NEW v \in {"on", "off"},
             \/ ReadIssueChoice(h, u) \/ ReadScheduleChoice(h, u)
             \/ WriteIssueChoice(h, v) \/ WriteScheduleChoice(h, v)
      PROVE  TypeOK'
  BY <1>6, ChoosingTypes
<1>7. ASSUME NEW h \in Handlers, NEW u \in People, NEW to \in Places,
             NEW v \in {"on", "off", "keep"}, NEW other \in BOOLEAN,
             \/ ReadDecision(h, u) \/ Transition(h, to, v) \/ TransitionUnshared(h, to)
             \/ ForceState(h, to, other)
      PROVE  TypeOK'
  BY <1>7, DecisionTypes
<1>8. ASSUME NEW h \in Handlers, NEW inIt \in BOOLEAN, NEW start \in BOOLEAN,
             ReadWorkflow(h, inIt) \/ WriteWorkflow(h, inIt, start)
      PROVE  TypeOK'
  BY <1>8, WorkflowTypes
<1>9. CASE UNCHANGED vars
  BY <1>9 DEF vars, TypeOK
<1>10. \E u \in People : TRUE
  BY DEF People
<1>11. "active" \in Places /\ "active" \in Open
  BY DEF Places, Open
<1> QED BY <1>1, <1>2, <1>3, <1>4, <1>5, <1>6, <1>7, <1>8, <1>9, <1>10, <1>11 DEF Next

\* The tables hold what they may hold, for every number of requests in flight.
THEOREM TypeCorrect == Spec => []TypeOK
<1>1. Init => TypeOK
  BY InitType
<1>2. TypeOK /\ [Next]_vars => TypeOK'
  BY TypeStep
<1> QED BY <1>1, <1>2, PTL DEF Spec

-----------------------------------------------------------------------------
(* The invariant is inductive.                                              *)

\* The numbers and words the proofs compare.
LEMMA Fields ==
  ASSUME TypeOK
  PROVE  /\ \A u \in People : /\ choice[u].rev \in Nat /\ choice[u].epoch \in Nat
                              /\ choice[u].member \in Nat /\ grant[u].rev \in Nat
                              /\ grant[u].epoch \in Nat /\ grant[u].member \in Nat
                              /\ Stamp(u) \in Nat
         /\ issue.epoch \in Nat /\ issue.dec \in Nat /\ schedule.epoch \in Nat
         /\ member.rev \in Nat /\ shared \in BOOLEAN /\ member.in \in BOOLEAN
         /\ run.st = "assigned" =>
              run.epoch \in Nat /\ run.rev \in Nat /\ run.shared \in BOOLEAN
<1>1. run.st = "assigned" => run \in [st : {"assigned"}, shared : BOOLEAN, epoch : Nat, rev : Nat]
  BY DEF TypeOK, NoRun
<1> QED BY <1>1 DEF TypeOK, Rows, Grants, Stamp

\* Sharing is never undone, an issue that was filed stays so, and requests
\* only end, start, or see the workflow change: what they read stays true.
LEMMA SoundRequests ==
  ASSUME TypeOK, RequestsAreSound, shared => shared',
         issue.place # "none" => issue.place' # "none",
         \A h \in Handlers : \/ handler'[h] = handler[h]
                             \/ handler'[h] = Idle
                             \/ /\ handler[h].pc = "decide"
                                /\ handler'[h] = [handler[h] EXCEPT !.workflow = FALSE]
  PROVE  RequestsAreSound'
<1> SUFFICES ASSUME NEW h \in Handlers
             PROVE  /\ handler'[h].pc \in {"choice", "grant"} => shared'
                    /\ handler'[h].pc \in {"choice", "decide"} => issue.place' # "none"
                    /\ handler'[h].pc = "decide" => (handler'[h].shared => shared')
                    /\ handler'[h].pc = "workflow" => (handler'[h].listed => shared')
  BY DEF RequestsAreSound
<1>1. CASE handler'[h] = handler[h]
  BY <1>1 DEF RequestsAreSound
<1>2. CASE handler'[h] = Idle
  BY <1>2 DEF Idle
<1>3. CASE /\ handler[h].pc = "decide"
           /\ handler'[h] = [handler[h] EXCEPT !.workflow = FALSE]
  <2>1. handler[h] \in [pc : {"decide"}, who : People, from : Places, dec : Nat, epoch : Nat,
                        rev : Nat, member : Nat, shared : BOOLEAN, workflow : BOOLEAN]
    BY <1>3 DEF TypeOK, Records, Idle, Absent
  <2>2. handler'[h].pc = "decide" /\ handler'[h].shared = handler[h].shared
    BY <1>3, <2>1
  <2> QED BY <1>3, <2>2 DEF RequestsAreSound
<1> QED BY <1>1, <1>2, <1>3

\* How a batch leaves the requests.
LEMMA Requests ==
  ASSUME TypeOK, NEW h \in Handlers
  PROVE  /\ Finish(h) => \A k \in Handlers : handler'[k] = handler[k] \/ handler'[k] = Idle
         /\ Outdated(h) => \A k \in Handlers :
              \/ handler'[k] = handler[k]
              \/ handler'[k] = Idle
              \/ /\ handler[k].pc = "decide"
                 /\ handler'[k] = [handler[k] EXCEPT !.workflow = FALSE]
         /\ \A x : Start(h, x) => /\ handler'[h] = x
                                  /\ \A k \in Handlers \ {h} : handler'[k] = handler[k]
BY DEF TypeOK, Finish, Outdated, Start

\* The invariant holds at first.
LEMMA InitInv == Init => PermissionInv
<1> SUFFICES ASSUME Init PROVE PermissionInv
  OBVIOUS
<1>1. /\ \A u \in People : /\ choice[u] = NoChoice /\ grant[u] = NoGrant
      /\ issue.epoch = 0 /\ issue.place = "none" /\ schedule.epoch = 0 /\ run.st = "none"
      /\ member.rev \in Nat /\ (~shared => member.rev = 0)
      /\ member.in = (member.rev % 2 = 1)
  BY BoundsAssumption DEF Init, NoRun
<1>2. ~shared => ~member.in
  <2>1. 0 % 2 # 1
    OBVIOUS
  <2> QED BY <1>1, <2>1
<1>3. ChoicesAreOld /\ GrantsAreCurrent
  BY <1>1 DEF ChoicesAreOld, GrantsAreCurrent, NoChoice, NoGrant, Stamp
<1>4. NothingSaid
  BY <1>1, <1>2 DEF NothingSaid, NoChoice, NoGrant, People
<1>5. RequestsAreSound
  BY DEF Init, RequestsAreSound, Idle, Absent
<1>6. DoneIsFresh
  BY <1>1 DEF DoneIsFresh
<1>7. InheritedIsBacked
  BY <1>1 DEF InheritedIsBacked, Inherited, NoChoice
<1> QED BY <1>3, <1>4, <1>5, <1>6, <1>7 DEF PermissionInv

\* Sharing a project keeps the invariant.
LEMMA ShareInv ==
  ASSUME TypeOK, PermissionInv, Share
  PROVE  PermissionInv'
<1>1. /\ \A u \in People : /\ choice[u].rev = 0 /\ grant[u].rev = 0
                           /\ choice'[u] = choice[u] /\ grant'[u] = grant[u]
      /\ ~member.in /\ ~shared /\ shared'
  <2>1. \A u \in People : choice[u].rev = 0 /\ grant[u].rev = 0
    BY DEF Share, PermissionInv, NothingSaid
  <2> QED BY <2>1 DEF Share, PermissionInv, NothingSaid
<1>2. UNCHANGED <<member, issue, schedule, handler>> /\ run' = ReleasedRun
  BY DEF Share, Release
<1>3. ChoicesAreOld' /\ GrantsAreCurrent'
  BY <1>1, <1>2 DEF ChoicesAreOld, GrantsAreCurrent, PermissionInv, Stamp
<1>4. NothingSaid'
  BY <1>1, <1>2 DEF NothingSaid, PermissionInv, ReleasedRun, People, NoRun
<1>5. RequestsAreSound'
  BY <1>1, <1>2, SoundRequests DEF PermissionInv
<1>6. DoneIsFresh'
  BY <1>1, <1>2 DEF DoneIsFresh, PermissionInv, ReleasedRun, NoRun, ChoicesAreOld, Effective
<1>7. InheritedIsBacked'
  BY <1>1, <1>2 DEF InheritedIsBacked, PermissionInv, ChoicesAreOld, Inherited
<1> QED BY <1>3, <1>4, <1>5, <1>6, <1>7 DEF PermissionInv

\* Joining keeps the invariant.
LEMMA AcceptInv ==
  ASSUME TypeOK, PermissionInv, AcceptInvitation
  PROVE  PermissionInv'
<1>1. /\ shared /\ ~member.in /\ member'.in /\ member'.rev = member.rev + 1
      /\ UNCHANGED <<shared, issue, choice, schedule, grant, run, handler>>
  BY DEF AcceptInvitation, TypeOK
<1>2. \A u \in People : Stamp(u)' = IF u = Owner THEN Stamp(u) ELSE Stamp(u) + 1
  BY <1>1 DEF Stamp
<1>3. ChoicesAreOld' /\ GrantsAreCurrent'
  BY <1>1, <1>2, Fields DEF ChoicesAreOld, GrantsAreCurrent, PermissionInv
<1>4. NothingSaid' /\ RequestsAreSound'
  BY <1>1 DEF NothingSaid, RequestsAreSound, PermissionInv
<1>5. \A u \in People : Effective(u)' # "unset" => u = Owner /\ Effective(u)' = Effective(u)
  BY <1>1, <1>2, Fields DEF Effective, ChoicesAreOld, PermissionInv, People
<1>6. Future(Owner)' = Future(Owner)
  BY <1>1, <1>2 DEF Future, People, ScheduleThere
<1>7. DoneIsFresh' /\ InheritedIsBacked'
  BY <1>1, <1>5, <1>6 DEF DoneIsFresh, InheritedIsBacked, PermissionInv, Inherited
<1> QED BY <1>3, <1>4, <1>7 DEF PermissionInv

\* Removing a member, or leaving, keeps the invariant.
LEMMA RemoveInv ==
  ASSUME TypeOK, PermissionInv, RemoveMember
  PROVE  PermissionInv'
<1>1. /\ shared /\ member.in /\ ~member'.in /\ member'.rev = member.rev + 1
      /\ UNCHANGED <<shared, issue, schedule, run, handler>>
      /\ choice'[Owner] = choice[Owner] /\ grant'[Owner] = grant[Owner]
  BY PeopleAssumption DEF RemoveMember, TypeOK, People, PermissionInv, NothingSaid
<1>2. /\ choice'[Member].value = "unset"
      /\ choice'[Member].epoch = choice[Member].epoch
      /\ choice'[Member].member = choice[Member].member
      /\ choice'[Member].rev = 0 => choice[Member].rev = 0 /\ choice'[Member] = choice[Member]
      /\ choice[Member].rev = 0 => choice'[Member].rev = 0
  <2>1. choice[Member] \in Rows /\ choice \in [People -> Rows] /\ Member \in People
    BY DEF TypeOK, People
  <2>2. CASE choice[Member].rev = 0
    BY <2>2 DEF RemoveMember, PermissionInv, ChoicesAreOld, People
  <2>3. CASE choice[Member].rev # 0
    <3>1. choice'[Member] = [choice[Member] EXCEPT !.value = "unset", !.rev = @ + 1]
      BY <2>1, <2>3 DEF RemoveMember
    <3>2. choice'[Member] = [value |-> "unset", rev |-> choice[Member].rev + 1,
                             epoch |-> choice[Member].epoch, member |-> choice[Member].member,
                             source |-> choice[Member].source]
      BY <2>1, <3>1, Rewritten
    <3> QED BY <2>1, <2>3, <3>2 DEF Rows
  <2> QED BY <2>2, <2>3
<1>3. /\ grant'[Member].epoch = grant[Member].epoch
      /\ grant'[Member].member = grant[Member].member
      /\ grant'[Member].rev = 0 => grant[Member].rev = 0 /\ grant'[Member] = grant[Member]
      /\ grant[Member].rev = 0 => grant'[Member].rev = 0
      /\ grant[Member].rev # 0 => grant'[Member].value = "off"
  <2>1. grant[Member] \in Grants /\ grant \in [People -> Grants] /\ Member \in People
    BY DEF TypeOK, People
  <2>2. CASE grant[Member].rev = 0
    BY <2>2 DEF RemoveMember
  <2>3. CASE grant[Member].rev # 0
    <3>1. grant' = [grant EXCEPT ![Member].value = "off", ![Member].rev = @ + 1]
      BY <2>3 DEF RemoveMember
    <3> QED BY <2>1, <2>3, <3>1 DEF Grants
  <2> QED BY <2>2, <2>3
<1>4. \A u \in People : Stamp(u)' = IF u = Owner THEN Stamp(u) ELSE Stamp(u) + 1
  BY <1>1 DEF Stamp
<1>5. ChoicesAreOld'
  BY <1>1, <1>2, <1>4, Fields DEF ChoicesAreOld, PermissionInv, People
<1>6. GrantsAreCurrent'
  BY <1>1, <1>3, <1>4, Fields DEF GrantsAreCurrent, PermissionInv, People
<1>7. NothingSaid'
  <2>1. grant'[Member].member < member'.rev
    BY <1>1, <1>3, Fields, PeopleAssumption
       DEF PermissionInv, GrantsAreCurrent, Stamp, People
  <2> QED BY <1>1, <1>2, <1>3, <2>1 DEF NothingSaid, PermissionInv, People
<1>8. RequestsAreSound'
  BY <1>1 DEF RequestsAreSound, PermissionInv
<1>9. Effective(Owner)' = Effective(Owner) /\ Effective(Member)' = "unset"
  BY <1>1, <1>2, <1>4 DEF Effective, People
<1>10. Future(Owner)' = Future(Owner)
  BY <1>1, <1>4 DEF Future, People, ScheduleThere
<1>11. DoneIsFresh' /\ InheritedIsBacked'
  BY <1>1, <1>9, <1>10 DEF DoneIsFresh, InheritedIsBacked, PermissionInv, Inherited, People
<1> QED BY <1>5, <1>6, <1>7, <1>8, <1>11 DEF PermissionInv

\* Filing: every row of the issue is the one it had, which says nothing, or
\* is written in this epoch and under the current membership.
LEMMA FilingInv ==
  ASSUME TypeOK, PermissionInv, NEW place \in Open, issue.place = "none", FiledAt(place),
         UNCHANGED <<shared, member, schedule, grant, run, handler>>,
         \A u \in People :
            \/ choice'[u] = choice[u]
            \/ /\ shared /\ choice'[u].rev # 0
               /\ choice'[u].epoch = issue.epoch /\ choice'[u].member = Stamp(u)
               /\ u = Member => choice'[u].value = "unset" \/ member.in
               /\ choice'[u].source = "schedule" /\ choice'[u].value = "on" => Future(u) = "on"
  PROVE  PermissionInv'
<1>1. /\ issue'.place = place /\ issue'.epoch = issue.epoch
      /\ place # "none" /\ place # "done"
      /\ \A u \in People : Stamp(u)' = Stamp(u) /\ Future(u)' = Future(u)
  BY DEF FiledAt, TypeOK, Stamp, Open, Future, ScheduleThere
<1>2. ChoicesAreOld' /\ GrantsAreCurrent'
  BY <1>1, Fields DEF ChoicesAreOld, GrantsAreCurrent, PermissionInv
<1>3. NothingSaid'
  BY <1>1 DEF NothingSaid, PermissionInv, People
<1>4. RequestsAreSound' /\ DoneIsFresh'
  BY <1>1 DEF RequestsAreSound, DoneIsFresh, PermissionInv
<1>5. InheritedIsBacked'
  <2> SUFFICES ASSUME NEW u \in People, Inherited(u)'
               PROVE  Future(u) = "on"
    BY <1>1 DEF InheritedIsBacked
  <2>1. choice'[u] # choice[u]
    BY DEF PermissionInv, NothingSaid, ChoicesAreOld, Inherited
  <2> QED BY <2>1 DEF Inherited
<1> QED BY <1>2, <1>3, <1>4, <1>5 DEF PermissionInv

\* Filing an issue keeps the invariant.
LEMMA FilingStep ==
  ASSUME TypeOK, PermissionInv, NEW place \in Open, NEW v \in {"on", "off", "unset"},
         OwnerCreates(place, v) \/ OthersCreate(place, v) \/ ScheduleCreates(place)
  PROVE  PermissionInv'
<1>1. \A u \in People : /\ choice[u].rev + 1 # 0
                        /\ Future(u) \in {"on", "off", "unset"}
  BY Fields DEF PermissionInv, ChoicesAreOld, Future, TypeOK, Grants
<1>2. ASSUME NEW u \in People, NEW w \in {"on", "off", "unset"},
             NEW source \in {"issue", "schedule"}
      PROVE  /\ Said(u, w, source)[u].rev # 0 /\ Said(u, w, source)[u].value = w
             /\ Said(u, w, source)[u].epoch = issue.epoch
             /\ Said(u, w, source)[u].member = Stamp(u)
             /\ Said(u, w, source)[u].source = source
             /\ \A x \in People \ {u} : Said(u, w, source)[x] = choice[x]
  <2>1. /\ Said(u, w, source)[u] =
              [value |-> w, rev |-> choice[u].rev + 1, epoch |-> issue.epoch,
               member |-> Stamp(u), source |-> source]
        /\ \A x \in People \ {u} : Said(u, w, source)[x] = choice[x]
    BY DEF Said, TypeOK
  <2>2. choice[u].rev + 1 # 0
    BY <1>1
  <2> QED BY <2>1, <2>2
<1>3. CASE OwnerCreates(place, v)
  <2>1. \A u \in People :
          \/ choice'[u] = choice[u]
          \/ /\ shared /\ choice'[u].rev # 0
             /\ choice'[u].epoch = issue.epoch /\ choice'[u].member = Stamp(u)
             /\ u = Owner /\ choice'[u].source = "issue"
    BY <1>2, <1>3 DEF OwnerCreates, People
  <2> QED BY <1>3, <2>1, FilingInv, PeopleAssumption DEF OwnerCreates
<1>4. CASE OthersCreate(place, v)
  <2>1. \A u \in People :
          \/ choice'[u] = choice[u]
          \/ /\ shared /\ choice'[u].rev # 0
             /\ choice'[u].epoch = issue.epoch /\ choice'[u].member = Stamp(u)
             /\ u = Member => choice'[u].value = "unset" \/ member.in
             /\ choice'[u].source = "issue"
    BY <1>2, <1>4, PeopleAssumption DEF OthersCreate
  <2> QED BY <1>4, <2>1, FilingInv DEF OthersCreate
<1>5. CASE ScheduleCreates(place)
  <2>1. ASSUME NEW u \in People
        PROVE  /\ InheritedValue(u) \in {"on", "off", "unset"}
               /\ InheritedValue(u) = "on" => Future(u) = "on"
               /\ u = Member /\ InheritedValue(u) # "unset" => member.in
    BY <1>1, PeopleAssumption DEF InheritedValue
  <2>2. ASSUME NEW u \in People
        PROVE  \/ choice'[u] = choice[u]
               \/ /\ shared /\ choice'[u].rev # 0
                  /\ choice'[u].epoch = issue.epoch /\ choice'[u].member = Stamp(u)
                  /\ u = Member => member.in
                  /\ choice'[u].value = "on" => Future(u) = "on"
    BY <1>2, <1>5, <2>1 DEF ScheduleCreates
  <2> QED BY <1>5, <2>2, FilingInv DEF ScheduleCreates
<1> QED BY <1>3, <1>4, <1>5

\* A request that starts.
LEMMA ReadInv ==
  ASSUME TypeOK, PermissionInv, NEW h \in Handlers, NEW u \in People, NEW inIt \in BOOLEAN,
         \/ ReadIssueChoice(h, u) \/ ReadScheduleChoice(h, u)
         \/ ReadDecision(h, u) \/ ReadWorkflow(h, inIt)
  PROVE  PermissionInv'
<1>1. UNCHANGED <<shared, member, issue, choice, schedule, grant, run>>
  BY DEF ReadIssueChoice, ReadScheduleChoice, ReadDecision, ReadWorkflow
<1>2. RequestsAreSound'
  <2>1. \A k \in Handlers \ {h} : handler'[k] = handler[k]
    BY Requests DEF ReadIssueChoice, ReadScheduleChoice, ReadDecision, ReadWorkflow
  <2>2. /\ handler'[h].pc \in {"choice", "grant"} => shared
        /\ handler'[h].pc \in {"choice", "decide"} => issue.place # "none"
        /\ handler'[h].pc = "decide" => (handler'[h].shared => shared)
        /\ handler'[h].pc = "workflow" => (handler'[h].listed => shared)
    <3>1. CASE ReadIssueChoice(h, u)
      BY <3>1, Requests DEF ReadIssueChoice, Open
    <3>2. CASE ReadScheduleChoice(h, u)
      BY <3>2, Requests DEF ReadScheduleChoice
    <3>3. CASE ReadDecision(h, u)
      BY <3>3, Requests DEF ReadDecision
    <3>4. CASE ReadWorkflow(h, inIt)
      BY <3>4 DEF ReadWorkflow, Start, TypeOK
    <3> QED BY <3>1, <3>2, <3>3, <3>4
  <2> QED BY <1>1, <2>1, <2>2 DEF RequestsAreSound, PermissionInv
<1> QED BY <1>1, <1>2 DEF PermissionInv, ChoicesAreOld, GrantsAreCurrent, NothingSaid,
           DoneIsFresh, InheritedIsBacked, Stamp, Effective, Future, Inherited, ScheduleThere

\* Choosing on the issue: the one who chooses has the word, and an owner's
\* choice releases.
LEMMA ChooseInv ==
  ASSUME TypeOK, PermissionInv, NEW h \in Handlers, NEW v \in {"on", "off"},
         WriteIssueChoice(h, v)
  PROVE  PermissionInv'
<1> DEFINE who == handler[h].who
<1>1. /\ who \in People /\ shared /\ issue.place # "none" /\ issue.place # "done"
      /\ Belongs(who) /\ Finish(h)
      /\ choice' = Said(who, v, "issue") /\ run' \in {run, ReleasedRun}
      /\ UNCHANGED <<shared, member, issue, schedule, grant>>
  BY DEF WriteIssueChoice, StillMember, PermissionInv, RequestsAreSound, TypeOK, Records, Idle,
         Absent, Release
<1> HIDE DEF who
<1>2. /\ choice'[who].value = v /\ choice'[who].rev # 0 /\ choice'[who].epoch = issue.epoch
      /\ choice'[who].member = Stamp(who) /\ choice'[who].source = "issue"
      /\ \A w \in People \ {who} : choice'[w] = choice[w]
  <2>1. /\ Said(who, v, "issue")[who] =
             [value |-> v, rev |-> choice[who].rev + 1, epoch |-> issue.epoch,
              member |-> Stamp(who), source |-> "issue"]
        /\ \A w \in People \ {who} : Said(who, v, "issue")[w] = choice[w]
    BY <1>1 DEF Said, TypeOK
  <2>2. choice[who].rev + 1 # 0
    BY <1>1, Fields
  <2> QED BY <1>1, <2>1, <2>2
<1>3. \A u \in People : Stamp(u)' = Stamp(u) /\ Future(u)' = Future(u)
  BY <1>1 DEF Stamp, Future, ScheduleThere
<1>4. ChoicesAreOld' /\ GrantsAreCurrent'
  BY <1>1, <1>2, <1>3, Fields DEF ChoicesAreOld, GrantsAreCurrent, PermissionInv
<1>5. NothingSaid'
  BY <1>1, <1>2, PeopleAssumption
     DEF NothingSaid, PermissionInv, People, Belongs, ReleasedRun, NoRun
<1>6. RequestsAreSound'
  BY <1>1, Requests, SoundRequests DEF PermissionInv
<1>7. DoneIsFresh'
  BY <1>1 DEF DoneIsFresh, PermissionInv, ReleasedRun, NoRun
<1>8. InheritedIsBacked'
  BY <1>1, <1>2, <1>3 DEF InheritedIsBacked, PermissionInv, Inherited, Effective
<1> QED BY <1>4, <1>5, <1>6, <1>7, <1>8 DEF PermissionInv

\* What taking back inherited choices leaves: nothing that counted for "on",
\* and no row that comes to count.
LEMMA RevokedInv ==
  ASSUME TypeOK, PermissionInv, NEW users \in SUBSET People, NEW v \in {"off", "unset"},
         NEW rows, rows = Revoked(users, v), NEW u \in People
  PROVE  /\ rows[u].epoch = choice[u].epoch /\ rows[u].member = choice[u].member
         /\ rows[u].rev = 0 => choice[u].rev = 0 /\ rows[u] = choice[u]
         /\ choice[u].rev = 0 => rows[u] = choice[u]
         /\ u # Owner /\ choice[u].value = "unset" => rows[u].value = "unset"
         /\ rows[u].source = "schedule" /\ rows[u].value = "on" =>
              u \notin users /\ rows[u] = choice[u]
         /\ ~(u \in users /\ Inherited(u)) => rows[u] = choice[u]
<1>1. rows[u] = IF u \in users /\ Inherited(u)
                THEN [value |-> IF u = Owner THEN v ELSE "unset", rev |-> choice[u].rev + 1,
                      epoch |-> choice[u].epoch, member |-> choice[u].member, source |-> "none"]
                ELSE choice[u]
  BY RevokedRows
<1>2. choice[u].rev \in Nat
  BY Fields
<1>3. choice[u].rev = 0 => ~Inherited(u)
  BY DEF PermissionInv, ChoicesAreOld, Inherited
<1>4. CASE u \in users /\ Inherited(u)
  BY <1>1, <1>2, <1>3, <1>4
<1>5. CASE ~(u \in users /\ Inherited(u))
  BY <1>1, <1>5 DEF Inherited
<1> QED BY <1>4, <1>5

\* A batch that may take back inherited choices and may release.
LEMMA RevokingInv ==
  ASSUME TypeOK, PermissionInv, NEW users \in SUBSET People, NEW v \in {"off", "unset"},
         choice' \in {choice, Revoked(users, v)}, run' \in {run, ReleasedRun},
         UNCHANGED <<shared, member, issue>>
  PROVE  /\ ChoicesAreOld' /\ DoneIsFresh'
         /\ ~shared => \A u \in People : choice'[u].rev = 0
         /\ ~member.in => choice'[Member].value = "unset"
         /\ issue.place = "none" => run'.st = "none" /\ \A u \in People : choice'[u].rev = 0
         /\ \A u \in People : Inherited(u)' /\ Effective(u)' = "on" =>
              /\ Inherited(u) /\ Effective(u) = "on"
              /\ choice' = Revoked(users, v) => u \notin users
<1>1. ASSUME NEW u \in People
      PROVE  /\ choice'[u].epoch = choice[u].epoch /\ choice'[u].member = choice[u].member
             /\ choice'[u].rev = 0 => choice[u].rev = 0 /\ choice'[u] = choice[u]
             /\ choice[u].rev = 0 => choice'[u] = choice[u]
             /\ u # Owner /\ choice[u].value = "unset" => choice'[u].value = "unset"
             /\ choice'[u].source = "schedule" /\ choice'[u].value = "on" =>
                  /\ choice'[u] = choice[u]
                  /\ choice' = Revoked(users, v) => u \notin users
             /\ choice'[u] # choice[u] => Inherited(u)
             /\ Stamp(u)' = Stamp(u)
  <2>1. Stamp(u)' = Stamp(u)
    BY DEF Stamp
  <2>2. CASE choice' = Revoked(users, v)
    BY <2>1, <2>2, RevokedInv
  <2>3. CASE choice' = choice /\ choice' # Revoked(users, v)
    BY <2>1, <2>3
  <2> QED BY <2>2, <2>3
<1>2. ChoicesAreOld'
  BY <1>1, Fields DEF ChoicesAreOld, PermissionInv
<1>3. \A u \in People : Effective(u) = "unset" => Effective(u)' = "unset"
  BY <1>1 DEF Effective, Inherited
<1>4. DoneIsFresh'
  BY <1>3 DEF DoneIsFresh, PermissionInv, ReleasedRun, NoRun
<1>5. /\ ~shared => \A u \in People : choice'[u].rev = 0
      /\ ~member.in => choice'[Member].value = "unset"
      /\ issue.place = "none" => run'.st = "none" /\ \A u \in People : choice'[u].rev = 0
  BY <1>1, PeopleAssumption DEF PermissionInv, NothingSaid, ReleasedRun, People
<1>6. ASSUME NEW u \in People, Inherited(u)', Effective(u)' = "on"
      PROVE  /\ Inherited(u) /\ Effective(u) = "on"
             /\ choice' = Revoked(users, v) => u \notin users
  BY <1>1, <1>6 DEF Inherited, Effective
<1> QED BY <1>2, <1>4, <1>5, <1>6

\* A choice about future issues keeps the invariant.
LEMMA ChooseFutureInv ==
  ASSUME TypeOK, PermissionInv, NEW h \in Handlers, NEW v \in {"on", "off"},
         WriteScheduleChoice(h, v)
  PROVE  PermissionInv'
<1> DEFINE who == handler[h].who
<1>1. /\ who \in People /\ shared /\ Belongs(who) /\ Finish(h) /\ ScheduleThere
      /\ grant' = [grant EXCEPT ![who] = Granted(who, v, schedule.epoch)]
      /\ IF v = "off" THEN choice' = Revoked({who}, "off") ELSE choice' = choice
      /\ run' \in {run, ReleasedRun}
      /\ UNCHANGED <<shared, member, issue, schedule>>
  BY DEF WriteScheduleChoice, StillMember, PermissionInv, RequestsAreSound, TypeOK, Records,
         Idle, Absent, RevokeReleases
<1> HIDE DEF who
<1>2. /\ grant'[who].value = v /\ grant'[who].rev # 0 /\ grant'[who].epoch = schedule.epoch
      /\ grant'[who].member = Stamp(who)
      /\ \A w \in People \ {who} : grant'[w] = grant[w]
  <2>1. grant[who].rev + 1 # 0
    BY <1>1, Fields
  <2> QED BY <1>1, <2>1 DEF Granted, TypeOK
<1>3. choice' \in {choice, Revoked({who}, "off")} /\ {who} \in SUBSET People
  BY <1>1
<1>4. /\ ChoicesAreOld' /\ DoneIsFresh'
      /\ ~member.in => choice'[Member].value = "unset"
      /\ issue.place = "none" => run'.st = "none" /\ \A u \in People : choice'[u].rev = 0
      /\ \A u \in People : Inherited(u)' /\ Effective(u)' = "on" =>
           /\ Inherited(u) /\ Effective(u) = "on"
           /\ choice' = Revoked({who}, "off") => u # who
  BY <1>1, <1>3, RevokingInv
<1>5. \A u \in People : Stamp(u)' = Stamp(u)
  BY <1>1 DEF Stamp
<1>6. GrantsAreCurrent'
  BY <1>1, <1>2, <1>5, Fields DEF GrantsAreCurrent, PermissionInv
<1>7. NothingSaid'
  BY <1>1, <1>2, <1>4, PeopleAssumption
     DEF NothingSaid, PermissionInv, People, Belongs, ScheduleThere
<1>8. RequestsAreSound'
  BY <1>1, Requests, SoundRequests DEF PermissionInv
<1>9. InheritedIsBacked'
  <2> SUFFICES ASSUME NEW u \in People, Inherited(u)', Effective(u)' = "on"
               PROVE  Future(u)' = "on"
    BY DEF InheritedIsBacked
  <2>1. CASE u = who
    BY <1>1, <1>2, <1>4, <1>5, <2>1 DEF Future, ScheduleThere
  <2>2. CASE u # who
    BY <1>1, <1>2, <1>4, <1>5, <2>2
       DEF Future, ScheduleThere, PermissionInv, InheritedIsBacked
  <2> QED BY <2>1, <2>2
<1> QED BY <1>4, <1>6, <1>7, <1>8, <1>9 DEF PermissionInv

\* A new schedule keeps the invariant.
LEMMA CreateScheduleInv ==
  ASSUME TypeOK, PermissionInv, NEW u \in People, NEW v \in {"on", "off", "unset"},
         CreateSchedule(u, v)
  PROVE  PermissionInv'
<1>1. /\ schedule.st = "none" /\ schedule.epoch = 0 /\ Belongs(u)
      /\ schedule'.st = "there" /\ schedule'.epoch = 0
      /\ \A w \in People : grant[w].rev = 0
      /\ UNCHANGED <<shared, member, issue, choice, run, handler>>
  BY DEF CreateSchedule, PermissionInv, NothingSaid, TypeOK
<1>2. \A w \in People : Stamp(w)' = Stamp(w) /\ Effective(w)' = Effective(w)
                        /\ Inherited(w)' = Inherited(w)
  BY <1>1 DEF Stamp, Effective, Inherited
<1>3. ASSUME NEW w \in People
      PROVE  \/ grant'[w] = grant[w]
             \/ /\ shared /\ (w = Member => member.in)
                /\ grant'[w].value # "unset" /\ grant'[w].rev # 0 /\ grant'[w].epoch = 0
                /\ grant'[w].member = Stamp(w)
  <2>1. \/ grant'[w] = grant[w]
        \/ v # "unset" /\ shared /\ w = u /\ grant'[w] = Granted(w, v, 0)
        \/ w = Owner /\ u # Owner /\ grant'[w] = Granted(w, "off", 0)
    BY DEF CreateSchedule
  <2>2. grant[w].rev + 1 # 0
    BY Fields
  <2> QED BY <1>1, <2>1, <2>2, PeopleAssumption DEF Granted, Belongs, People
<1>4. ChoicesAreOld' /\ DoneIsFresh'
  BY <1>1, <1>2 DEF ChoicesAreOld, DoneIsFresh, PermissionInv
<1>5. GrantsAreCurrent'
  BY <1>1, <1>2, <1>3, Fields DEF GrantsAreCurrent, PermissionInv
<1>6. NothingSaid'
  BY <1>1, <1>3 DEF NothingSaid, PermissionInv, People
<1>7. RequestsAreSound'
  BY <1>1 DEF RequestsAreSound, PermissionInv
<1>8. InheritedIsBacked'
  BY <1>1, <1>2 DEF InheritedIsBacked, PermissionInv, Future, ScheduleThere
<1> QED BY <1>4, <1>5, <1>6, <1>7, <1>8 DEF PermissionInv

\* What a new permission epoch leaves of the schedule's rows.
LEMMA InvalidatedInv ==
  ASSUME TypeOK, PermissionInv, NEW e \in Nat, NEW rows, rows = Invalidated(e),
         NEW u \in People
  PROVE  /\ rows[u].member = grant[u].member
         /\ grant[u].rev = 0 => rows[u] = grant[u]
         /\ grant[u].rev # 0 => /\ rows[u].rev # 0 /\ rows[u].epoch = e
                                /\ rows[u].value = IF u = Owner THEN grant[u].value ELSE "off"
<1>1. rows[u] = IF grant[u].rev = 0 THEN grant[u]
                ELSE [value |-> IF u = Owner THEN grant[u].value ELSE "off",
                      rev |-> grant[u].rev + 1, epoch |-> e, member |-> grant[u].member]
  BY GrantRows
<1>2. grant[u].rev + 1 # 0
  BY Fields
<1> QED BY <1>1, <1>2

\* Editing or deleting the schedule keeps the invariant.
LEMMA RedefineInv ==
  ASSUME TypeOK, PermissionInv, EditSchedule \/ DeleteSchedule
  PROVE  PermissionInv'
<1>1. /\ ScheduleThere /\ UNCHANGED <<shared, member, issue, handler>>
      /\ choice' = Revoked(People, "unset") /\ run' \in {run, ReleasedRun}
      /\ \/ /\ schedule'.st = "there" /\ schedule'.epoch = schedule.epoch + 1
            /\ grant' = Invalidated(schedule.epoch + 1)
         \/ schedule'.st = "gone" /\ schedule'.epoch = schedule.epoch /\ grant' = grant
  BY DEF EditSchedule, DeleteSchedule, ScheduleThere, TypeOK, RevokeReleases
<1>2. People \in SUBSET People /\ choice' \in {choice, Revoked(People, "unset")}
  BY <1>1
<1>3. /\ ChoicesAreOld' /\ DoneIsFresh'
      /\ ~shared => \A u \in People : choice'[u].rev = 0
      /\ ~member.in => choice'[Member].value = "unset"
      /\ issue.place = "none" => run'.st = "none" /\ \A u \in People : choice'[u].rev = 0
      /\ \A u \in People : ~(Inherited(u)' /\ Effective(u)' = "on")
  BY <1>1, <1>2, RevokingInv
<1>4. schedule.epoch + 1 \in Nat
  BY Fields
<1>5. ASSUME NEW u \in People
      PROVE  /\ grant'[u].member = grant[u].member
             /\ grant[u].rev = 0 => grant'[u] = grant[u]
             /\ grant[u].rev # 0 => grant'[u].rev # 0
             /\ grant[u].rev # 0 => grant'[u].epoch = schedule'.epoch /\ grant'[u].value # "unset"
             /\ Stamp(u)' = Stamp(u)
  <2>1. Stamp(u)' = Stamp(u)
    BY <1>1 DEF Stamp
  <2>2. CASE grant' = grant /\ schedule'.epoch = schedule.epoch
    BY <2>1, <2>2 DEF PermissionInv, GrantsAreCurrent
  <2>3. CASE grant' = Invalidated(schedule.epoch + 1) /\ schedule'.epoch = schedule.epoch + 1
    BY <1>4, <2>1, <2>3, InvalidatedInv DEF PermissionInv, GrantsAreCurrent
  <2> QED BY <1>1, <2>2, <2>3
<1>6. GrantsAreCurrent'
  BY <1>5 DEF GrantsAreCurrent, PermissionInv
<1>7. NothingSaid'
  BY <1>1, <1>3, <1>5 DEF NothingSaid, PermissionInv, People, ScheduleThere
<1>8. RequestsAreSound'
  BY <1>1 DEF RequestsAreSound, PermissionInv
<1>9. InheritedIsBacked'
  BY <1>3 DEF InheritedIsBacked
<1> QED BY <1>3, <1>6, <1>7, <1>8, <1>9 DEF PermissionInv

\* The issue goes on: its rows stay, or it enters a new epoch, in which rows
\* that exist are unset or are left behind.
LEMMA MovingInv ==
  ASSUME TypeOK, PermissionInv, issue.place # "none", NEW to \in Places, issue'.place = to,
         UNCHANGED <<shared, member, schedule, grant>>, run' \in {run, ReleasedRun},
         RequestsAreSound',
         \/ /\ issue'.epoch = issue.epoch /\ issue.place # "done"
            /\ to = "done" => ~shared
            /\ \A u \in People : \/ choice'[u] = choice[u]
                                 \/ /\ shared /\ choice'[u].rev # 0
                                    /\ choice'[u].epoch = issue.epoch
                                    /\ choice'[u].member = Stamp(u)
                                    /\ choice'[u].source = "issue"
                                    /\ u = Member => member.in
         \/ /\ issue'.epoch = issue.epoch /\ issue.place = "done" /\ ~shared /\ choice' = choice
         \/ /\ issue'.epoch = issue.epoch + 1 /\ choice' = choice
         \/ /\ issue'.epoch = issue.epoch + 1
            /\ choice' = ResetRows(choice, issue.epoch + 1)
  PROVE  PermissionInv'
<1>1. \A u \in People : Stamp(u)' = Stamp(u) /\ Future(u)' = Future(u)
  BY DEF Stamp, Future, ScheduleThere
<1>2. GrantsAreCurrent'
  BY <1>1 DEF GrantsAreCurrent, PermissionInv
<1>3. CASE /\ issue'.epoch = issue.epoch /\ issue.place # "done"
           /\ to = "done" => ~shared
           /\ \A u \in People : \/ choice'[u] = choice[u]
                                \/ /\ shared /\ choice'[u].rev # 0
                                   /\ choice'[u].epoch = issue.epoch
                                   /\ choice'[u].member = Stamp(u)
                                   /\ choice'[u].source = "issue"
                                   /\ u = Member => member.in
  <2>1. ChoicesAreOld'
    BY <1>1, <1>3, Fields DEF ChoicesAreOld, PermissionInv
  <2>2. NothingSaid'
    BY <1>3 DEF NothingSaid, PermissionInv, People, Places, Open
  <2>3. DoneIsFresh'
    BY <1>3 DEF DoneIsFresh, PermissionInv, ReleasedRun, NoRun
  <2>4. InheritedIsBacked'
    BY <1>1, <1>3 DEF InheritedIsBacked, PermissionInv, Inherited, Effective
  <2> QED BY <1>2, <2>1, <2>2, <2>3, <2>4 DEF PermissionInv
<1>4. CASE /\ issue'.epoch = issue.epoch /\ issue.place = "done" /\ ~shared /\ choice' = choice
  <2>1. ChoicesAreOld' /\ DoneIsFresh' /\ NothingSaid'
    BY <1>1, <1>4 DEF ChoicesAreOld, DoneIsFresh, NothingSaid, PermissionInv, ReleasedRun, NoRun,
                      Places, Open
  <2>2. InheritedIsBacked'
    BY <1>1, <1>4 DEF InheritedIsBacked, PermissionInv, Inherited, Effective
  <2> QED BY <1>2, <2>1, <2>2 DEF PermissionInv
<1>5. CASE /\ issue'.epoch = issue.epoch + 1
           /\ choice' \in {choice, ResetRows(choice, issue.epoch + 1)}
  <2>1. ASSUME NEW u \in People
        PROVE  /\ choice'[u].epoch <= issue.epoch + 1 /\ choice'[u].member <= Stamp(u)
               /\ choice'[u].rev = 0 => choice'[u] = choice[u]
               /\ choice[u].rev = 0 => choice'[u] = choice[u]
               /\ choice'[u].epoch = issue.epoch + 1 => choice'[u].value = "unset"
               /\ choice[u].value = "unset" => choice'[u].value = "unset"
    <3>1. /\ choice \in [People -> Rows] /\ issue.epoch + 1 \in Nat
          /\ choice[u].epoch <= issue.epoch /\ choice[u].member <= Stamp(u)
          /\ choice[u].epoch \in Nat /\ issue.epoch \in Nat /\ choice[u].rev + 1 # 0
          /\ choice[u].rev = 0 => choice[u].value = "unset"
      BY Fields DEF TypeOK, PermissionInv, ChoicesAreOld
    <3>2. CASE choice' = choice
      BY <3>1, <3>2
    <3>3. CASE choice' = ResetRows(choice, issue.epoch + 1)
      <4>1. choice'[u] = IF choice[u].rev = 0 THEN choice[u]
                         ELSE [value |-> "unset", rev |-> choice[u].rev + 1,
                               epoch |-> issue.epoch + 1, member |-> choice[u].member,
                               source |-> "none"]
        BY <3>1, <3>3, ResetRowsRows
      <4> QED BY <3>1, <4>1
    <3> QED BY <1>5, <3>2, <3>3
  <2>2. ChoicesAreOld'
    BY <1>1, <1>5, <2>1 DEF ChoicesAreOld, PermissionInv
  <2>3. NothingSaid'
    BY <2>1 DEF NothingSaid, PermissionInv, People, Places, Open
  <2>4. \A u \in People : Effective(u)' = "unset"
    BY <1>5, <2>1 DEF Effective
  <2>5. DoneIsFresh'
    BY <1>5, <2>4, Fields DEF DoneIsFresh, PermissionInv, ReleasedRun, NoRun
  <2>6. InheritedIsBacked'
    BY <2>4 DEF InheritedIsBacked
  <2> QED BY <1>2, <2>2, <2>3, <2>5, <2>6 DEF PermissionInv
<1> QED BY <1>3, <1>4, <1>5

\* A decision that moves an issue keeps the invariant.
LEMMA DecisionInv ==
  ASSUME TypeOK, PermissionInv, NEW h \in Handlers, NEW to \in Places,
         NEW v \in {"on", "off", "keep"}, NEW other \in BOOLEAN,
         Transition(h, to, v) \/ TransitionUnshared(h, to) \/ ForceState(h, to, other)
  PROVE  PermissionInv'
<1> DEFINE s == handler[h]
<1>1. /\ s.pc = "decide" /\ s.from \in Places /\ s.who \in People /\ issue.place = s.from
      /\ issue.place # "none" /\ Finish(h) /\ (s.shared => shared)
      /\ UNCHANGED <<shared, member, schedule, grant>>
  <2>1. s.pc = "decide" /\ Stands(s) /\ Finish(h) /\ UNCHANGED <<shared, member, schedule, grant>>
    BY DEF Transition, TransitionUnshared, ForceState
  <2>2. s.from \in Places /\ s.who \in People /\ (s.shared => shared)
    BY <2>1, DecisionRecord DEF PermissionInv, RequestsAreSound
  <2> QED BY <2>1, <2>2 DEF Stands, Places, Open
<1>2. issue'.place = to
  BY DEF Transition, TransitionUnshared, ForceState, Moves
<1>3. RequestsAreSound'
  <2>1. issue'.place # "none"
    BY <1>2 DEF Places, Open
  <2> QED BY <1>1, <2>1, Requests, SoundRequests DEF PermissionInv
<1>4. run' \in {run, ReleasedRun}
  BY DEF Transition, TransitionUnshared, ForceState, Release
<1> HIDE DEF s
<1>5. CASE Transition(h, to, v)
  <2>1. /\ s.shared /\ StillMember(s)
        /\ issue'.epoch = IF Crosses(s, to) THEN issue.epoch + 1 ELSE issue.epoch
        /\ choice' = IF Crosses(s, to) THEN ResetRows(choice, issue.epoch + 1)
                     ELSE IF v = "keep" THEN choice ELSE Said(s.who, v, "issue")
    BY <1>5 DEF Transition, Moves, s
  <2>2. CASE Crosses(s, to)
    BY <1>1, <1>2, <1>3, <1>4, <2>1, <2>2, MovingInv
  <2>3. CASE ~Crosses(s, to)
    <3>1. /\ issue'.epoch = issue.epoch /\ issue.place # "done" /\ to # "done"
      BY <1>1, <2>1, <2>3 DEF Crosses
    <3>2. ASSUME NEW u \in People
          PROVE  \/ choice'[u] = choice[u]
                 \/ /\ shared /\ choice'[u].rev # 0 /\ choice'[u].epoch = issue.epoch
                    /\ choice'[u].member = Stamp(u) /\ choice'[u].source = "issue"
                    /\ u = Member => member.in
      <4>1. CASE v = "keep" \/ u # s.who
        BY <1>1, <2>1, <2>3, <4>1 DEF Said, TypeOK
      <4>2. CASE v # "keep" /\ u = s.who
        <5>1. /\ choice'[u] = [value |-> v, rev |-> choice[u].rev + 1, epoch |-> issue.epoch,
                               member |-> Stamp(u), source |-> "issue"]
          BY <1>1, <2>1, <2>3, <4>2 DEF Said, TypeOK
        <5>2. choice[u].rev + 1 # 0
          BY Fields
        <5>3. u = Member => member.in
          BY <2>1, <4>2, PeopleAssumption DEF StillMember, Belongs
        <5> QED BY <1>1, <2>1, <5>1, <5>2, <5>3
      <4> QED BY <4>1, <4>2
    <3> QED BY <1>1, <1>2, <1>3, <1>4, <3>1, <3>2, MovingInv
  <2> QED BY <2>2, <2>3
<1>6. CASE TransitionUnshared(h, to)
  <2>1. /\ choice' = choice
        /\ issue'.epoch = IF Crosses(s, to) THEN issue.epoch + 1 ELSE issue.epoch
    BY <1>6 DEF TransitionUnshared, Moves, s
  <2>2. issue'.epoch = issue.epoch => issue.place # "done" /\ to # "done"
    BY <1>1, <2>1, Fields DEF Crosses
  <2> QED BY <1>1, <1>2, <1>3, <1>4, <2>1, <2>2, MovingInv
<1>7. CASE ForceState(h, to, other)
  <2>1. LET resets == other \/ Crosses(s, to) IN
        /\ issue'.epoch = IF resets THEN issue.epoch + 1 ELSE issue.epoch
        /\ choice' = IF shared /\ resets THEN ResetRows(choice, issue.epoch + 1) ELSE choice
    BY <1>7 DEF ForceState, s
  <2>2. ~Crosses(s, to) => issue.place # "done" /\ to # "done"
    BY <1>1 DEF Crosses
  <2> QED BY <1>1, <1>2, <1>3, <1>4, <2>1, <2>2, MovingInv
<1> QED BY <1>5, <1>6, <1>7

\* The steps of runs keep the invariant.
LEMMA RunStepInv ==
  ASSUME TypeOK, PermissionInv, ClaimRun \/ LaunchRun \/ EndRun \/ \E h \in Handlers : GiveUp(h)
  PROVE  PermissionInv'
<1>1. UNCHANGED <<shared, member, issue, choice, schedule, grant>>
  BY DEF ClaimRun, LaunchRun, EndRun, GiveUp
<1>2. RequestsAreSound'
  <2>1. CASE handler' = handler
    BY <1>1, <2>1 DEF RequestsAreSound, PermissionInv
  <2>2. CASE \E h \in Handlers : Finish(h)
    BY <1>1, <2>2, Requests, SoundRequests DEF PermissionInv
  <2> QED BY <2>1, <2>2 DEF ClaimRun, LaunchRun, EndRun, GiveUp
<1>3. ChoicesAreOld' /\ GrantsAreCurrent' /\ InheritedIsBacked'
  BY <1>1 DEF ChoicesAreOld, GrantsAreCurrent, InheritedIsBacked, PermissionInv, Stamp,
              Effective, Future, Inherited, ScheduleThere
<1>4. /\ issue.place = "none" => run'.st = "none"
      /\ run'.st = "assigned" => run' = run \/ (run'.epoch = issue.epoch /\ issue.place = "active")
  BY DEF ClaimRun, LaunchRun, EndRun, GiveUp, NoRun, PermissionInv, NothingSaid
<1>5. NothingSaid'
  BY <1>1, <1>4 DEF NothingSaid, PermissionInv
<1>6. \A u \in People : Effective(u)' = Effective(u)
  BY <1>1 DEF Effective, Stamp
<1>7. DoneIsFresh'
  BY <1>1, <1>4, <1>6, Fields DEF DoneIsFresh, PermissionInv
<1> QED BY <1>2, <1>3, <1>5, <1>7 DEF PermissionInv

\* What an edit of the workflow leaves of one person's rows.
LEMMA WorkflowRows ==
  ASSUME TypeOK, PermissionInv, NEW h \in Handlers, NEW inIt \in BOOLEAN, NEW start \in BOOLEAN,
         WriteWorkflow(h, inIt, start), NEW u \in People
  PROVE  /\ choice'[u].epoch <= issue'.epoch /\ choice'[u].member = choice[u].member
         /\ choice'[u].rev = 0 => choice'[u].value = "unset" /\ choice'[u].source = "none"
         /\ choice[u].rev = 0 => choice'[u].rev = 0
         /\ u # Owner /\ choice[u].value = "unset" => choice'[u].value = "unset"
         /\ inIt /\ shared => Effective(u)' = "unset"
         /\ ~(inIt /\ shared) => /\ choice'[u].epoch = choice[u].epoch
                                 /\ choice'[u] = choice[u] \/ (start /\ Inherited(u))
                                 /\ start => ~Inherited(u)'
<1> DEFINE taken == IF start THEN Revoked(People, "unset") ELSE choice
<1>1. /\ choice \in [People -> Rows] /\ issue.epoch + 1 \in Nat /\ issue.epoch \in Nat
      /\ choice[u].epoch <= issue.epoch /\ choice[u].epoch \in Nat
      /\ choice[u].rev = 0 => choice[u].value = "unset" /\ choice[u].source = "none"
  BY Fields DEF TypeOK, PermissionInv, ChoicesAreOld
<1>2. /\ taken \in [People -> Rows]
      /\ taken[u].epoch = choice[u].epoch /\ taken[u].member = choice[u].member
      /\ taken[u].rev = 0 => choice[u].rev = 0 /\ taken[u] = choice[u]
      /\ choice[u].rev = 0 => taken[u] = choice[u]
      /\ u # Owner /\ choice[u].value = "unset" => taken[u].value = "unset"
      /\ taken[u] = choice[u] \/ (start /\ Inherited(u))
      /\ start => ~(taken[u].source = "schedule" /\ taken[u].value = "on")
  <2>1. CASE start
    <3>1. People \in SUBSET People /\ taken = Revoked(People, "unset")
      BY <2>1
    <3>2. taken \in [People -> Rows]
      BY <3>1, RevokedRows
    <3> HIDE DEF taken
    <3>3. /\ taken[u].epoch = choice[u].epoch /\ taken[u].member = choice[u].member
          /\ taken[u].rev = 0 => choice[u].rev = 0 /\ taken[u] = choice[u]
          /\ choice[u].rev = 0 => taken[u] = choice[u]
          /\ u # Owner /\ choice[u].value = "unset" => taken[u].value = "unset"
          /\ ~(taken[u].source = "schedule" /\ taken[u].value = "on")
          /\ ~Inherited(u) => taken[u] = choice[u]
      BY <3>1, RevokedInv
    <3> QED BY <2>1, <3>2, <3>3
  <2>2. CASE ~start
    BY <1>1, <2>2
  <2> QED BY <2>1, <2>2
<1>3. /\ choice' = IF inIt /\ shared THEN ResetRows(taken, issue.epoch + 1) ELSE taken
      /\ issue'.epoch = IF inIt /\ shared THEN issue.epoch + 1 ELSE issue.epoch
      /\ UNCHANGED <<shared, member>>
  BY DEF WriteWorkflow, TypeOK
<1> HIDE DEF taken
<1>4. CASE inIt /\ shared
  <2>1. choice'[u] = IF taken[u].rev = 0 THEN taken[u]
                     ELSE [value |-> "unset", rev |-> taken[u].rev + 1,
                           epoch |-> issue.epoch + 1, member |-> taken[u].member,
                           source |-> "none"]
    BY <1>1, <1>2, <1>3, <1>4, ResetRowsRows
  <2>2. taken[u].rev + 1 # 0
    BY <1>2 DEF Rows
  <2>3. choice'[u].value = "unset"
    BY <1>1, <1>2, <2>1
  <2>4. Effective(u)' = "unset"
    BY <2>3 DEF Effective
  <2> QED BY <1>1, <1>2, <1>3, <1>4, <2>1, <2>2, <2>4
<1>5. CASE ~(inIt /\ shared)
  BY <1>1, <1>2, <1>3, <1>5 DEF Inherited
<1> QED BY <1>4, <1>5

\* A workflow that is saved or deleted keeps the invariant.
LEMMA WorkflowInv ==
  ASSUME TypeOK, PermissionInv, NEW h \in Handlers, NEW inIt \in BOOLEAN, NEW start \in BOOLEAN,
         WriteWorkflow(h, inIt, start)
  PROVE  PermissionInv'
<1>1. /\ inIt => issue.place \in Open
      /\ start => shared /\ ScheduleThere
      /\ issue'.place = IF inIt THEN "done" ELSE issue.place
      /\ issue'.epoch = IF inIt /\ shared THEN issue.epoch + 1 ELSE issue.epoch
      /\ schedule'.st = schedule.st
      /\ schedule'.epoch = IF start THEN schedule.epoch + 1 ELSE schedule.epoch
      /\ grant' = IF start THEN Invalidated(schedule.epoch + 1) ELSE grant
      /\ run' \in {run, ReleasedRun} /\ Outdated(h) /\ UNCHANGED <<shared, member>>
  BY DEF WriteWorkflow, TypeOK
<1>2. \A u \in People :
        /\ choice'[u].epoch <= issue'.epoch /\ choice'[u].member = choice[u].member
        /\ choice'[u].rev = 0 => choice'[u].value = "unset" /\ choice'[u].source = "none"
        /\ choice[u].rev = 0 => choice'[u].rev = 0
        /\ u # Owner /\ choice[u].value = "unset" => choice'[u].value = "unset"
        /\ inIt /\ shared => Effective(u)' = "unset"
        /\ ~(inIt /\ shared) => /\ choice'[u].epoch = choice[u].epoch
                                /\ choice'[u] = choice[u] \/ (start /\ Inherited(u))
                                /\ start => ~Inherited(u)'
  BY WorkflowRows
<1>3. ASSUME NEW u \in People
      PROVE  /\ grant'[u].member = grant[u].member
             /\ grant[u].rev = 0 => grant'[u] = grant[u]
             /\ grant[u].rev # 0 => grant'[u].rev # 0
             /\ grant[u].rev # 0 => grant'[u].epoch = schedule'.epoch /\ grant'[u].value # "unset"
             /\ Stamp(u)' = Stamp(u)
  <2>1. Stamp(u)' = Stamp(u)
    BY <1>1 DEF Stamp
  <2>2. CASE ~start
    BY <1>1, <2>1, <2>2 DEF PermissionInv, GrantsAreCurrent
  <2>3. CASE start
    <3>1. schedule.epoch + 1 \in Nat
      BY Fields
    <3> QED BY <1>1, <2>1, <2>3, <3>1, InvalidatedInv DEF PermissionInv, GrantsAreCurrent
  <2> QED BY <2>2, <2>3
<1>4. ChoicesAreOld'
  BY <1>2, <1>3 DEF ChoicesAreOld, PermissionInv
<1>5. GrantsAreCurrent'
  BY <1>3 DEF GrantsAreCurrent, PermissionInv
<1>6. NothingSaid'
  BY <1>1, <1>2, <1>3, PeopleAssumption
     DEF NothingSaid, PermissionInv, People, ScheduleThere, ReleasedRun, NoRun
<1>7. RequestsAreSound'
  <2>1. issue.place # "none" => issue'.place # "none"
    BY <1>1
  <2> QED BY <1>1, <2>1, Requests, SoundRequests DEF PermissionInv
<1>8. CASE inIt /\ shared
  <2>1. DoneIsFresh'
    BY <1>1, <1>2, <1>8, Fields DEF DoneIsFresh, PermissionInv, ReleasedRun, NoRun
  <2>2. InheritedIsBacked'
    BY <1>2, <1>8 DEF InheritedIsBacked
  <2> QED BY <1>4, <1>5, <1>6, <1>7, <2>1, <2>2 DEF PermissionInv
<1>9. CASE ~(inIt /\ shared)
  <2>1. \A u \in People : Effective(u) = "unset" => Effective(u)' = "unset"
    BY <1>1, <1>2, <1>3, <1>9 DEF Effective, Inherited
  <2>2. DoneIsFresh'
    BY <1>1, <1>9, <2>1, Fields DEF DoneIsFresh, PermissionInv, ReleasedRun, NoRun
  <2>3. InheritedIsBacked'
    <3>1. CASE start
      BY <1>2, <1>9, <3>1 DEF InheritedIsBacked
    <3>2. CASE ~start
      BY <1>1, <1>2, <1>3, <1>9, <3>2
         DEF InheritedIsBacked, PermissionInv, Inherited, Effective, Future, ScheduleThere
    <3> QED BY <3>1, <3>2
  <2> QED BY <1>4, <1>5, <1>6, <1>7, <2>2, <2>3 DEF PermissionInv
<1> QED BY <1>8, <1>9

\* Reopening an issue keeps the invariant.
LEMMA ReopenInv ==
  ASSUME TypeOK, PermissionInv, NEW place \in Open, ReopenState(place)
  PROVE  PermissionInv'
<1>1. /\ issue.place = "done" /\ issue'.place = place /\ issue'.epoch = issue.epoch
      /\ place # "none" /\ place # "done"
      /\ UNCHANGED <<shared, member, choice, schedule, grant, run>>
      /\ \A k \in Handlers : \/ handler'[k] = handler[k]
                             \/ /\ handler[k].pc = "decide"
                                /\ handler'[k] = [handler[k] EXCEPT !.workflow = FALSE]
  BY DEF ReopenState, TypeOK, Open
<1>2. \A u \in People : /\ Stamp(u)' = Stamp(u) /\ Effective(u)' = Effective(u)
                        /\ Future(u)' = Future(u) /\ Inherited(u)' = Inherited(u)
  BY <1>1 DEF Stamp, Effective, Future, Inherited, ScheduleThere
<1>3. RequestsAreSound'
  BY <1>1, SoundRequests DEF PermissionInv
<1> QED BY <1>1, <1>2, <1>3 DEF PermissionInv, ChoicesAreOld, GrantsAreCurrent, NothingSaid,
           DoneIsFresh, InheritedIsBacked

\* Every step keeps the invariant.
LEMMA InvStep == TypeOK /\ PermissionInv /\ [Next]_vars => PermissionInv'
<1> SUFFICES ASSUME TypeOK, PermissionInv, [Next]_vars PROVE PermissionInv'
  OBVIOUS
<1>1. CASE Share \/ AcceptInvitation \/ RemoveMember
  BY <1>1, ShareInv, AcceptInv, RemoveInv
<1>2. ASSUME NEW place \in Open, NEW v \in {"on", "off", "unset"},
             OwnerCreates(place, v) \/ OthersCreate(place, v) \/ ScheduleCreates(place)
      PROVE  PermissionInv'
  BY <1>2, FilingStep
<1>3. ASSUME NEW place \in Open, ReopenState(place)
      PROVE  PermissionInv'
  BY <1>3, ReopenInv
<1>4. ASSUME NEW u \in People, NEW v \in {"on", "off", "unset"}, CreateSchedule(u, v)
      PROVE  PermissionInv'
  BY <1>4, CreateScheduleInv
<1>5. CASE EditSchedule \/ DeleteSchedule
  BY <1>5, RedefineInv
<1>6. CASE ClaimRun \/ LaunchRun \/ EndRun \/ \E h \in Handlers : GiveUp(h)
  BY <1>6, RunStepInv
<1>7. ASSUME NEW h \in Handlers, NEW u \in People, NEW inIt \in BOOLEAN,
             \/ ReadIssueChoice(h, u) \/ ReadScheduleChoice(h, u)
             \/ ReadDecision(h, u) \/ ReadWorkflow(h, inIt)
      PROVE  PermissionInv'
  BY <1>7, ReadInv
<1>8. ASSUME NEW h \in Handlers, NEW v \in {"on", "off"},
             WriteIssueChoice(h, v) \/ WriteScheduleChoice(h, v)
      PROVE  PermissionInv'
  BY <1>8, ChooseInv, ChooseFutureInv
<1>9. ASSUME NEW h \in Handlers, NEW to \in Places, NEW v \in {"on", "off", "keep"},
             NEW other \in BOOLEAN,
             Transition(h, to, v) \/ TransitionUnshared(h, to) \/ ForceState(h, to, other)
      PROVE  PermissionInv'
  BY <1>9, DecisionInv
<1>10. ASSUME NEW h \in Handlers, NEW inIt \in BOOLEAN, NEW start \in BOOLEAN,
              WriteWorkflow(h, inIt, start)
       PROVE  PermissionInv'
  BY <1>10, WorkflowInv
<1>11. CASE UNCHANGED vars
  BY <1>11 DEF vars, PermissionInv, ChoicesAreOld, GrantsAreCurrent, NothingSaid,
               RequestsAreSound, DoneIsFresh, InheritedIsBacked, Stamp, Effective, Future,
               Inherited, ScheduleThere
<1>12. \E u \in People : TRUE
  BY DEF People
<1> QED BY <1>1, <1>2, <1>3, <1>4, <1>5, <1>6, <1>7, <1>8, <1>9, <1>10, <1>11, <1>12 DEF Next

\* Nothing that is said outlives the sharing state, the membership, the
\* schedule's definition or the issue's epoch it was said in.
THEOREM PermissionIsCurrent == Spec => []PermissionInv
<1>1. Init => TypeOK /\ PermissionInv
  BY InitType, InitInv
<1>2. TypeOK /\ PermissionInv /\ [Next]_vars => TypeOK' /\ PermissionInv'
  BY TypeStep, InvStep
<1> QED BY <1>1, <1>2, PTL DEF Spec

\* An "on" that a schedule handed to an issue is never more than what that
\* person says of the schedule now: schedule-consent.ts's withdrawal, a new
\* definition, a deletion and a departure all reach the issues already filed.
THEOREM InheritanceIsBacked == Spec => []InheritedIsBacked
<1>1. PermissionInv => InheritedIsBacked
  BY DEF PermissionInv
<1> QED BY <1>1, PermissionIsCurrent, PTL

-----------------------------------------------------------------------------
(* Launches and releases.                                                   *)

\* A batch releases the assigned run, whose claim then is of no use, or
\* leaves it, with everything its claim is compared with.
LEMMA WorkIs ==
  ASSUME TypeOK
  PROVE  /\ run' = ReleasedRun =>
              /\ run'.st # "assigned"
              /\ Work' = IF Work = "assigned" THEN "none" ELSE Work
         /\ run' = run /\ shared' = shared /\ issue'.epoch = issue.epoch
            /\ choice'[Owner].rev = choice[Owner].rev =>
              /\ Work' = Work /\ (Deliverable => Deliverable')
         /\ run' = run /\ run.st # "assigned" => Work' = Work
<1>1. ASSUME run' = ReleasedRun
      PROVE  /\ run'.st # "assigned"
             /\ Work' = IF Work = "assigned" THEN "none" ELSE Work
  BY <1>1 DEF ReleasedRun, NoRun, Work, Deliverable
<1>2. ASSUME run' = run, shared' = shared, issue'.epoch = issue.epoch,
             choice'[Owner].rev = choice[Owner].rev
      PROVE  Work' = Work /\ (Deliverable => Deliverable')
  BY <1>2 DEF Work, Deliverable, ClaimIsCurrent
<1>3. ASSUME run' = run, run.st # "assigned"
      PROVE  Work' = Work
  BY <1>3 DEF Work, Deliverable
<1> QED BY <1>1, <1>2, <1>3

\* What a batch may do to the assigned run of the owner's agent.
RunMoves ==
    \/ run.st # "assigned" \/ run'.st = "none" \/ LaunchRun
    \/ run' = ReleasedRun
    \/ /\ run' = run /\ shared' = shared /\ issue'.epoch = issue.epoch
       /\ choice'[Owner].rev = choice[Owner].rev
    \/ run' = run /\ ~shared /\ ~shared'
    \/ run' = run /\ ByStaleRead

\* An edit of the workflow releases the issues it has listed.
LEMMA WorkflowReleases ==
  ASSUME TypeOK, PermissionInv, NEW h \in Handlers, NEW inIt \in BOOLEAN, NEW start \in BOOLEAN,
         WriteWorkflow(h, inIt, start)
  PROVE  RunMoves
<1>1. handler[h].pc = "workflow" /\ handler'[h] = Idle
  BY DEF WriteWorkflow, Outdated
<1>2. CASE ~handler[h].listed
  <2>1. run' \in {run, ReleasedRun}
    BY DEF WriteWorkflow
  <2> QED BY <1>1, <1>2, <2>1 DEF RunMoves, ByStaleRead, Idle
<1>3. CASE handler[h].listed /\ run' # ReleasedRun
  <2>1. run' = run /\ ~inIt /\ ~(start /\ choice[Owner].source = "schedule")
    BY <1>3 DEF WriteWorkflow
  <2>2. ~(start /\ Inherited(Owner))
    BY <2>1 DEF Inherited
  <2>3. choice'[Owner] = choice[Owner]
    BY <2>1, <2>2, WorkflowRows DEF People
  <2>4. issue' = issue /\ shared' = shared
    BY <2>1 DEF WriteWorkflow
  <2> QED BY <2>1, <2>3, <2>4 DEF RunMoves
<1> QED BY <1>2, <1>3 DEF RunMoves

\* Every step moves the run in one of these ways.
LEMMA EveryStepReleases ==
  ASSUME TypeOK, PermissionInv, [Next]_vars
  PROVE  RunMoves
<1>1. CASE Share
  BY <1>1 DEF Share, Release, RunMoves
<1>2. CASE AcceptInvitation \/ RemoveMember
  <2>1. choice'[Owner] = choice[Owner]
    BY <1>2, PeopleAssumption DEF AcceptInvitation, RemoveMember, TypeOK, People
  <2> QED BY <1>2, <2>1 DEF AcceptInvitation, RemoveMember, RunMoves
<1>3. ASSUME NEW place \in Open, NEW v \in {"on", "off", "unset"},
             OwnerCreates(place, v) \/ OthersCreate(place, v) \/ ScheduleCreates(place)
      PROVE  RunMoves
  BY <1>3 DEF OwnerCreates, OthersCreate, ScheduleCreates, PermissionInv, NothingSaid, RunMoves
<1>4. ASSUME NEW place \in Open, ReopenState(place)
      PROVE  RunMoves
  <2>1. issue'.epoch = issue.epoch
    BY <1>4 DEF ReopenState, TypeOK
  <2> QED BY <1>4, <2>1 DEF ReopenState, RunMoves
<1>5. ASSUME NEW u \in People, NEW v \in {"on", "off", "unset"}, CreateSchedule(u, v)
      PROVE  RunMoves
  BY <1>5 DEF CreateSchedule, RunMoves
<1>6. CASE EditSchedule \/ DeleteSchedule
  <2>1. /\ choice' = Revoked(People, "unset") /\ UNCHANGED <<shared, issue>>
        /\ run' = IF Owner \in People /\ choice[Owner].source = "schedule" THEN ReleasedRun ELSE run
    BY <1>6 DEF EditSchedule, DeleteSchedule, RevokeReleases
  <2>2. ~Inherited(Owner) => choice'[Owner] = choice[Owner]
    BY <2>1, RevokedRows DEF People
  <2> QED BY <2>1, <2>2 DEF RunMoves, Inherited, People
<1>7. CASE ClaimRun \/ LaunchRun \/ EndRun
  BY <1>7 DEF ClaimRun, EndRun, RunMoves, NoRun
<1>8. CASE (\E h \in Handlers : GiveUp(h)) \/ UNCHANGED vars
  BY <1>8 DEF GiveUp, RunMoves, vars
<1>9. ASSUME NEW h \in Handlers, NEW u \in People, NEW inIt \in BOOLEAN,
             \/ ReadIssueChoice(h, u) \/ ReadScheduleChoice(h, u)
             \/ ReadDecision(h, u) \/ ReadWorkflow(h, inIt)
      PROVE  RunMoves
  BY <1>9 DEF ReadIssueChoice, ReadScheduleChoice, ReadDecision, ReadWorkflow, RunMoves
<1>10. ASSUME NEW h \in Handlers, NEW v \in {"on", "off"}, WriteIssueChoice(h, v)
       PROVE  RunMoves
  <2>1. CASE handler[h].who = Owner
    BY <1>10, <2>1 DEF WriteIssueChoice, Releases, Release, RunMoves
  <2>2. CASE handler[h].who # Owner
    <3>1. choice'[Owner] = choice[Owner]
      BY <1>10, <2>2 DEF WriteIssueChoice, Said, TypeOK, People
    <3> QED BY <1>10, <2>2, <3>1 DEF WriteIssueChoice, Releases, RunMoves
  <2> QED BY <2>1, <2>2
<1>11. ASSUME NEW h \in Handlers, NEW v \in {"on", "off"}, WriteScheduleChoice(h, v)
       PROVE  RunMoves
  <2> DEFINE who == handler[h].who
  <2>1. who \in People /\ UNCHANGED <<shared, issue>>
    BY <1>11 DEF WriteScheduleChoice, TypeOK, Records, Idle, Absent
  <2>2. CASE v = "off"
    <3>1. choice' = Revoked({who}, "off") /\ RevokeReleases({who})
      BY <1>11, <2>2 DEF WriteScheduleChoice
    <3>2. {who} \in SUBSET People /\ Owner \in People
      BY <2>1 DEF People
    <3>3. ~(Owner \in {who} /\ Inherited(Owner)) => choice'[Owner] = choice[Owner]
      BY <3>1, <3>2, RevokedRows
    <3> QED BY <2>1, <3>1, <3>3 DEF RevokeReleases, RunMoves, Inherited
  <2>3. CASE v # "off"
    BY <1>11, <2>1, <2>3 DEF WriteScheduleChoice, RunMoves
  <2> QED BY <2>2, <2>3
<1>12. ASSUME NEW h \in Handlers, NEW to \in Places, NEW v \in {"on", "off", "keep"},
              NEW other \in BOOLEAN,
              Transition(h, to, v) \/ TransitionUnshared(h, to) \/ ForceState(h, to, other)
       PROVE  RunMoves
  <2>1. CASE Transition(h, to, v)
    BY <2>1 DEF Transition, Release, RunMoves
  <2>2. CASE TransitionUnshared(h, to)
    <3>1. handler'[h] = Idle
      BY <2>2 DEF TransitionUnshared, Finish, TypeOK
    <3> QED BY <2>2, <3>1 DEF TransitionUnshared, RunMoves, ByStaleRead, Idle
  <2>3. CASE ForceState(h, to, other)
    BY <2>3 DEF ForceState, Release, RunMoves
  <2> QED BY <1>12, <2>1, <2>2, <2>3
<1>13. ASSUME NEW h \in Handlers, NEW inIt \in BOOLEAN, NEW start \in BOOLEAN,
              WriteWorkflow(h, inIt, start)
       PROVE  RunMoves
  BY <1>13, WorkflowReleases
<1>14. \E u \in People : TRUE
  BY DEF People
<1> QED BY <1>1, <1>2, <1>3, <1>4, <1>5, <1>6, <1>7, <1>8, <1>9, <1>10, <1>11, <1>12, <1>13,
           <1>14 DEF Next

\* Assigned work whose claim goes stale is released by the same batch
\* (writeIssueConsent), but for the two batches that go by an older read.
THEOREM StaleClaimsAreAlwaysReleased == Spec => StaleClaimsAreReleased
<1>1. TypeOK /\ PermissionInv /\ [Next]_vars
        => [Deliverable /\ run'.st = "assigned" => Deliverable' \/ ByStaleRead]_vars
  <2> SUFFICES ASSUME TypeOK, PermissionInv, [Next]_vars, Deliverable, run'.st = "assigned",
                      ~ByStaleRead
               PROVE  Deliverable'
    OBVIOUS
  <2>1. /\ run.st = "assigned" /\ run'.st # "none" /\ run' # ReleasedRun
    BY WorkIs DEF Deliverable
  <2>2. ~LaunchRun
    BY DEF LaunchRun
  <2>3. CASE run' = run /\ ~shared /\ ~shared'
    BY <2>1, <2>3 DEF Deliverable
  <2> QED BY <2>1, <2>2, <2>3, EveryStepReleases, WorkIs DEF RunMoves
<1> QED BY <1>1, TypeCorrect, PermissionIsCurrent, PTL DEF Spec, StaleClaimsAreReleased

\* No run is admitted under the owner's "off": the launching flip compares
\* the claim with the choice that stands at that moment (engine.ts).
THEOREM LaunchesAreAlwaysConsented == Spec => LaunchesAreConsented
<1>1. TypeOK /\ PermissionInv /\ [Next]_vars
        => [run.st = "assigned" /\ run'.st = "launched" /\ shared =>
              Effective(Owner) # "off" /\ choice[Owner].rev = run.rev]_vars
  <2> SUFFICES ASSUME TypeOK, PermissionInv, [Next]_vars, run.st = "assigned",
                      run'.st = "launched", shared
               PROVE  Effective(Owner) # "off" /\ choice[Owner].rev = run.rev
    OBVIOUS
  <2>1. run' # ReleasedRun
    BY DEF ReleasedRun, NoRun
  <2>2. LaunchRun
    BY <2>1, EveryStepReleases DEF RunMoves
  <2> QED BY <2>2 DEF LaunchRun, ClaimIsCurrent, OwnerIssueConsent, Effective
<1> QED BY <1>1, TypeCorrect, PermissionIsCurrent, PTL DEF Spec, LaunchesAreConsented

-----------------------------------------------------------------------------
(* The tables implement PersonalPermission: each batch is one of its steps, *)
(* or changes nothing of what it speaks of.                                 *)

\* Sharing implements a step of the promise.
LEMMA ShareImpl ==
  ASSUME TypeOK, PermissionInv, PermissionInv', Share
  PROVE  Promise!Share
<1>1. /\ ~shared /\ shared' = TRUE /\ UNCHANGED <<member, issue>>
      /\ \A u \in People : choice'[u].rev = 0 /\ grant'[u].rev = 0
  BY DEF Share, PermissionInv, NothingSaid
<1>2. \A u \in People : /\ choice'[u].value = "unset" /\ choice'[u].source = "none"
                        /\ grant'[u].value = "unset"
  BY <1>1 DEF PermissionInv, ChoicesAreOld, GrantsAreCurrent
<1>3. Perm' = Promise!Unset /\ Coming' = Promise!Unset /\ Handed' = Promise!NotInherited
  BY <1>2 DEF Perm, Coming, Handed, Promise!Unset, Promise!NotInherited, Effective, Future,
              Inherited, People, Promise!People
<1>4. Promise!Release
  BY WorkIs DEF Promise!Release, Share, Release
<1> QED BY <1>1, <1>3, <1>4 DEF Promise!Share

\* What nobody touches stays.
LEMMA Untouched ==
  ASSUME TypeOK, UNCHANGED <<member, issue, choice>>
  PROVE  /\ Perm' = Perm /\ Handed' = Handed
         /\ UNCHANGED <<schedule, grant>> => Coming' = Coming
         /\ UNCHANGED <<shared, run>> => Work' = Work
BY WorkIs DEF Perm, Handed, Coming, Effective, Future, Inherited, Stamp, ScheduleThere

\* Joining implements a step of the promise.
LEMMA JoinImpl ==
  ASSUME TypeOK, PermissionInv, AcceptInvitation
  PROVE  Promise!Join
<1>1. /\ shared /\ ~member.in /\ member'.in = TRUE /\ member'.rev = member.rev + 1
      /\ UNCHANGED <<shared, issue, choice, schedule, grant, run>>
  BY DEF AcceptInvitation, TypeOK
<1>2. ASSUME NEW u \in People
      PROVE  Effective(u)' = Effective(u) /\ Future(u)' = Future(u)
  <2>1. CASE u = Owner
    BY <1>1, <2>1 DEF Effective, Future, Stamp, ScheduleThere
  <2>2. CASE u # Owner
    <3>1. /\ u = Member /\ Stamp(u) = member.rev /\ Stamp(u)' = member.rev + 1
      BY <1>1, <2>2 DEF People, Stamp
    <3>2. choice[u].value = "unset" /\ Future(u) = "unset"
      BY <1>1, <3>1, Fields DEF PermissionInv, NothingSaid, GrantsAreCurrent, Future
    <3>3. grant[u].member # member.rev + 1
      BY <3>1, Fields DEF PermissionInv, GrantsAreCurrent
    <3> QED BY <1>1, <3>1, <3>2, <3>3 DEF Effective, Future, ScheduleThere
  <2> QED BY <2>1, <2>2
<1>3. Perm' = Perm /\ Coming' = Coming
  BY <1>2 DEF Perm, Coming
<1>4. Handed' = Handed
  BY <1>1, <1>2 DEF Handed, Inherited
<1>5. Work' = Work
  BY <1>1, WorkIs
<1> QED BY <1>1, <1>3, <1>4, <1>5 DEF Promise!Join

\* Leaving, or being removed, implements a step of the promise.
LEMMA LeaveImpl ==
  ASSUME TypeOK, PermissionInv, PermissionInv', RemoveMember
  PROVE  Promise!Leave
<1>1. /\ member.in /\ member'.in = FALSE /\ UNCHANGED <<shared, issue, schedule, run>>
      /\ choice'[Owner] = choice[Owner] /\ grant'[Owner] = grant[Owner]
  BY PeopleAssumption DEF RemoveMember, TypeOK, People
<1>2. /\ choice'[Member].value = "unset"
      /\ grant'[Member].rev = 0 \/ grant'[Member].member < member'.rev
      /\ Stamp(Member)' = member'.rev /\ Stamp(Owner)' = Stamp(Owner)
      /\ grant'[Member].rev = 0 => grant'[Member].value = "unset"
  BY <1>1, PeopleAssumption DEF PermissionInv, NothingSaid, GrantsAreCurrent, Stamp, People
<1>3. Effective(Member)' = "unset" /\ Effective(Owner)' = Effective(Owner)
      /\ Inherited(Owner)' = Inherited(Owner)
  BY <1>1, <1>2 DEF Effective, Inherited
<1>4. Future(Member)' = "unset" /\ Future(Owner)' = Future(Owner)
  <2>1. TypeOK'
    BY TypeStep DEF Next
  <2>2. grant'[Member].member \in Nat /\ member'.rev \in Nat
    BY <2>1 DEF TypeOK, Grants, People
  <2> QED BY <1>1, <1>2, <2>2 DEF Future, ScheduleThere
<1>5. Perm' = [Perm EXCEPT ![Member] = "unset"] /\ Coming' = [Coming EXCEPT ![Member] = "unset"]
  BY <1>3, <1>4, PeopleAssumption DEF Perm, Coming, People
<1>6. Handed' = [Handed EXCEPT ![Member] = FALSE]
  BY <1>3, PeopleAssumption DEF Handed, People
<1>7. Work' = Work
  BY <1>1, WorkIs
<1> QED BY <1>1, <1>5, <1>6, <1>7 DEF Promise!Leave

\* Filing, by a person or by the schedule.
LEMMA FileImpl ==
  ASSUME TypeOK, PermissionInv, NEW place \in Open, NEW v \in {"on", "off", "unset"},
         OwnerCreates(place, v) \/ OthersCreate(place, v)
  PROVE  \E first \in [Promise!People -> Promise!Values] : Promise!File(first)
<1>1. /\ issue.place = "none" /\ issue'.place = place /\ issue'.epoch = issue.epoch
      /\ UNCHANGED <<shared, member, schedule, grant, run>> /\ run.st # "assigned"
      /\ \A u \in People : choice[u].value = "unset" /\ choice[u].source = "none"
                           /\ Stamp(u)' = Stamp(u)
  BY DEF OwnerCreates, OthersCreate, FiledAt, TypeOK, PermissionInv, NothingSaid,
         ChoicesAreOld, Stamp
<1>2. \A u \in People : /\ choice'[u] = choice[u] \/ choice'[u].source = "issue"
                        /\ choice'[u].value \in {"on", "off", "unset"}
                        /\ choice'[u] = choice[u] \/ shared
                        /\ u = Member /\ choice'[u].value # "unset" => member.in
  <2>1. ASSUME NEW u \in People, NEW w \in {"on", "off", "unset"}
        PROVE  /\ Said(u, w, "issue")[u].source = "issue" /\ Said(u, w, "issue")[u].value = w
               /\ \A x \in People \ {u} : Said(u, w, "issue")[x] = choice[x]
    BY DEF Said, TypeOK
  <2>2. CASE OwnerCreates(place, v)
    BY <1>1, <2>1, <2>2, PeopleAssumption DEF OwnerCreates, People
  <2>3. CASE OthersCreate(place, v)
    BY <1>1, <2>1, <2>3, PeopleAssumption DEF OthersCreate
  <2> QED BY <2>2, <2>3
<1>3. \A u \in People : /\ Effective(u)' \in {"unset", choice'[u].value}
                        /\ ~Inherited(u)' /\ ~Inherited(u)
  BY <1>1, <1>2 DEF Effective, Inherited
<1>4. Perm' \in [Promise!People -> Promise!Values]
  BY <1>2, <1>3 DEF Perm, Promise!People, Promise!Values, People
<1>5. ~shared => Perm' = Promise!Unset
  BY <1>1, <1>2, <1>3 DEF Perm, Promise!Unset, Promise!People, People
<1>6. \A u \in Promise!People : Promise!Belongs(u) \/ Perm'[u] = "unset"
  BY <1>2, <1>3 DEF Perm, Promise!Belongs, Promise!People, People
<1>7. Handed' = Handed /\ Coming' = Coming
  BY <1>1, <1>3 DEF Handed, Coming, Future, ScheduleThere
<1>8. Work' = Work
  BY <1>1, WorkIs
<1>9. Promise!File(Perm')
  BY <1>1, <1>5, <1>6, <1>7, <1>8 DEF Promise!File, Open
<1> QED BY <1>4, <1>9

\* A scheduled filing implements a step of the promise.
LEMMA FileScheduledImpl ==
  ASSUME TypeOK, PermissionInv, NEW place \in Open, ScheduleCreates(place)
  PROVE  Promise!FileScheduled
<1>1. /\ issue.place = "none" /\ issue'.place = place /\ issue'.epoch = issue.epoch
      /\ UNCHANGED <<shared, member, schedule, grant, run>> /\ run.st # "assigned"
      /\ \A u \in People : choice[u].value = "unset" /\ choice[u].source = "none"
                           /\ Stamp(u)' = Stamp(u) /\ Future(u)' = Future(u)
                           /\ Future(u) \in {"on", "off", "unset"}
  BY DEF ScheduleCreates, FiledAt, TypeOK, PermissionInv, NothingSaid, ChoicesAreOld, Stamp,
         Future, ScheduleThere, Grants
<1>2. \A u \in People : Future(u) = "unset" \/ shared
  BY DEF PermissionInv, NothingSaid, GrantsAreCurrent, Future
<1>3. Future(Member) # "unset" => member.in
  BY Fields, PeopleAssumption
     DEF PermissionInv, NothingSaid, GrantsAreCurrent, Future, Stamp, People
<1>4. ASSUME NEW u \in People
      PROVE  LET w == IF Future(u) = "on" \/ u = Owner THEN Future(u) ELSE "unset" IN
             /\ w = "unset" => choice'[u] = choice[u]
             /\ w # "unset" => /\ choice'[u].value = w /\ choice'[u].epoch = issue.epoch
                               /\ choice'[u].member = Stamp(u)
                               /\ choice'[u].source = "schedule"
  <2> DEFINE w == IF Future(u) = "on" \/ u = Owner THEN Future(u) ELSE "unset"
  <2>1. InheritedValue(u) = w
    BY <1>3, PeopleAssumption DEF InheritedValue, People
  <2>2. choice'[u] = IF w = "unset" THEN choice[u] ELSE Said(u, w, "schedule")[u]
    BY <1>2, <2>1 DEF ScheduleCreates
  <2>3. Said(u, w, "schedule")[u] =
          [value |-> w, rev |-> choice[u].rev + 1, epoch |-> issue.epoch,
           member |-> Stamp(u), source |-> "schedule"]
    BY DEF Said, TypeOK
  <2> HIDE DEF w
  <2>4. /\ w = "unset" => choice'[u] = choice[u]
        /\ w # "unset" => /\ choice'[u].value = w /\ choice'[u].epoch = issue.epoch
                          /\ choice'[u].member = Stamp(u) /\ choice'[u].source = "schedule"
    BY <2>2, <2>3
  <2> QED BY <2>4 DEF w
<1>5. ASSUME NEW u \in People
      PROVE  /\ Effective(u)' = IF Future(u) = "on" \/ u = Owner THEN Future(u) ELSE "unset"
             /\ (Inherited(u) /\ Effective(u) = "on")' <=> Future(u) = "on"
  BY <1>1, <1>4 DEF Effective, Inherited
<1>6. /\ Perm' = [u \in Promise!People |->
                    IF Coming[u] = "on" \/ u = Owner THEN Coming[u] ELSE "unset"]
      /\ Coming' = Coming
  BY <1>1, <1>5 DEF Perm, Coming, Promise!People, People
<1>7. Handed' = [u \in Promise!People |-> Coming[u] = "on"]
  BY <1>5 DEF Handed, Coming, Promise!People, People
<1>8. Work' = Work
  BY <1>1, WorkIs
<1> QED BY <1>1, <1>6, <1>7, <1>8 DEF Promise!FileScheduled, Open

\* Only the person who speaks says something else, and it is that person's
\* own word.
LEMMA Speaks ==
  ASSUME TypeOK, NEW who \in People, NEW v, choice' = Said(who, v, "issue"),
         issue'.epoch = issue.epoch, member' = member
  PROVE  /\ Effective(who)' = v /\ ~Inherited(who)'
         /\ \A w \in People \ {who} : /\ choice'[w] = choice[w]
                                      /\ Effective(w)' = Effective(w)
                                      /\ Inherited(w)' = Inherited(w)
<1>1. /\ Said(who, v, "issue")[who] =
           [value |-> v, rev |-> choice[who].rev + 1, epoch |-> issue.epoch,
            member |-> Stamp(who), source |-> "issue"]
      /\ \A w \in People \ {who} : Said(who, v, "issue")[w] = choice[w]
  BY DEF Said, TypeOK
<1>2. /\ choice'[who].value = v /\ choice'[who].epoch = issue.epoch
      /\ choice'[who].member = Stamp(who) /\ choice'[who].source = "issue"
      /\ \A w \in People \ {who} : choice'[w] = choice[w]
  BY <1>1
<1> QED BY <1>2 DEF Effective, Inherited, Stamp

\* A choice about one issue implements a step of the promise.
LEMMA ChooseImpl ==
  ASSUME TypeOK, PermissionInv, NEW h \in Handlers, NEW v \in {"on", "off"},
         WriteIssueChoice(h, v)
  PROVE  \E u \in Promise!People : Promise!Choose(u, v)
<1>1. handler[h].pc = "choice" /\ handler[h].who \in People
  BY DEF WriteIssueChoice, TypeOK, Records, Idle, Absent
<1>2. PICK who \in People : who = handler[h].who
  BY <1>1
<1>3. /\ shared /\ issue.place # "none" /\ issue.place # "done"
      /\ Belongs(who) /\ choice' = Said(who, v, "issue")
      /\ IF who = Owner THEN run' = ReleasedRun ELSE run' = run
      /\ UNCHANGED <<shared, member, issue, schedule, grant>>
  BY <1>1, <1>2 DEF WriteIssueChoice, StillMember, PermissionInv, RequestsAreSound, Release,
                    Releases
<1>4. \A w \in People \ {who} : choice'[w] = choice[w]
  BY <1>3, Speaks
<1>5. /\ Effective(who)' = v /\ ~Inherited(who)'
      /\ \A w \in People \ {who} : /\ Effective(w)' = Effective(w)
                                   /\ Inherited(w)' = Inherited(w)
  BY <1>3, Speaks
<1>6. Perm' = [Perm EXCEPT ![who] = v] /\ Coming' = Coming
  BY <1>3, <1>5 DEF Perm, Coming, Future, Stamp, ScheduleThere
<1>7. Handed' = [Handed EXCEPT ![who] = FALSE]
  BY <1>3, <1>5 DEF Handed
<1>8. IF who = Owner THEN Promise!Release ELSE Work' = Work
  <2>1. CASE who = Owner
    BY <1>3, <2>1, WorkIs DEF Promise!Release
  <2>2. CASE who # Owner
    <3>1. choice'[Owner] = choice[Owner]
      BY <1>4, <2>2 DEF People
    <3> QED BY <1>3, <2>2, <3>1, WorkIs
  <2> QED BY <2>1, <2>2
<1>9. Promise!Belongs(who) /\ issue.place \in {"active", "backlog"}
  BY <1>3 DEF Promise!Belongs, Belongs, TypeOK, Places, Open
<1>10. Promise!Choose(who, v)
  BY <1>3, <1>6, <1>7, <1>8, <1>9 DEF Promise!Choose
<1> QED BY <1>10 DEF People, Promise!People

\* A new schedule implements a step of the promise.
LEMMA NewScheduleImpl ==
  ASSUME TypeOK, PermissionInv, NEW u \in People, NEW v \in {"on", "off", "unset"},
         CreateSchedule(u, v)
  PROVE  Promise!NewSchedule(u, v) \/ UNCHANGED Promise!vars
<1>1. /\ schedule.st = "none" /\ schedule.epoch = 0 /\ Belongs(u)
      /\ schedule'.st = "there" /\ schedule'.epoch = 0
      /\ UNCHANGED <<shared, member, issue, choice, run, handler>>
      /\ \A w \in People : /\ grant[w].rev = 0 /\ grant[w].value = "unset"
                           /\ Future(w) = "unset" /\ Stamp(w)' = Stamp(w)
  BY DEF CreateSchedule, PermissionInv, NothingSaid, GrantsAreCurrent, TypeOK, Future,
         ScheduleThere, Stamp
<1>2. Perm' = Perm /\ Handed' = Handed /\ Work' = Work
  BY <1>1, Untouched
<1>3. \A w \in People : Coming[w] = "unset"
  BY <1>1 DEF Coming
<1>4. CASE shared
  <2>1. ASSUME NEW w \in People
        PROVE  Future(w)' = IF w = u THEN v ELSE IF w = Owner THEN "off" ELSE "unset"
    <3>1. grant'[w] = IF w = u /\ v # "unset" THEN Granted(w, v, 0)
                      ELSE IF w = Owner /\ u # Owner THEN Granted(w, "off", 0)
                      ELSE grant[w]
      BY <1>4 DEF CreateSchedule
    <3>2. \A x : /\ Granted(w, x, 0).value = x /\ Granted(w, x, 0).epoch = 0
                 /\ Granted(w, x, 0).member = Stamp(w)
      BY DEF Granted
    <3>3. w = u \/ w = Owner \/ u = Owner
      BY DEF People
    <3> QED BY <1>1, <3>1, <3>2, <3>3 DEF Future, ScheduleThere
  <2>2. Coming' = [w \in Promise!People |->
                     IF w = u THEN v ELSE IF w = Owner THEN "off" ELSE Coming[w]]
    BY <1>3, <2>1 DEF Coming, Promise!People, People
  <2>3. Promise!Belongs(u) /\ Coming = Promise!Unset
    BY <1>1 DEF Promise!Belongs, Belongs, Coming, Promise!Unset, Promise!People, People
  <2> QED BY <1>1, <1>2, <1>4, <2>2, <2>3 DEF Promise!NewSchedule
<1>5. CASE ~shared
  <2>1. grant' = grant
    BY <1>1, <1>5 DEF CreateSchedule, Belongs, TypeOK
  <2>2. \A w \in People : Future(w)' = "unset"
    BY <1>1, <2>1 DEF Future
  <2>3. Coming' = Coming
    BY <1>1, <2>2 DEF Coming
  <2> QED BY <1>1, <1>2, <2>3 DEF Promise!vars
<1> QED BY <1>4, <1>5

\* What taking back inherited choices does to what people say.
LEMMA TakenBack ==
  ASSUME TypeOK, PermissionInv, NEW users \in SUBSET People, NEW v \in {"off", "unset"},
         choice' = Revoked(users, v), UNCHANGED <<shared, member, issue>>, NEW u \in People
  PROVE  /\ Effective(u)' = IF u \in users /\ Inherited(u) /\ Effective(u) = "on"
                            THEN IF u = Owner THEN v ELSE "unset"
                            ELSE Effective(u)
         /\ (Inherited(u) /\ Effective(u) = "on")' <=>
              u \notin users /\ Inherited(u) /\ Effective(u) = "on"
<1>1. choice'[u] = IF u \in users /\ Inherited(u)
                   THEN [value |-> IF u = Owner THEN v ELSE "unset", rev |-> choice[u].rev + 1,
                         epoch |-> choice[u].epoch, member |-> choice[u].member,
                         source |-> "none"]
                   ELSE choice[u]
  BY RevokedRows
<1>2. Stamp(u)' = Stamp(u)
  BY DEF Stamp
<1>3. CASE u \in users /\ Inherited(u)
  <2>1. /\ choice'[u].value = (IF u = Owner THEN v ELSE "unset") /\ choice'[u].source = "none"
        /\ choice'[u].epoch = choice[u].epoch /\ choice'[u].member = choice[u].member
    BY <1>1, <1>3
  <2> QED BY <1>2, <1>3, <2>1 DEF Effective, Inherited
<1>4. CASE ~(u \in users /\ Inherited(u))
  BY <1>1, <1>2, <1>4 DEF Effective, Inherited
<1> QED BY <1>3, <1>4

\* A choice about future issues implements a step of the promise.
LEMMA ChooseFutureImpl ==
  ASSUME TypeOK, PermissionInv, NEW h \in Handlers, NEW v \in {"on", "off"},
         WriteScheduleChoice(h, v)
  PROVE  \E u \in Promise!People : Promise!ChooseFuture(u, v)
<1>1. handler[h].pc = "grant" /\ handler[h].who \in People
  BY DEF WriteScheduleChoice, TypeOK, Records, Idle, Absent
<1>2. PICK who \in People : who = handler[h].who
  BY <1>1
<1>3. /\ shared /\ Belongs(who) /\ ScheduleThere
      /\ grant' = [grant EXCEPT ![who] = Granted(who, v, schedule.epoch)]
      /\ IF v = "off" THEN choice' = Revoked({who}, "off") /\ RevokeReleases({who})
         ELSE choice' = choice /\ run' = run
      /\ UNCHANGED <<shared, member, issue, schedule>>
  BY <1>1, <1>2 DEF WriteScheduleChoice, StillMember, PermissionInv, RequestsAreSound
<1>4. Future(who)' = v /\ \A w \in People \ {who} : Future(w)' = Future(w)
  <2>1. /\ grant'[who].value = v /\ grant'[who].epoch = schedule.epoch
        /\ grant'[who].member = Stamp(who)
        /\ \A w \in People \ {who} : grant'[w] = grant[w]
    BY <1>3 DEF Granted, TypeOK
  <2> QED BY <1>3, <2>1 DEF Future, ScheduleThere, Stamp
<1>5. Coming' = [Coming EXCEPT ![who] = v]
  BY <1>4 DEF Coming
<1>6. Promise!Belongs(who)
  BY <1>3 DEF Promise!Belongs, Belongs
<1>7. Handed[who] <=> Inherited(who) /\ Effective(who) = "on"
  BY DEF Handed
<1>8. CASE v = "on"
  <2>1. Perm' = Perm /\ Handed' = Handed /\ Work' = Work
    BY <1>3, <1>8, Untouched
  <2>2. Promise!ChooseFuture(who, v)
    BY <1>3, <1>5, <1>6, <1>8, <2>1 DEF Promise!ChooseFuture
  <2> QED BY <2>2 DEF People, Promise!People
<1>9. CASE v = "off"
  <2>1. choice' = Revoked({who}, "off") /\ RevokeReleases({who}) /\ {who} \in SUBSET People
    BY <1>3, <1>9
  <2>2. ASSUME NEW u \in People
        PROVE  /\ Effective(u)' = IF u = who /\ Inherited(u) /\ Effective(u) = "on"
                                  THEN IF u = Owner THEN "off" ELSE "unset"
                                  ELSE Effective(u)
               /\ (Inherited(u) /\ Effective(u) = "on")' <=>
                    u # who /\ Inherited(u) /\ Effective(u) = "on"
    BY <1>3, <2>1, TakenBack
  <2>3. CASE Handed[who]
    <3>1. Perm' = [Perm EXCEPT ![who] = IF who = Owner THEN "off" ELSE "unset"]
      BY <1>7, <2>2, <2>3 DEF Perm
    <3>2. Handed' = [Handed EXCEPT ![who] = FALSE]
      BY <2>2 DEF Handed
    <3>3. IF who = Owner THEN Promise!Release ELSE Work' = Work
      <4>1. CASE who = Owner
        BY <1>7, <2>1, <2>3, <4>1, WorkIs DEF RevokeReleases, Inherited, Promise!Release
      <4>2. CASE who # Owner
        <5>1. choice'[Owner] = choice[Owner] /\ run' = run
          BY <2>1, <4>2, RevokedRows DEF RevokeReleases, People
        <5> QED BY <1>3, <4>2, <5>1, WorkIs
      <4> QED BY <4>1, <4>2
    <3>4. Promise!ChooseFuture(who, v)
      BY <1>3, <1>5, <1>6, <1>9, <2>3, <3>1, <3>2, <3>3 DEF Promise!ChooseFuture
    <3> QED BY <3>4 DEF People, Promise!People
  <2>4. CASE ~Handed[who]
    <3>1. Perm' = Perm
      BY <1>7, <2>2, <2>4 DEF Perm
    <3>2. Handed' = Handed
      BY <1>7, <2>2, <2>4 DEF Handed
    <3>3. (who = Owner /\ Promise!Release) \/ Work' = Work
      <4>1. CASE who = Owner /\ choice[Owner].source = "schedule"
        BY <2>1, <4>1, WorkIs DEF RevokeReleases, Promise!Release
      <4>2. CASE ~(who = Owner /\ choice[Owner].source = "schedule")
        <5>1. choice'[Owner] = choice[Owner] /\ run' = run
          BY <2>1, <4>2, RevokedRows DEF RevokeReleases, People, Inherited
        <5> QED BY <1>3, <5>1, WorkIs
      <4> QED BY <4>1, <4>2
    <3>4. Promise!ChooseFuture(who, v)
      BY <1>3, <1>5, <1>6, <1>9, <2>4, <3>1, <3>2, <3>3 DEF Promise!ChooseFuture
    <3> QED BY <3>4 DEF People, Promise!People
  <2> QED BY <2>3, <2>4
<1> QED BY <1>8, <1>9

\* A new definition: members start over at off, the owner keeps the word.
LEMMA Redefines ==
  ASSUME TypeOK, PermissionInv, ScheduleThere, UNCHANGED member,
         schedule'.st = schedule.st, schedule'.epoch = schedule.epoch + 1,
         grant' = Invalidated(schedule.epoch + 1)
  PROVE  Coming' = Promise!Redefined
<1>1. schedule.epoch + 1 \in Nat
  BY Fields
<1>2. ASSUME NEW u \in People
      PROVE  Future(u)' = IF u = Owner \/ Future(u) = "unset" THEN Future(u) ELSE "off"
  <2>1. /\ grant'[u].member = grant[u].member /\ Stamp(u)' = Stamp(u)
        /\ grant[u].rev = 0 => grant'[u] = grant[u] /\ grant[u].value = "unset"
        /\ grant[u].rev # 0 => /\ grant'[u].epoch = schedule.epoch + 1
                               /\ grant[u].epoch = schedule.epoch /\ grant[u].value # "unset"
                               /\ grant'[u].value = IF u = Owner THEN grant[u].value ELSE "off"
    BY <1>1, InvalidatedInv DEF PermissionInv, GrantsAreCurrent, Stamp
  <2> QED BY <2>1 DEF Future, ScheduleThere
<1> QED BY <1>2 DEF Coming, Promise!Redefined, Promise!People, People

\* Taking choices back implements a step of the promise.
LEMMA TakeBackImpl ==
  ASSUME TypeOK, PermissionInv, choice' = Revoked(People, "unset"), RevokeReleases(People),
         UNCHANGED <<shared, member, issue>>
  PROVE  Promise!TakeBack
<1>1. ASSUME NEW u \in People
      PROVE  /\ Effective(u)' = IF Inherited(u) /\ Effective(u) = "on" THEN "unset"
                                ELSE Effective(u)
             /\ ~(Inherited(u) /\ Effective(u) = "on")'
  <2>1. People \in SUBSET People
    OBVIOUS
  <2>2. /\ Effective(u)' = IF u \in People /\ Inherited(u) /\ Effective(u) = "on"
                           THEN IF u = Owner THEN "unset" ELSE "unset" ELSE Effective(u)
        /\ (Inherited(u) /\ Effective(u) = "on")' <=>
             u \notin People /\ Inherited(u) /\ Effective(u) = "on"
    BY <2>1, TakenBack
  <2> QED BY <2>2
<1>2. Perm' = [u \in Promise!People |-> IF Handed[u] THEN "unset" ELSE Perm[u]]
  BY <1>1 DEF Perm, Handed, Promise!People, People
<1>3. Handed' = Promise!NotInherited
  BY <1>1 DEF Handed, Promise!NotInherited, Promise!People, People
<1>4. Promise!Release \/ (~Handed[Owner] /\ Work' = Work)
  <2>1. CASE choice[Owner].source = "schedule"
    BY <2>1, WorkIs DEF RevokeReleases, People, Promise!Release
  <2>2. CASE choice[Owner].source # "schedule"
    <3>1. choice'[Owner] = choice[Owner] /\ run' = run /\ ~Handed[Owner]
      BY <2>2, RevokedRows DEF RevokeReleases, People, Inherited, Handed
    <3> QED BY <3>1, WorkIs
  <2> QED BY <2>1, <2>2
<1> QED BY <1>2, <1>3, <1>4 DEF Promise!TakeBack

\* Editing or deleting the schedule implements a step of the promise.
LEMMA RedefineImpl ==
  ASSUME TypeOK, PermissionInv, EditSchedule \/ DeleteSchedule
  PROVE  Promise!Redefine \/ Promise!DropSchedule
<1>1. Promise!TakeBack
  BY TakeBackImpl DEF EditSchedule, DeleteSchedule
<1>2. CASE EditSchedule
  <2>1. Coming' = Promise!Redefined
    BY <1>2, Redefines DEF EditSchedule, TypeOK
  <2> QED BY <1>1, <1>2, <2>1 DEF EditSchedule, Promise!Redefine
<1>3. CASE DeleteSchedule
  <2>1. schedule'.st = "gone"
    BY <1>3 DEF DeleteSchedule, TypeOK
  <2>2. Coming' = Promise!Unset
    BY <2>1 DEF Coming, Future, ScheduleThere, Promise!Unset, Promise!People, People
  <2> QED BY <1>1, <1>3, <2>2 DEF DeleteSchedule, Promise!DropSchedule
<1> QED BY <1>2, <1>3

\* In a new epoch everybody starts over, whether the rows are rewritten or
\* left behind.
LEMMA NothingCounts ==
  ASSUME TypeOK, PermissionInv, issue'.epoch = issue.epoch + 1,
         choice' = choice \/ choice' = ResetRows(choice, issue.epoch + 1)
  PROVE  \A u \in People : Effective(u)' = "unset"
<1> SUFFICES ASSUME NEW u \in People PROVE Effective(u)' = "unset"
  OBVIOUS
<1>1. /\ choice \in [People -> Rows] /\ issue.epoch + 1 \in Nat /\ issue.epoch \in Nat
      /\ choice[u].epoch <= issue.epoch /\ choice[u].epoch \in Nat
      /\ choice[u].rev = 0 => choice[u].value = "unset"
  BY Fields DEF TypeOK, PermissionInv, ChoicesAreOld
<1>2. CASE choice' = choice
  <2>1. choice'[u].epoch # issue'.epoch
    BY <1>1, <1>2
  <2> QED BY <2>1 DEF Effective
<1>3. CASE choice' = ResetRows(choice, issue.epoch + 1)
  <2>1. choice'[u] = IF choice[u].rev = 0 THEN choice[u]
                     ELSE [value |-> "unset", rev |-> choice[u].rev + 1,
                           epoch |-> issue.epoch + 1, member |-> choice[u].member,
                           source |-> "none"]
    BY <1>1, <1>3, ResetRowsRows
  <2>2. choice'[u].value = "unset"
    BY <1>1, <2>1
  <2> QED BY <2>2 DEF Effective
<1> QED BY <1>2, <1>3

\* A fresh start: a claim of the old epoch is of no use.
LEMMA StartsOver ==
  ASSUME TypeOK, PermissionInv, shared, shared' = shared, issue'.epoch = issue.epoch + 1,
         run' \in {run, ReleasedRun}, \A u \in People : Effective(u)' = "unset"
  PROVE  Perm' = Promise!Unset /\ Handed' = Promise!NotInherited /\ Promise!Release
<1>1. Perm' = Promise!Unset /\ Handed' = Promise!NotInherited
  BY DEF Perm, Handed, Promise!Unset, Promise!NotInherited, Promise!People, People
<1>2. CASE run' = ReleasedRun
  BY <1>1, <1>2, WorkIs DEF Promise!Release
<1>3. CASE run' = run
  <2>1. run.st = "assigned" => run.epoch # issue'.epoch
    <3>1. run.st = "assigned" => run.epoch <= issue.epoch /\ run.epoch \in Nat
      BY Fields DEF PermissionInv, DoneIsFresh
    <3>2. issue.epoch \in Nat
      BY Fields
    <3> QED BY <3>1, <3>2
  <2>2. ~Deliverable'
    BY <1>3, <2>1 DEF Deliverable, ClaimIsCurrent
  <2>3. Work' = IF run.st = "launched" THEN "launched" ELSE "none"
    BY <1>3, <2>2 DEF Work
  <2>4. Promise!Release
    BY <2>3 DEF Work, Promise!Release
  <2> QED BY <1>1, <2>4
<1> QED BY <1>2, <1>3

\* Before sharing nobody has said anything, and any assigned run is admitted.
LEMMA UnsharedKeeps ==
  ASSUME TypeOK, PermissionInv, ~shared, UNCHANGED <<shared, member, schedule, grant, choice, run>>
  PROVE  Perm' = Perm /\ Handed' = Handed /\ Coming' = Coming /\ Work' = Work
<1>1. \A u \in People : /\ choice[u].value = "unset" /\ choice[u].source = "none"
                        /\ Stamp(u)' = Stamp(u)
  BY DEF PermissionInv, NothingSaid, ChoicesAreOld, Stamp
<1>2. Perm' = Perm /\ Handed' = Handed
  BY <1>1 DEF Perm, Handed, Effective, Inherited
<1>3. Coming' = Coming
  BY <1>1 DEF Coming, Future, ScheduleThere
<1>4. Work' = Work
  BY DEF Work, Deliverable
<1> QED BY <1>2, <1>3, <1>4

\* Without a new epoch what people say stays, and so does the work unless it
\* is released.
LEMMA SameEpochKeeps ==
  ASSUME TypeOK, issue'.epoch = issue.epoch, UNCHANGED <<shared, member, schedule, grant, choice>>
  PROVE  /\ Perm' = Perm /\ Handed' = Handed /\ Coming' = Coming
         /\ run' = run => Work' = Work
         /\ run' = ReleasedRun => Promise!Release
<1>1. Perm' = Perm /\ Handed' = Handed /\ Coming' = Coming
  BY DEF Perm, Handed, Coming, Effective, Inherited, Future, ScheduleThere, Stamp
<1> QED BY <1>1, WorkIs DEF Promise!Release

\* What a decision leaves alone, whoever takes it.
LEMMA Decides ==
  ASSUME TypeOK, PermissionInv, NEW h \in Handlers, NEW to \in Places,
         handler[h].pc = "decide", Stands(handler[h]), Moves(handler[h], to),
         UNCHANGED <<member, schedule, grant>>
  PROVE  /\ issue.place # "none" /\ issue'.place = to /\ to \in {"active", "backlog", "done"}
         /\ issue'.epoch = IF Promise!Resets THEN issue.epoch + 1 ELSE issue.epoch
         /\ Crosses(handler[h], to) <=> Promise!Resets
         /\ handler[h].who \in People /\ (handler[h].shared => shared)
         /\ Coming' = Coming
<1>1. /\ handler[h].from \in Places /\ handler[h].who \in People
      /\ handler[h].shared => shared
  BY DecisionRecord DEF PermissionInv, RequestsAreSound
<1>2. issue.place = handler[h].from
  BY DEF Stands
<1>3. Coming' = Coming
  BY DEF Coming, Future, ScheduleThere, Stamp
<1>4. /\ issue'.place = to
      /\ issue'.epoch = IF Crosses(handler[h], to) THEN issue.epoch + 1 ELSE issue.epoch
  BY DEF Moves
<1> QED BY <1>1, <1>2, <1>3, <1>4 DEF Crosses, Promise!Resets, Places, Open

\* A decision that moves an issue implements a step of the promise.
LEMMA TransitionImpl ==
  ASSUME TypeOK, PermissionInv, NEW h \in Handlers, NEW to \in Places,
         NEW v \in {"on", "off", "keep"}, Transition(h, to, v)
  PROVE  \E u \in Promise!People, w \in {"on", "off"} : Promise!Decide(u, w)
<1>1. /\ handler[h].pc = "decide" /\ Stands(handler[h]) /\ Moves(handler[h], to)
      /\ handler[h].shared /\ Belongs(handler[h].who) /\ run' = ReleasedRun
      /\ v # "keep" => to = "active"
      /\ choice' = IF Crosses(handler[h], to) THEN ResetRows(choice, issue.epoch + 1)
                   ELSE IF v = "keep" THEN choice ELSE Said(handler[h].who, v, "issue")
      /\ UNCHANGED <<shared, member, schedule, grant>>
  BY DEF Transition, StillMember, Release
<1>2. /\ issue.place # "none" /\ issue'.place = to /\ to \in {"active", "backlog", "done"}
      /\ issue'.epoch = IF Promise!Resets THEN issue.epoch + 1 ELSE issue.epoch
      /\ Crosses(handler[h], to) <=> Promise!Resets
      /\ handler[h].who \in People /\ shared /\ Coming' = Coming
  BY <1>1, Decides
<1>3. PICK who \in People : who = handler[h].who
  BY <1>2
<1>4. Promise!Belongs(who) /\ Promise!Release
  BY <1>1, <1>3, WorkIs DEF Promise!Belongs, Belongs, Promise!Release
<1>5. CASE Promise!Resets
  <2>1. \A u \in People : Effective(u)' = "unset"
    BY <1>1, <1>2, <1>5, NothingCounts
  <2>2. Perm' = Promise!Unset /\ Handed' = Promise!NotInherited
    BY <1>1, <1>2, <1>5, <2>1, StartsOver
  <2>3. Promise!Decide(who, "on")
    BY <1>1, <1>2, <1>4, <1>5, <2>2 DEF Promise!Decide
  <2> QED BY <2>3 DEF People, Promise!People
<1>6. CASE ~Promise!Resets /\ v = "keep"
  <2>1. Perm' = Perm /\ Handed' = Handed
    BY <1>1, <1>2, <1>6, SameEpochKeeps
  <2>2. Promise!Decide(who, "on")
    BY <1>1, <1>2, <1>4, <1>6, <2>1 DEF Promise!Decide
  <2> QED BY <2>2 DEF People, Promise!People
<1>7. CASE ~Promise!Resets /\ v # "keep"
  <2>1. choice' = Said(who, v, "issue")
    BY <1>1, <1>2, <1>3, <1>7
  <2>2. /\ Effective(who)' = v /\ ~Inherited(who)'
        /\ \A w \in People \ {who} : /\ Effective(w)' = Effective(w)
                                     /\ Inherited(w)' = Inherited(w)
    BY <1>1, <1>2, <1>7, <2>1, Speaks
  <2>3. Perm' = [Perm EXCEPT ![who] = v]
    BY <2>2 DEF Perm
  <2>4. Handed' = [Handed EXCEPT ![who] = FALSE]
    BY <2>2 DEF Handed
  <2>5. Promise!Decide(who, v)
    BY <1>1, <1>2, <1>4, <1>7, <2>3, <2>4 DEF Promise!Decide
  <2> QED BY <1>7, <2>5 DEF People, Promise!People
<1> QED BY <1>5, <1>6, <1>7

\* A move prepared before sharing began: nothing is released, and what was
\* said and claimed since is of no use if the issue enters a new epoch.
LEMMA UnsharedTransitionImpl ==
  ASSUME TypeOK, PermissionInv, NEW h \in Handlers, NEW to \in Places, TransitionUnshared(h, to)
  PROVE  Promise!Move
<1>1. /\ handler[h].pc = "decide" /\ Stands(handler[h]) /\ Moves(handler[h], to)
      /\ UNCHANGED <<shared, member, choice, schedule, grant, run>>
  BY DEF TransitionUnshared
<1>2. /\ issue.place # "none" /\ issue'.place = to /\ to \in {"active", "backlog", "done"}
      /\ issue'.epoch = IF Promise!Resets THEN issue.epoch + 1 ELSE issue.epoch
      /\ Coming' = Coming
  BY <1>1, Decides
<1>3. CASE shared /\ Promise!Resets
  <2>1. \A u \in People : Effective(u)' = "unset"
    BY <1>1, <1>2, <1>3, NothingCounts
  <2>2. Perm' = Promise!Unset /\ Handed' = Promise!NotInherited /\ Promise!Release
    BY <1>1, <1>2, <1>3, <2>1, StartsOver
  <2> QED BY <1>1, <1>2, <1>3, <2>2 DEF Promise!Move
<1>4. CASE ~shared
  <2>1. Perm' = Perm /\ Handed' = Handed /\ Work' = Work
    BY <1>1, <1>4, UnsharedKeeps
  <2> QED BY <1>1, <1>2, <1>4, <2>1 DEF Promise!Move
<1>5. CASE ~Promise!Resets
  <2>1. Perm' = Perm /\ Handed' = Handed /\ Work' = Work
    BY <1>1, <1>2, <1>5, SameEpochKeeps
  <2> QED BY <1>1, <1>2, <1>5, <2>1 DEF Promise!Move
<1> QED BY <1>3, <1>4, <1>5

\* The owner's forced move, to another workflow or not.
LEMMA ForceStateImpl ==
  ASSUME TypeOK, PermissionInv, NEW h \in Handlers, NEW to \in Places, NEW other \in BOOLEAN,
         ForceState(h, to, other)
  PROVE  Promise!Decide(Owner, "on") \/ Promise!Rewire \/ Promise!Move
<1> DEFINE resets == other \/ Crosses(handler[h], to)
<1>1. /\ handler[h].pc = "decide" /\ Stands(handler[h]) /\ handler[h].from \in Places
      /\ issue'.place = to /\ issue'.epoch = IF resets THEN issue.epoch + 1 ELSE issue.epoch
      /\ UNCHANGED <<shared, member, schedule, grant>>
      /\ IF shared THEN /\ run' = ReleasedRun
                        /\ choice' = IF resets THEN ResetRows(choice, issue.epoch + 1) ELSE choice
         ELSE run' = run /\ choice' = choice
  <2>1. handler[h].pc = "decide"
    BY DEF ForceState
  <2> QED BY <2>1, DecisionRecord DEF ForceState, Release
<1>2. /\ issue.place # "none" /\ to \in {"active", "backlog", "done"} /\ Coming' = Coming
      /\ Crosses(handler[h], to) <=> Promise!Resets
  BY <1>1 DEF Stands, Crosses, Promise!Resets, Places, Open, Coming, Future, ScheduleThere, Stamp
<1>3. CASE ~shared
  <2>1. Perm' = Perm /\ Handed' = Handed /\ Work' = Work
    BY <1>1, <1>3, UnsharedKeeps
  <2> QED BY <1>1, <1>2, <1>3, <2>1 DEF Promise!Move
<1>4. CASE shared /\ resets
  <2>1. issue'.epoch = issue.epoch + 1 /\ choice' = ResetRows(choice, issue.epoch + 1)
    BY <1>1, <1>4
  <2>2. \A u \in People : Effective(u)' = "unset"
    BY <2>1, NothingCounts
  <2>3. Perm' = Promise!Unset /\ Handed' = Promise!NotInherited /\ Promise!Release
    BY <1>1, <1>4, <2>1, <2>2, StartsOver
  <2> QED BY <1>1, <1>2, <1>4, <2>3 DEF Promise!Rewire
<1>5. CASE shared /\ ~resets
  <2>1. Perm' = Perm /\ Handed' = Handed /\ Promise!Release
    BY <1>1, <1>5, SameEpochKeeps
  <2>2. ~Promise!Resets /\ Promise!Belongs(Owner)
    BY <1>2, <1>5 DEF Promise!Belongs
  <2> QED BY <1>1, <1>2, <1>5, <2>1, <2>2 DEF Promise!Decide
<1> QED BY <1>3, <1>4, <1>5

\* A workflow edit that makes states done: the issue's, the schedule's start,
\* both, or neither.
LEMMA WorkflowImpl ==
  ASSUME TypeOK, PermissionInv, NEW h \in Handlers, NEW inIt \in BOOLEAN, NEW start \in BOOLEAN,
         WriteWorkflow(h, inIt, start)
  PROVE  Promise!Move \/ Promise!Redefine \/ UNCHANGED Promise!vars
<1>1. /\ inIt => issue.place \in Open
      /\ start => shared /\ ScheduleThere
      /\ issue'.place = IF inIt THEN "done" ELSE issue.place
      /\ issue'.epoch = IF inIt /\ shared THEN issue.epoch + 1 ELSE issue.epoch
      /\ schedule'.st = schedule.st
      /\ schedule'.epoch = IF start THEN schedule.epoch + 1 ELSE schedule.epoch
      /\ grant' = IF start THEN Invalidated(schedule.epoch + 1) ELSE grant
      /\ run' = IF \/ handler[h].listed /\ inIt
                   \/ start /\ choice[Owner].source = "schedule" THEN ReleasedRun ELSE run
      /\ handler[h].pc = "workflow" /\ (handler[h].listed => shared)
      /\ UNCHANGED <<shared, member>>
      /\ ~inIt => issue' = issue
      /\ ~start => schedule' = schedule
  BY DEF WriteWorkflow, TypeOK, PermissionInv, RequestsAreSound
<1>2. Coming' = IF start THEN Promise!Redefined ELSE Coming
  <2>1. CASE start
    BY <1>1, <2>1, Redefines
  <2>2. CASE ~start
    BY <1>1, <2>2 DEF Coming, Future, ScheduleThere, Stamp
  <2> QED BY <2>1, <2>2
<1>3. CASE inIt /\ shared
  <2>1. \A u \in People : Effective(u)' = "unset"
    BY <1>3, WorkflowRows
  <2>2. Perm' = Promise!Unset /\ Handed' = Promise!NotInherited /\ Promise!Release
    BY <1>1, <1>3, <2>1, StartsOver
  <2>3. Promise!Resets /\ issue.place # "none"
    BY <1>1, <1>3 DEF Promise!Resets, Open
  <2> QED BY <1>1, <1>2, <1>3, <2>2, <2>3 DEF Promise!Move
<1>4. CASE inIt /\ ~shared
  <2>1. choice' = choice /\ run' = run /\ UNCHANGED <<shared, member, schedule, grant>>
    BY <1>1, <1>4 DEF WriteWorkflow
  <2>2. Perm' = Perm /\ Handed' = Handed /\ Coming' = Coming /\ Work' = Work
    BY <1>4, <2>1, UnsharedKeeps
  <2>3. issue.place # "none"
    BY <1>1, <1>4 DEF Open
  <2> QED BY <1>1, <1>4, <2>1, <2>2, <2>3 DEF Promise!Move
<1>5. CASE ~inIt /\ start
  <2>1. choice' = Revoked(People, "unset") /\ RevokeReleases(People)
    BY <1>1, <1>5 DEF WriteWorkflow, RevokeReleases, People
  <2>2. Promise!TakeBack
    BY <1>1, <1>5, <2>1, TakeBackImpl
  <2> QED BY <1>1, <1>2, <1>5, <2>2 DEF Promise!Redefine
<1>6. CASE ~inIt /\ ~start
  <2>1. choice' = choice /\ run' = run /\ UNCHANGED <<shared, member, issue, schedule, grant>>
    BY <1>1, <1>6 DEF WriteWorkflow
  <2> QED BY <2>1, Untouched DEF Promise!vars
<1> QED BY <1>3, <1>4, <1>5, <1>6

\* The opposite edit takes the issue out of done as it stands: nobody has said
\* anything there that counts.
LEMMA ReopenImpl ==
  ASSUME TypeOK, PermissionInv, NEW place \in Open, ReopenState(place)
  PROVE  Promise!Move
<1>1. /\ issue.place = "done" /\ issue'.place = place /\ issue'.epoch = issue.epoch
      /\ place \in {"active", "backlog", "done"}
      /\ UNCHANGED <<shared, member, choice, schedule, grant, run>>
  BY DEF ReopenState, TypeOK, Open
<1>2. Perm' = Perm /\ Handed' = Handed /\ Coming' = Coming /\ Work' = Work
  BY <1>1, SameEpochKeeps
<1>3. ASSUME shared
      PROVE  Perm = Promise!Unset /\ Handed = Promise!NotInherited /\ Work # "assigned"
  <2>1. \A u \in People : Effective(u) = "unset"
    BY <1>1, <1>3 DEF PermissionInv, DoneIsFresh
  <2>2. run.st = "assigned" => run.epoch # issue.epoch
    BY <1>1, <1>3, Fields DEF PermissionInv, DoneIsFresh
  <2> QED BY <1>3, <2>1, <2>2 DEF Perm, Handed, Work, Deliverable, ClaimIsCurrent, Promise!Unset,
                                 Promise!NotInherited, Promise!People, People
<1> QED BY <1>1, <1>2, <1>3 DEF Promise!Move, Promise!Release

\* Reading and giving up change nothing of it.
LEMMA ReadImpl ==
  ASSUME TypeOK, NEW h \in Handlers, NEW u \in People, NEW inIt \in BOOLEAN,
         \/ GiveUp(h) \/ ReadIssueChoice(h, u) \/ ReadScheduleChoice(h, u)
         \/ ReadDecision(h, u) \/ ReadWorkflow(h, inIt)
  PROVE  UNCHANGED Promise!vars
<1>1. UNCHANGED <<shared, member, issue, choice, schedule, grant, run>>
  BY DEF GiveUp, ReadIssueChoice, ReadScheduleChoice, ReadDecision, ReadWorkflow
<1> QED BY <1>1, Untouched DEF Promise!vars

\* The owner's agent: a claim that is made is current, and one that is
\* launched was.
LEMMA RunImpl ==
  ASSUME TypeOK, PermissionInv, ClaimRun \/ LaunchRun \/ EndRun
  PROVE  Promise!Assign \/ Promise!Launch \/ Promise!End \/ UNCHANGED Promise!vars
<1>1. UNCHANGED <<shared, member, issue, choice, schedule, grant>>
  BY DEF ClaimRun, LaunchRun, EndRun
<1>2. Perm' = Perm /\ Handed' = Handed /\ Coming' = Coming
  BY <1>1, Untouched
<1>3. Owner \in People /\ Perm[Owner] = Effective(Owner)
  BY DEF Perm, People
<1>4. CASE ClaimRun
  <2>1. run.st = "none" /\ Work = "none"
    BY <1>4 DEF ClaimRun, Work, Deliverable
  <2>2. Promise!Admitted
    BY <1>3, <1>4 DEF ClaimRun, OwnerIssueConsent, Effective, Promise!Admitted
  <2>3. /\ run'.st = "assigned" /\ run'.shared = shared /\ run'.epoch = issue.epoch
        /\ run'.rev = choice[Owner].rev
    BY <1>4 DEF ClaimRun
  <2>4. Work' = "assigned"
    BY <1>1, <2>3 DEF Work, Deliverable, ClaimIsCurrent
  <2> QED BY <1>1, <1>2, <2>1, <2>2, <2>4 DEF Promise!Assign
<1>5. CASE LaunchRun
  <2>1. run.st = "assigned" /\ (shared => ClaimIsCurrent) /\ run'.st = "launched"
    BY <1>5 DEF LaunchRun
  <2>2. Work = "assigned" /\ Work' = "launched"
    BY <2>1 DEF Work, Deliverable
  <2>3. shared => Promise!Admitted
    BY <1>3, <1>5 DEF LaunchRun, OwnerIssueConsent, Effective, Promise!Admitted
  <2> QED BY <1>1, <1>2, <2>2, <2>3 DEF Promise!Launch
<1>6. CASE EndRun
  <2>1. Work' = "none"
    BY <1>6 DEF EndRun, NoRun, Work, Deliverable
  <2> QED BY <1>1, <1>2, <2>1 DEF Promise!End, Promise!vars
<1> QED BY <1>4, <1>5, <1>6

\* The first states are first states of the promise.
LEMMA InitImpl == Init => Promise!Init
<1> SUFFICES ASSUME Init PROVE Promise!Init
  OBVIOUS
<1>1. /\ shared \in BOOLEAN /\ issue.place = "none" /\ run = NoRun
      /\ \A u \in People : choice[u] = NoChoice /\ grant[u] = NoGrant
  BY DEF Init
<1>2. member.in \in BOOLEAN /\ (member.in => shared)
  <2>1. PICK r \in 0..MaxMember : member = [in |-> r % 2 = 1, rev |-> r]
    BY DEF Init
  <2>2. member.in <=> r % 2 = 1
    BY <2>1
  <2>3. member.in \in BOOLEAN
    BY <2>1
  <2>4. member.rev > 0 => shared
    BY DEF Init
  <2>5. member.rev = r /\ MaxMember \in Nat
    BY <2>1, BoundsAssumption
  <2>6. r % 2 = 1 => r > 0
    BY <2>5
  <2> QED BY <2>2, <2>3, <2>4, <2>5, <2>6
<1>3. Perm = Promise!Unset /\ Coming = Promise!Unset /\ Handed = Promise!NotInherited
  <2>1. ASSUME NEW u \in People
        PROVE  Effective(u) = "unset" /\ Future(u) = "unset" /\ ~Inherited(u)
    <3>1. choice[u].value = "unset" /\ choice[u].source = "none" /\ grant[u].value = "unset"
      BY <1>1 DEF NoChoice, NoGrant
    <3> QED BY <3>1 DEF Effective, Future, Inherited
  <2> QED BY <2>1 DEF Perm, Coming, Handed, Promise!Unset, Promise!NotInherited,
                      Promise!People, People
<1>4. Work = "none"
  BY <1>1 DEF Work, Deliverable, NoRun
<1> QED BY <1>1, <1>2, <1>3, <1>4 DEF Promise!Init

\* Every step is a step of the promise or changes nothing it shows.
LEMMA StepImpl ==
  ASSUME TypeOK, PermissionInv, TypeOK', PermissionInv', [Next]_vars
  PROVE  [Promise!Next]_(Promise!vars)
<1>1. CASE Share
  BY <1>1, ShareImpl DEF Promise!Next
<1>2. CASE AcceptInvitation
  BY <1>2, JoinImpl DEF Promise!Next
<1>3. CASE RemoveMember
  BY <1>3, LeaveImpl DEF Promise!Next
<1>4. ASSUME NEW place \in Open, NEW v \in {"on", "off", "unset"},
             OwnerCreates(place, v) \/ OthersCreate(place, v)
      PROVE  Promise!Next
  BY <1>4, FileImpl DEF Promise!Next
<1>5. ASSUME NEW place \in Open, ScheduleCreates(place)
      PROVE  Promise!Next
  BY <1>5, FileScheduledImpl DEF Promise!Next
<1>6. ASSUME NEW place \in Open, ReopenState(place)
      PROVE  Promise!Next
  BY <1>6, ReopenImpl DEF Promise!Next
<1>7. ASSUME NEW u \in People, NEW v \in {"on", "off", "unset"}, CreateSchedule(u, v)
      PROVE  Promise!Next \/ UNCHANGED Promise!vars
  BY <1>7, NewScheduleImpl DEF Promise!Next, People, Promise!People, Promise!Values
<1>8. CASE EditSchedule \/ DeleteSchedule
  BY <1>8, RedefineImpl DEF Promise!Next
<1>9. CASE ClaimRun \/ LaunchRun \/ EndRun
  BY <1>9, RunImpl DEF Promise!Next
<1>10. ASSUME NEW h \in Handlers, NEW u \in People, NEW inIt \in BOOLEAN,
              \/ GiveUp(h) \/ ReadIssueChoice(h, u) \/ ReadScheduleChoice(h, u)
              \/ ReadDecision(h, u) \/ ReadWorkflow(h, inIt)
       PROVE  UNCHANGED Promise!vars
  BY <1>10, ReadImpl
<1>11. ASSUME NEW h \in Handlers, NEW v \in {"on", "off"},
              WriteIssueChoice(h, v) \/ WriteScheduleChoice(h, v)
       PROVE  Promise!Next
  BY <1>11, ChooseImpl, ChooseFutureImpl DEF Promise!Next
<1>12. ASSUME NEW h \in Handlers, NEW to \in Places, NEW v \in {"on", "off", "keep"},
              NEW other \in BOOLEAN,
              Transition(h, to, v) \/ TransitionUnshared(h, to) \/ ForceState(h, to, other)
       PROVE  Promise!Next
  <2>1. Owner \in Promise!People
    BY DEF Promise!People
  <2> QED BY <1>12, <2>1, TransitionImpl, UnsharedTransitionImpl, ForceStateImpl DEF Promise!Next
<1>13. ASSUME NEW h \in Handlers, NEW inIt \in BOOLEAN, NEW start \in BOOLEAN,
              WriteWorkflow(h, inIt, start)
       PROVE  Promise!Next \/ UNCHANGED Promise!vars
  BY <1>13, WorkflowImpl DEF Promise!Next
<1>14. CASE UNCHANGED vars
  BY <1>14, Untouched DEF vars, Promise!vars
<1>15. \E u \in People, inIt \in BOOLEAN : TRUE
  BY DEF People
<1> QED BY <1>1, <1>2, <1>3, <1>4, <1>5, <1>6, <1>7, <1>8, <1>9, <1>10, <1>11, <1>12, <1>13,
           <1>14, <1>15 DEF Next

\* The rows, their revisions, epochs and stamps, the requests that went by an
\* older read and the claims of the owner's agent implement the one-step
\* permissions of PersonalPermission.
THEOREM TablesImplementPermission == Spec => ImplementsPromise
<1>1. TypeOK /\ PermissionInv /\ TypeOK' /\ PermissionInv' /\ [Next]_vars
        => [Promise!Next]_(Promise!vars)
  BY StepImpl
<1> QED BY <1>1, InitImpl, TypeCorrect, PermissionIsCurrent, PTL
        DEF Spec, ImplementsPromise, Promise!Spec

===========================================================================
