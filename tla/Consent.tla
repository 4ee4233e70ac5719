------------------------------ MODULE Consent ------------------------------
(***************************************************************************)
(* Personal permission in a shared project, as the tables hold it: one     *)
(* issue, one schedule that may file it, the owner and one member, and the *)
(* owner's agent.  personal-consent.ts and schedule-consent.ts (choices),  *)
(* consent-admission.ts (the predicate and the release), issues.ts (filing *)
(* and decisions), workflows.ts (a state that becomes done), schedules.ts  *)
(* and schedule-sweep.ts (definition changes, inheritance), invitations.ts *)
(* (sharing, joining, leaving), and engine.ts (claim and launching flip).  *)
(*                                                                         *)
(* Each batch is one step; what its request read before is in `handler'    *)
(* and may be stale.  Revisions, epochs and the membership revision are    *)
(* numbers, as in the tables; tokens that are only compared are left out.  *)
(* Archiving, holds, pins, parking and routing are RunLifecycle's.         *)
(* MaxChoice, MaxDecision, MaxMember and MaxPermission bound the           *)
(* revisions.                                                              *)
(***************************************************************************)
EXTENDS Naturals

CONSTANTS Owner, Member,
          Handlers,     \* requests that overlap
          MaxChoice, MaxDecision, MaxMember, MaxPermission

(* The owner of a project has no project_member row.                       *)
ASSUME PeopleAssumption == Owner # Member
ASSUME BoundsAssumption == {MaxChoice, MaxDecision, MaxMember, MaxPermission} \subseteq Nat

People == {Owner, Member}
Open == {"active", "backlog"}
Places == Open \cup {"done"}

VARIABLES
    shared,     \* project.shared_at is set; sharing_revision moves with it
    member,     \* the project_member row: in, revision
    issue,      \* place (the state's category, "none" before it is filed),
                \* decision_revision, consent_epoch
    choice,     \* issue_personal_choice by person; revision 0 is no row
    schedule,   \* st: "none", "there" or "gone"; permission_epoch
    grant,      \* schedule_personal_choice by person; revision 0 is no row
    run,        \* the issue's agent_run and the claim_* columns
    handler     \* what each request in flight read

vars == <<shared, member, issue, choice, schedule, grant, run, handler>>

Idle == [pc |-> "idle"]
NoChoice == [value |-> "unset", rev |-> 0, epoch |-> 0, member |-> 0, source |-> "none"]
NoGrant == [value |-> "unset", rev |-> 0, epoch |-> 0, member |-> 0]
NoRun == [st |-> "none"]

(* A request that never comes; it lets an instance bound the overlap.      *)
Absent == [pc |-> "absent"]

(* Nothing is filed and nobody has said anything; sharing may have begun,  *)
(* the member may have joined and left before.                             *)
Init ==
    /\ shared \in BOOLEAN
    /\ \E r \in 0..MaxMember : member = [in |-> r % 2 = 1, rev |-> r]
    /\ member.rev > 0 => shared
    /\ issue = [place |-> "none", dec |-> 0, epoch |-> 0]
    /\ choice = [u \in People |-> NoChoice]
    /\ \E st \in {"none", "gone"} : schedule = [st |-> st, epoch |-> 0]
    /\ grant = [u \in People |-> NoGrant]
    /\ run = NoRun
    /\ handler \in [Handlers -> {Idle, Absent}]

(* The membership revision a person's rows are stamped with. *)
Stamp(u) == IF u = Owner THEN 0 ELSE member.rev

Belongs(u) == u = Owner \/ (shared /\ member.in)

-----------------------------------------------------------------------------
(* What the rows mean *)

ScheduleThere == schedule.st = "there"

(* readIssueConsent, listIssuePermissionRoster *)
Effective(u) ==
    IF choice[u].epoch = issue.epoch /\ choice[u].member = Stamp(u)
    THEN choice[u].value ELSE "unset"

(* readScheduleConsent *)
Future(u) ==
    IF ScheduleThere /\ grant[u].epoch = schedule.epoch /\ grant[u].member = Stamp(u)
    THEN grant[u].value ELSE "unset"

(* ownerIssueConsentPredicate *)
OwnerIssueConsent ==
    shared => ~(choice[Owner].value = "off" /\ choice[Owner].epoch = issue.epoch)

-----------------------------------------------------------------------------
(* Parts of the batches *)

ReleasedRun_KeepsClaim == IF run.st = "assigned" THEN [run EXCEPT !.st = "none"] ELSE run

(* releaseAssignedIssueQueries: assigned work is canceled and its keys are *)
(* revoked; admitted work is never touched.                                *)
ReleasedRun == IF run.st = "assigned" THEN NoRun ELSE run

Release == run' = ReleasedRun

(* An upsert of one person's choice. *)
Said(u, v, source) ==
    [choice EXCEPT ![u] = [value |-> v, rev |-> choice[u].rev + 1, epoch |-> issue.epoch,
                           member |-> Stamp(u), source |-> source]]

ResetRows_KeepValue(rows, epoch) ==
    [u \in People |-> IF rows[u].rev = 0 THEN rows[u] ELSE
        [rows[u] EXCEPT !.rev = @ + 1, !.epoch = epoch, !.source = "none"]]

(* A lifecycle boundary: every row is unset at the new epoch. *)
ResetRows(rows, epoch) ==
    [u \in People |-> IF rows[u].rev = 0 THEN rows[u] ELSE
        [rows[u] EXCEPT !.value = "unset", !.rev = @ + 1, !.epoch = epoch,
                        !.source = "none"]]

Inherited(u) == choice[u].source = "schedule" /\ choice[u].value = "on"

(* revokeInheritedScheduleQueries for these people *)
Revoked_OwnerOnly(users, ownerValue) ==
    IF Owner \in users /\ Inherited(Owner)
    THEN [choice EXCEPT ![Owner].value = ownerValue, ![Owner].rev = @ + 1,
                        ![Owner].source = "none"]
    ELSE choice

Revoked(users, ownerValue) ==
    [u \in People |->
        IF u \in users /\ Inherited(u)
        THEN [choice[u] EXCEPT !.value = IF u = Owner THEN ownerValue ELSE "unset",
                               !.rev = @ + 1, !.source = "none"]
        ELSE choice[u]]

RevokeReleases(users) ==
    run' = IF Owner \in users /\ choice[Owner].source = "schedule" THEN ReleasedRun ELSE run

(* The bounds *)
Room(u) == choice[u].rev < MaxChoice
RoomForAll == \A u \in People : Room(u) /\ grant[u].rev < MaxChoice
RoomToDecide == issue.dec < MaxDecision

Finish(h) == handler' = [handler EXCEPT ![h] = Idle]
Start(h, record) == handler[h].pc = "idle" /\ handler' = [handler EXCEPT ![h] = record]

GiveUp(h) ==
    /\ handler[h].pc \notin {"idle", "absent"}
    /\ Finish(h)
    /\ UNCHANGED <<shared, member, issue, choice, schedule, grant, run>>

-----------------------------------------------------------------------------
(* Sharing, joining, leaving *)

(* createInvitation for a project that is not shared yet; the revision it   *)
(* expects makes it a compare-and-swap.                                    *)
Share ==
    /\ ~shared /\ shared' = TRUE
    /\ choice' = [u \in People |-> IF choice[u].rev = 0 THEN choice[u] ELSE
                    [choice[u] EXCEPT !.value = "unset", !.rev = @ + 1]]
    /\ grant' = [u \in People |-> IF grant[u].rev = 0 THEN grant[u] ELSE
                    [grant[u] EXCEPT !.value = "off", !.rev = @ + 1]]
    /\ Release
    /\ UNCHANGED <<member, issue, schedule, handler>>

AcceptInvitation ==
    /\ shared /\ ~member.in /\ member.rev < MaxMember
    /\ member' = [in |-> TRUE, rev |-> member.rev + 1]
    /\ UNCHANGED <<shared, issue, choice, schedule, grant, run, handler>>

RemoveMember ==
    /\ member.in /\ RoomForAll
    /\ member' = [in |-> FALSE, rev |-> member.rev + 1]
    /\ choice' = IF choice[Member].rev = 0 THEN choice ELSE
                   [choice EXCEPT ![Member].value = "unset", ![Member].rev = @ + 1]
    /\ grant' = IF grant[Member].rev = 0 THEN grant ELSE
                  [grant EXCEPT ![Member].value = "off", ![Member].rev = @ + 1]
    /\ UNCHANGED <<shared, issue, schedule, run, handler>>

-----------------------------------------------------------------------------
(* Filing the issue *)

FiledAt(place) == issue' = [issue EXCEPT !.place = place]

(* createIssue: the owner files it, with or without a first choice. *)
OwnerCreates(place, v) ==
    /\ issue.place = "none" /\ FiledAt(place)
    /\ choice' = IF v = "unset" \/ ~shared THEN choice ELSE Said(Owner, v, "issue")
    /\ UNCHANGED <<shared, member, schedule, grant, run, handler>>

(* A member or a run files it: the owner's agents stay off until the owner *)
(* allows them.                                                            *)
OthersCreate(place, v) ==
    /\ issue.place = "none" /\ shared /\ (v # "unset" => member.in) /\ FiledAt(place)
    /\ choice' = [u \in People |-> IF u = Owner THEN Said(u, "off", "issue")[u]
                                   ELSE IF v = "unset" THEN choice[u]
                                   ELSE Said(u, v, "issue")[u]]
    /\ UNCHANGED <<shared, member, schedule, grant, run, handler>>

(* inheritChoices *)
InheritedValue(u) ==
    IF u = Owner \/ (Future(u) = "on" /\ member.in) THEN Future(u) ELSE "unset"

ScheduleCreates(place) ==
    /\ issue.place = "none" /\ ScheduleThere /\ FiledAt(place)
    /\ choice' = [u \in People |-> IF ~shared \/ InheritedValue(u) = "unset" THEN choice[u]
                                   ELSE Said(u, InheritedValue(u), "schedule")[u]]
    /\ UNCHANGED <<shared, member, schedule, grant, run, handler>>

-----------------------------------------------------------------------------
(* Choosing, on the issue *)

(* writeIssueConsent reads the row and the witness the person echoes.      *)
ReadIssueChoice(h, u) ==
    /\ shared /\ Belongs(u) /\ issue.place \in Open
    /\ Start(h, [pc |-> "choice", who |-> u, rev |-> choice[u].rev, epoch |-> issue.epoch,
                 dec |-> issue.dec, member |-> Stamp(u)])
    /\ UNCHANGED <<shared, member, issue, choice, schedule, grant, run>>

Witnessed(s) == issue.epoch = s.epoch /\ issue.dec = s.dec

StillMember(s) == Belongs(s.who) /\ Stamp(s.who) = s.member

Releases_OnOff(u, v) == u = Owner /\ v = "off"

(* The owner's "on" releases too: the claim carries the old revision. *)
Releases(u, v) == u = Owner

WriteIssueChoice(h, v) ==
    LET s == handler[h] IN
    /\ s.pc = "choice"
    /\ StillMember(s) /\ Witnessed(s) /\ issue.place # "done"
    /\ choice[s.who].rev = s.rev /\ Room(s.who)
    /\ choice' = Said(s.who, v, "issue")
    /\ IF Releases(s.who, v) THEN Release ELSE UNCHANGED run
    /\ Finish(h)
    /\ UNCHANGED <<shared, member, issue, schedule, grant>>

-----------------------------------------------------------------------------
(* Choosing, on the schedule *)

Granted(u, v, epoch) ==
    [value |-> v, rev |-> grant[u].rev + 1, epoch |-> epoch, member |-> Stamp(u)]

(* The schedule comes with its author's choice; a member's does not run on *)
(* the owner's agents until the owner turns it on.                         *)
CreateSchedule(u, v) ==
    /\ schedule.st = "none" /\ Belongs(u)
    /\ schedule' = [schedule EXCEPT !.st = "there"]
    /\ grant' = [w \in People |->
                    IF shared /\ w = u /\ v # "unset" THEN Granted(w, v, 0)
                    ELSE IF w = Owner /\ u # Owner THEN Granted(w, "off", 0)
                    ELSE grant[w]]
    /\ UNCHANGED <<shared, member, issue, choice, run, handler>>

ReadScheduleChoice(h, u) ==
    /\ shared /\ Belongs(u) /\ ScheduleThere
    /\ Start(h, [pc |-> "grant", who |-> u, rev |-> grant[u].rev,
                 epoch |-> schedule.epoch, member |-> Stamp(u)])
    /\ UNCHANGED <<shared, member, issue, choice, schedule, grant, run>>

WriteScheduleChoice(h, v) ==
    LET s == handler[h] IN
    /\ s.pc = "grant"
    /\ StillMember(s) /\ ScheduleThere /\ schedule.epoch = s.epoch
    /\ grant[s.who].rev = s.rev /\ s.rev < MaxChoice /\ Room(s.who)
    /\ grant' = [grant EXCEPT ![s.who] = Granted(s.who, v, s.epoch)]
    /\ IF v = "off"
       THEN choice' = Revoked({s.who}, "off") /\ RevokeReleases({s.who})
       ELSE UNCHANGED <<choice, run>>
    /\ Finish(h)
    /\ UNCHANGED <<shared, member, issue, schedule>>

(* invalidateSchedulePermissionQueries and its set-based twin for a start   *)
(* state that changed.                                                     *)
Invalidated(epoch) ==
    [u \in People |-> IF grant[u].rev = 0 THEN grant[u] ELSE
        [grant[u] EXCEPT !.value = IF u = Owner THEN @ ELSE "off", !.rev = @ + 1,
                         !.epoch = epoch]]

(* An edit of what the schedule does (updateSchedule, permissionChanged).  *)
EditSchedule ==
    /\ ScheduleThere /\ schedule.epoch < MaxPermission /\ RoomForAll
    /\ schedule' = [schedule EXCEPT !.epoch = @ + 1]
    /\ grant' = Invalidated(schedule.epoch + 1)
    /\ choice' = Revoked(People, "unset")
    /\ RevokeReleases(People)
    /\ UNCHANGED <<shared, member, issue, handler>>

DeleteSchedule ==
    /\ ScheduleThere /\ RoomForAll
    /\ schedule' = [schedule EXCEPT !.st = "gone"]
    /\ choice' = Revoked(People, "unset")
    /\ RevokeReleases(People)
    /\ UNCHANGED <<shared, member, issue, grant, handler>>

-----------------------------------------------------------------------------
(* Decisions: transitionIssue, transitionMemberIssue, the forced move of    *)
(* updateIssue                                                             *)

ReadDecision(h, u) ==
    /\ issue.place # "none" /\ Belongs(u)
    /\ Start(h, [pc |-> "decide", who |-> u, from |-> issue.place, dec |-> issue.dec,
                 epoch |-> issue.epoch, rev |-> choice[u].rev,
                 member |-> Stamp(u), shared |-> shared, workflow |-> TRUE])
    /\ UNCHANGED <<shared, member, issue, choice, schedule, grant, run>>

Crosses(s, to) == to = "done" \/ s.from = "done"

Moves(s, to) ==
    issue' = [place |-> to, dec |-> issue.dec + 1,
              epoch |-> IF Crosses(s, to) THEN issue.epoch + 1 ELSE issue.epoch]

Stands(s) == issue.place = s.from /\ issue.dec = s.dec /\ s.workflow

(* choiceChanged: the owner's row is compared raw, the member's as shown.  *)
Says(u, v) ==
    \/ (IF u = Owner THEN choice[u].value ELSE Effective(u)) # v
    \/ choice[u].source # "issue"

(* The shared transition: v is what the person says with it, "keep" when   *)
(* nothing is said and nothing implied.                                    *)
Transition(h, to, v) ==
    LET s == handler[h] IN
    /\ s.pc = "decide" /\ s.shared
    /\ RoomToDecide /\ (Crosses(s, to) => RoomForAll)
    /\ Stands(s) /\ issue.epoch = s.epoch /\ StillMember(s)
    /\ choice[s.who].rev = s.rev
    /\ v # "keep" => to = "active" /\ Says(s.who, v) /\ Room(s.who)
    /\ Moves(s, to)
    /\ Release
    /\ choice' = IF Crosses(s, to) THEN ResetRows(choice, issue.epoch + 1)
                 ELSE IF v = "keep" THEN choice ELSE Said(s.who, v, "issue")
    /\ Finish(h)
    /\ UNCHANGED <<shared, member, schedule, grant>>

(* Read before sharing began: neither the choice nor the sharing is        *)
(* compared, and nothing is released.                                      *)
TransitionUnshared(h, to) ==
    LET s == handler[h] IN
    /\ s.pc = "decide" /\ ~s.shared
    /\ RoomToDecide
    /\ Stands(s)
    /\ Moves(s, to)
    /\ Finish(h)
    /\ UNCHANGED <<shared, member, choice, schedule, grant, run>>

(* updateIssue: the owner puts the issue in another state or workflow.     *)
ForceState(h, to, otherWorkflow) ==
    LET s == handler[h]
        resets == otherWorkflow \/ Crosses(s, to) IN
    /\ s.pc = "decide" /\ s.who = Owner
    /\ RoomToDecide /\ (resets => RoomForAll)
    /\ Stands(s) /\ shared = s.shared
    /\ issue' = [place |-> to, dec |-> issue.dec + 1,
                 epoch |-> IF resets THEN issue.epoch + 1 ELSE issue.epoch]
    /\ IF shared
       THEN /\ Release
            /\ choice' = IF resets THEN ResetRows(choice, issue.epoch + 1) ELSE choice
       ELSE UNCHANGED <<run, choice>>
    /\ Finish(h)
    /\ UNCHANGED <<shared, member, schedule, grant>>

-----------------------------------------------------------------------------
(* An edit of the workflow that makes a state done: the issues in it are    *)
(* listed first.                                                           *)
ReadWorkflow(h, inIt) ==
    /\ inIt => issue.place \in Open
    /\ Start(h, [pc |-> "workflow", inIt |-> inIt, listed |-> inIt /\ shared,
                 dec |-> issue.dec, place |-> issue.place])
    /\ UNCHANGED <<shared, member, issue, choice, schedule, grant, run>>

(* The decision revision of the workflow moves: what requests read of it   *)
(* is stale.                                                               *)
Outdated(h) ==
    handler' = [k \in Handlers |->
        IF k = h THEN Idle
        ELSE IF handler[k].pc = "decide" THEN [handler[k] EXCEPT !.workflow = FALSE]
        ELSE handler[k]]

(* inIt: the issue is in that state now; start: so does the schedule.      *)
WriteWorkflow(h, inIt, start) ==
    LET s == handler[h] IN
    /\ s.pc = "workflow"
    /\ inIt => issue.place \in Open
    /\ issue.dec = s.dec /\ issue.place = s.place => inIt = s.inIt
    /\ RoomToDecide /\ RoomForAll
    /\ start => shared /\ ScheduleThere /\ schedule.epoch < MaxPermission
    /\ LET taken == IF start THEN Revoked(People, "unset") ELSE choice IN
       /\ schedule' = IF start THEN [schedule EXCEPT !.epoch = @ + 1] ELSE schedule
       /\ grant' = IF start THEN Invalidated(schedule.epoch + 1) ELSE grant
       /\ issue' = IF ~inIt THEN issue
                   ELSE IF shared THEN [place |-> "done", dec |-> issue.dec + 1,
                                        epoch |-> issue.epoch + 1]
                   ELSE [issue EXCEPT !.place = "done"]
       /\ choice' = IF inIt /\ shared
                    THEN ResetRows(taken, issue.epoch + 1)
                    ELSE taken
    /\ run' = IF \/ s.listed /\ inIt
                 \/ start /\ choice[Owner].source = "schedule"
              THEN ReleasedRun ELSE run
    /\ Outdated(h)
    /\ UNCHANGED <<shared, member>>

(* The opposite edit: no issue is touched. *)
ReopenState(place) ==
    /\ issue.place = "done" /\ issue' = [issue EXCEPT !.place = place]
    /\ handler' = [k \in Handlers |->
         IF handler[k].pc = "decide" THEN [handler[k] EXCEPT !.workflow = FALSE]
         ELSE handler[k]]
    /\ UNCHANGED <<shared, member, choice, schedule, grant, run>>

-----------------------------------------------------------------------------
(* The owner's agent *)

ClaimRun ==
    /\ run.st = "none" /\ issue.place = "active" /\ OwnerIssueConsent
    /\ run' = [st |-> "assigned", shared |-> shared, epoch |-> issue.epoch,
               rev |-> choice[Owner].rev]
    /\ UNCHANGED <<shared, member, issue, choice, schedule, grant, handler>>

ClaimIsCurrent_Sharing == run.shared = shared

(* mintRunKeyAndFlip: the claim_* columns still are the current values. *)
ClaimIsCurrent ==
    run.shared = shared /\ run.epoch = issue.epoch /\ run.rev = choice[Owner].rev

LaunchRun ==
    /\ run.st = "assigned"
    /\ shared => issue.place = "active" /\ OwnerIssueConsent /\ ClaimIsCurrent
    /\ run' = [st |-> "launched"]
    /\ UNCHANGED <<shared, member, issue, choice, schedule, grant, handler>>

(* The run ends, is canceled, or stalls undelivered. *)
EndRun ==
    /\ run.st # "none" /\ run' = NoRun
    /\ UNCHANGED <<shared, member, issue, choice, schedule, grant, handler>>

-----------------------------------------------------------------------------
Next ==
    \/ Share \/ AcceptInvitation \/ RemoveMember
    \/ \E place \in Open :
         \/ \E v \in {"on", "off", "unset"} : OwnerCreates(place, v) \/ OthersCreate(place, v)
         \/ ScheduleCreates(place) \/ ReopenState(place)
    \/ \E u \in People, v \in {"on", "off", "unset"} : CreateSchedule(u, v)
    \/ EditSchedule \/ DeleteSchedule
    \/ ClaimRun \/ LaunchRun \/ EndRun
    \/ \E h \in Handlers :
         \/ GiveUp(h)
         \/ \E u \in People :
              ReadIssueChoice(h, u) \/ ReadScheduleChoice(h, u) \/ ReadDecision(h, u)
         \/ \E v \in {"on", "off"} : WriteIssueChoice(h, v) \/ WriteScheduleChoice(h, v)
         \/ \E to \in Places :
              \/ \E v \in {"on", "off", "keep"} : Transition(h, to, v)
              \/ TransitionUnshared(h, to)
              \/ \E other \in BOOLEAN : ForceState(h, to, other)
         \/ \E inIt \in BOOLEAN : ReadWorkflow(h, inIt)
         \/ \E inIt, start \in BOOLEAN : WriteWorkflow(h, inIt, start)

Spec == Init /\ [][Next]_vars

-----------------------------------------------------------------------------
(* Properties *)

Rows == [value : {"on", "off", "unset"}, rev : Nat, epoch : Nat, member : Nat,
         source : {"none", "issue", "schedule"}]
Grants == [value : {"on", "off", "unset"}, rev : Nat, epoch : Nat, member : Nat]
Records ==
    [pc : {"choice"}, who : People, rev : Nat, epoch : Nat, dec : Nat, member : Nat]
    \cup [pc : {"grant"}, who : People, rev : Nat, epoch : Nat, member : Nat]
    \cup [pc : {"decide"}, who : People, from : Places, dec : Nat, epoch : Nat, rev : Nat,
          member : Nat, shared : BOOLEAN, workflow : BOOLEAN]
    \cup [pc : {"workflow"}, inIt : BOOLEAN, listed : BOOLEAN, dec : Nat,
          place : Places \cup {"none"}]

TypeOK ==
    /\ shared \in BOOLEAN
    /\ member \in [in : BOOLEAN, rev : Nat]
    /\ issue \in [place : Places \cup {"none"}, dec : Nat, epoch : Nat]
    /\ choice \in [People -> Rows]
    /\ schedule \in [st : {"none", "there", "gone"}, epoch : Nat]
    /\ grant \in [People -> Grants]
    /\ run \in {NoRun, [st |-> "launched"]}
             \cup [st : {"assigned"}, shared : BOOLEAN, epoch : Nat, rev : Nat]
    /\ handler \in [Handlers -> Records \cup {Idle, Absent}]

(* The claim of the assigned run would pass the launching flip, but for    *)
(* the issue's state.                                                      *)
Deliverable == run.st = "assigned" /\ (shared => ClaimIsCurrent)

(* Assigned work whose claim goes stale is released by the same batch: it  *)
(* never waits out the stall window while nobody else may claim the issue  *)
(* (the comment in writeIssueConsent).  Left out are the two batches that  *)
(* go by what they read before: a transition prepared before sharing       *)
(* began, and the list of issues of a workflow edit.                       *)
ByStaleRead ==
    \E h \in Handlers : /\ handler[h].pc \in {"decide", "workflow"}
                        /\ handler'[h].pc = "idle"
                        /\ IF handler[h].pc = "decide" THEN ~handler[h].shared
                           ELSE ~handler[h].listed
StaleClaimsAreReleased ==
    [][Deliverable /\ run'.st = "assigned" => Deliverable' \/ ByStaleRead]_vars

(* An "on" that a schedule handed to an issue is never more than what that *)
(* person says of the schedule: a withdrawal, a change of definition, a    *)
(* deletion and a departure all reach the issues already filed.            *)
InheritedIsBacked ==
    \A u \in People : Inherited(u) /\ Effective(u) = "on" => Future(u) = "on"

(* No admission under an "off": when the run launches in a shared project  *)
(* the owner has not said off since the issue last opened or finished, and *)
(* the choice is the one the run was claimed under.                        *)
LaunchesAreConsented ==
    [][run.st = "assigned" /\ run'.st = "launched" /\ shared =>
         Effective(Owner) # "off" /\ choice[Owner].rev = run.rev]_vars

(* What each person says of the issue, whether a schedule handed that on,  *)
(* what each says of the schedule, and the work that would be admitted.    *)
Perm == [u \in People |-> Effective(u)]
Handed == [u \in People |-> Inherited(u) /\ Effective(u) = "on"]
Coming == [u \in People |-> Future(u)]
Work == IF run.st = "launched" THEN "launched"
        ELSE IF Deliverable THEN "assigned" ELSE "none"

(* The promise: the tables implement PersonalPermission, where every       *)
(* operation is one step on what people said and nothing is ever stale.    *)
Promise == INSTANCE PersonalPermission WITH
    joined <- member.in,
    place <- issue.place,
    perm <- Perm,
    inherited <- Handed,
    future <- Coming,
    work <- Work
ImplementsPromise == Promise!Spec
=============================================================================
