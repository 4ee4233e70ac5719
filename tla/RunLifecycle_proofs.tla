----------------------- MODULE RunLifecycle_proofs -----------------------
(***************************************************************************)
(* Theorems about RunLifecycle, for any number of issues, runs, runners    *)
(* and concurrent handlers, any caps and any set of outside events.        *)
(***************************************************************************)
EXTENDS RunLifecycle, FiniteSetTheorems, TLAPS

-----------------------------------------------------------------------------
(* Type correctness.                                                        *)

\* The records of idle handlers are well typed.
LEMMA IdleTypes ==
  /\ IdlePass \in PassType /\ IdlePoll \in PollType
  /\ IdleEnder \in EnderType /\ IdleOp \in OpType
BY DEF IdlePass, IdlePoll, IdleEnder, IdleOp, PassType, PollType, EnderType, OpType, Ended, Outcome

\* Setting a flag of one row keeps a column of flags.
LEMMA FlagSet ==
  ASSUME NEW S, NEW f \in [S -> BOOLEAN], NEW i, NEW P
  PROVE  [f EXCEPT ![i] = @ \/ P] \in [S -> BOOLEAN]
BY Zenon

\* Charging an attempt count leaves an attempt count.
LEMMA ChargedNat ==
  ASSUME NEW n \in Nat, NEW verdict
  PROVE  Charged(n, verdict) \in Nat
BY DEF Charged

\* An ender that owns the end stays well typed.
LEMMA Settles ==
  ASSUME NEW x \in EnderType
  PROVE  x.pc # "idle" => [x EXCEPT !.pc = "settle"] \in EnderType
BY DEF EnderType

\* Initially every row and handler is well typed.
LEMMA InitType == Init => TypeOK
BY IdleTypes, SetsAssumption DEF Init, TypeOK, Status, Outcome

\* The first half of endRun keeps the handlers' records well typed.
LEMMA BeganType ==
  ASSUME TypeOK, NEW e \in Enders, NEW by \in Runners \cup Polls \cup Operators \cup {None},
         NEW r \in Runs, NEW to \in Ended, NEW b \in BOOLEAN, NEW s \in BOOLEAN,
         Began(e, by, r, to, b, s)
  PROVE  ender' \in [Enders -> EnderType]
BY DEF TypeOK, Began, EnderType, Judgment, Outcome

\* endRun and its continuations keep the types.
LEMMA EndRunType ==
  ASSUME TypeOK, NEW e \in Enders, NEW by \in Runners \cup Polls \cup Operators \cup {None},
         NEW r \in Runs, NEW to \in Ended, NEW b \in BOOLEAN, EndRun(e, by, r, to, b)
  PROVE  ender' \in [Enders -> EnderType]
<1>1. started[r] \in BOOLEAN
  BY DEF TypeOK
<1> QED BY <1>1, BeganType DEF EndRun

\* endRun and its evictions keep every type.
LEMMA EnderType_Step ==
  ASSUME TypeOK, NEW e \in Enders, EnderStep(e)
  PROVE  TypeOK'
<1>1. ASSUME EndCas(e) PROVE TypeOK'
  <2>1. ender' \in [Enders -> EnderType]
    <3>1. ender[e] \in EnderType
      BY DEF TypeOK
    <3>2. [ender[e] EXCEPT !.pc = "settle"] \in EnderType
      BY <1>1, <3>1, Settles DEF EndCas
    <3> QED BY <1>1, <3>2, IdleTypes DEF TypeOK, EndCas
  <2>2. /\ status' \in [Runs -> Status] /\ outcome' \in [Runs -> Outcome]
    BY <1>1 DEF TypeOK, EndCas, EnderType, Status
  <2> QED
    BY <1>1, <2>1, <2>2 DEF TypeOK, EndCas, issueVars, fleetVars, claimVars, daemonVars
<1>2. ASSUME EndSettle(e) PROVE TypeOK'
  <2>1. /\ ender' \in [Enders -> EnderType] /\ key' \in [Runs -> {"none", "live", "revoked"}]
    BY <1>2, IdleTypes DEF TypeOK, EndSettle, Revoked
  <2>2. attempts' \in [Issues -> Nat]
    <3>1. attempts' = [attempts EXCEPT ![issueOf[ender[e].run]] =
                         Charged(@, ender[e].outcome)]
      BY <1>2 DEF EndSettle
    <3> QED BY <3>1, ChargedNat DEF TypeOK
  <2>3. parked' \in [Issues -> BOOLEAN]
    BY <1>2, FlagSet DEF TypeOK, EndSettle
  <2>4. held' \in [Runners -> BOOLEAN]
    <3>1. held' = [held EXCEPT ![runnerOf[ender[e].run]] =
                     @ \/ ender[e].outcome = "interrupted"]
      BY <1>2 DEF EndSettle
    <3> QED BY <3>1, FlagSet DEF TypeOK
  <2> QED
    BY <1>2, <2>1, <2>2, <2>3, <2>4 DEF TypeOK, EndSettle, claimVars, daemonVars
<1>3. ASSUME EndEvicted(e) PROVE TypeOK'
  BY <1>3, IdleTypes DEF TypeOK, EndEvicted, issueVars, fleetVars, claimVars, runVars, daemonVars
<1> QED BY <1>1, <1>2, <1>3 DEF EnderStep

\* Whatever a pass changes in its local variables, they stay well typed.
LEMMA PassEdit ==
  /\ \A y \in PassType : y.run \in Runs => /\ [y EXCEPT !.pc = "launch"] \in PassType
                                           /\ [y EXCEPT !.pc = "check"] \in PassType
  /\ \A y \in PassType, r \in Runs : [y EXCEPT !.pc = "mint", !.run = r] \in PassType
  /\ \A T : \A y \in PassType : [y EXCEPT !.todo = @ \ T] \in PassType
  /\ \A T : \A y \in PassType :
       [y EXCEPT !.pc = "walk", !.run = None, !.todo = @ \ T] \in PassType
  /\ \A T : \A y \in PassType :
       [y EXCEPT !.pc = "walk", !.run = None, !.ok = @ \ T] \in PassType
BY DEF PassType

\* The one-shot flip and the failed launch keep the types of the run rows.
LEMMA MintType ==
  ASSUME TypeOK, NEW r, MintRunKeyAndFlip(r)
  PROVE  /\ status' \in [Runs -> Status] /\ started' \in [Runs -> BOOLEAN]
         /\ outcome' \in [Runs -> Outcome] /\ key' \in [Runs -> {"none", "live", "revoked"}]
         /\ moved' \in [Runs -> BOOLEAN] /\ handouts' \in [Runs -> Nat]
<1>1. status' \in [Runs -> Status]
  <2>1. status \in [Runs -> Status] /\ "launching" \in Status
    BY DEF TypeOK, Status, Active
  <2>2. status' = [status EXCEPT ![r] = IF Flips(r) THEN "launching" ELSE @]
    BY DEF MintRunKeyAndFlip
  <2> QED BY <2>1, <2>2
<1>2. key' \in [Runs -> {"none", "live", "revoked"}]
  BY DEF TypeOK, MintRunKeyAndFlip
<1>3. handouts' \in [Runs -> Nat]
  <2>1. /\ handouts \in [Runs -> Nat]
        /\ handouts' = [handouts EXCEPT ![r] = IF Flips(r) THEN @ + 1 ELSE @]
    BY DEF TypeOK, MintRunKeyAndFlip
  <2>2. \A n \in Nat : n + 1 \in Nat
    OBVIOUS
  <2>3. \A x \in Runs : handouts'[x] = handouts[x] \/ handouts'[x] = handouts[x] + 1
    BY <2>1
  <2> QED BY <2>1, <2>2, <2>3
<1> QED BY <1>1, <1>2, <1>3 DEF TypeOK, MintRunKeyAndFlip

\* A failed launch keeps the types of the run rows and of the fleet.
LEMMA FailLaunchType ==
  ASSUME TypeOK, NEW r, FailLaunch(r)
  PROVE  /\ status' \in [Runs -> Status] /\ started' \in [Runs -> BOOLEAN]
         /\ outcome' \in [Runs -> Outcome] /\ key' \in [Runs -> {"none", "live", "revoked"}]
         /\ moved' \in [Runs -> BOOLEAN] /\ handouts' \in [Runs -> Nat]
         /\ enabled' \in BOOLEAN /\ paused' \in [Runners -> BOOLEAN]
         /\ held' \in [Runners -> BOOLEAN] /\ away' \in [Runners -> BOOLEAN]
<1>1. status' \in [Runs -> Status]
  BY DEF TypeOK, FailLaunch, Status, Ended
<1>2. key' \in [Runs -> {"none", "live", "revoked"}] /\ held' \in [Runners -> BOOLEAN]
  BY DEF TypeOK, FailLaunch, Revoked
<1> QED BY <1>1, <1>2 DEF TypeOK, FailLaunch

\* Dispatch passes keep every type.
LEMMA PassType_Step ==
  ASSUME TypeOK, NEW p \in Passes, PassStep(p)
  PROVE  TypeOK'
<1> /\ pass[p] \in PassType
    /\ pass[p].pc \in {"mint", "launch", "check"} => pass[p].run \in Runs
  BY DEF TypeOK, PassType
<1>1. ASSUME PassStart(p) PROVE TypeOK'
  <2>1. pass' \in [Passes -> PassType]
    BY <1>1 DEF TypeOK, PassStart, PassType, IdlePass
  <2> QED
    BY <1>1, <2>1 DEF TypeOK, PassStart, issueVars, fleetVars, claimVars, runVars, daemonVars
<1>2. ASSUME NEW c \in Issues \X States, NEW x \in Runners, NEW r \in Runs,
             ClaimRun(p, c, x, r)
      PROVE  TypeOK'
  <2>1. pass' \in [Passes -> PassType]
    BY <1>2, PassEdit DEF TypeOK, ClaimRun
  <2>2. /\ status' \in [Runs -> Status] /\ issueOf' \in [Runs -> Issues \cup {None}]
        /\ runnerOf' \in [Runs -> Runners \cup {None}]
        /\ startState' \in [Runs -> States \cup {None}]
    BY <1>2 DEF TypeOK, ClaimRun, Status, Active
  <2> QED
    BY <1>2, <2>1, <2>2 DEF TypeOK, ClaimRun, issueVars, fleetVars, daemonVars
<1>3. ASSUME NEW c \in Issues \X States, NEW x \in Runners, ClaimLost(p, c, x)
      PROVE  TypeOK'
  <2>1. pass' \in [Passes -> PassType]
    BY <1>3, PassEdit DEF TypeOK, ClaimLost
  <2> QED
    BY <1>3, <2>1 DEF TypeOK, ClaimLost, issueVars, fleetVars, claimVars, runVars, daemonVars
<1>4. ASSUME PassMint(p) PROVE TypeOK'
  <2>1. pass' \in [Passes -> PassType]
    BY <1>4, PassEdit DEF TypeOK, PassMint
  <2> QED
    BY <1>4, <2>1, MintType DEF TypeOK, PassMint, issueVars, fleetVars, claimVars, daemonVars
<1>5. ASSUME LaunchReturned(p) PROVE TypeOK'
  <2>1. pass' \in [Passes -> PassType]
    BY <1>5, PassEdit DEF TypeOK, LaunchReturned
  <2>2. status' \in [Runs -> Status]
    BY <1>5 DEF TypeOK, LaunchReturned, Status, Active
  <2>3. /\ started' \in [Runs -> BOOLEAN] /\ held' \in [Runners -> BOOLEAN]
    BY <1>5, FlagSet DEF TypeOK, LaunchReturned
  <2> QED
    BY <1>5, <2>1, <2>2, <2>3 DEF TypeOK, LaunchReturned, issueVars, claimVars, daemonVars
<1>6. ASSUME LaunchThrew(p) PROVE TypeOK'
  <2>1. pass' \in [Passes -> PassType]
    BY <1>6, PassEdit DEF TypeOK, LaunchThrew
  <2> QED
    BY <1>6, <2>1, FailLaunchType DEF TypeOK, LaunchThrew, issueVars, claimVars, daemonVars
<1>7. ASSUME PassEnd(p) PROVE TypeOK'
  BY <1>7, IdleTypes DEF TypeOK, PassEnd, issueVars, fleetVars, claimVars, runVars, daemonVars
<1>8. ASSUME LaunchChecked(p) PROVE TypeOK'
  <2>1. pass' \in [Passes -> PassType]
    BY <1>8, PassEdit DEF TypeOK, LaunchChecked
  <2> QED
    BY <1>8, <2>1
    DEF TypeOK, LaunchChecked, issueVars, fleetVars, claimVars, runVars, daemonVars
<1> QED BY <1>1, <1>2, <1>3, <1>4, <1>5, <1>6, <1>7, <1>8 DEF PassStep

\* Whatever a poll changes in its local variables, they stay well typed.
LEMMA PollEdit ==
  /\ \A y \in PollType : /\ [y EXCEPT !.pc = "act", !.run = None] \in PollType
                         /\ [y EXCEPT !.cut = TRUE] \in PollType
                         /\ y.pc = "mint" => [y EXCEPT !.pc = "env"] \in PollType
  /\ \A T : \A y \in PollType : /\ [y EXCEPT !.assigned = @ \ T] \in PollType
                                /\ [y EXCEPT !.lost = @ \ T] \in PollType
                                /\ [y EXCEPT !.declined = @ \ T] \in PollType
  /\ \A T : \A y \in PollType, r \in Runs :
       [y EXCEPT !.pc = "mint", !.run = r, !.assigned = @ \ T] \in PollType
  /\ \A y \in PollType, r \in Runs :
       /\ [y EXCEPT !.pc = "act", !.run = None, !.out = @ \cup {r}] \in PollType
       /\ [y EXCEPT !.released = @ \cup {r}] \in PollType
<1>1. \A y \in PollType : /\ [y EXCEPT !.pc = "act", !.run = None] \in PollType
                          /\ [y EXCEPT !.cut = TRUE] \in PollType
                          /\ y.pc = "mint" => [y EXCEPT !.pc = "env"] \in PollType
  BY ZenonT(60) DEF PollType
<1>2. \A T : \A y \in PollType : /\ [y EXCEPT !.assigned = @ \ T] \in PollType
                                 /\ [y EXCEPT !.lost = @ \ T] \in PollType
                                 /\ [y EXCEPT !.declined = @ \ T] \in PollType
  BY SMTT(40) DEF PollType
<1>3. \A T : \A y \in PollType, r \in Runs :
        [y EXCEPT !.pc = "mint", !.run = r, !.assigned = @ \ T] \in PollType
  BY DEF PollType
<1>4. \A y \in PollType, r \in Runs :
        /\ [y EXCEPT !.pc = "act", !.run = None, !.out = @ \cup {r}] \in PollType
        /\ [y EXCEPT !.released = @ \cup {r}] \in PollType
  BY ZenonT(60) DEF PollType
<1> QED BY <1>1, <1>2, <1>3, <1>4

\* Polls keep every type.
LEMMA PollType_Step ==
  ASSUME TypeOK, NEW q \in Polls, PollStep(q)
  PROVE  TypeOK'
<1> /\ poll[q] \in PollType
    /\ poll[q].pc \in {"mint", "env"} => poll[q].run \in Runs
  BY DEF TypeOK, PollType
<1>1. ASSUME NEW x \in Runners, PollAdmit(q, x) PROVE TypeOK'
  <2>1. poll' \in [Polls -> PollType]
    <3> DEFINE new == [IdlePoll EXCEPT !.pc = "read", !.on = x, !.active = ~paused[x],
                         !.owned = table[x] \cup closing[x], !.declined = declined[x]]
    <3>1. /\ paused[x] \in BOOLEAN /\ table[x] \cup closing[x] \in SUBSET Runs
          /\ declined[x] \in SUBSET Runs
      BY DEF TypeOK
    <3>2. new \in PollType
      BY <3>1, ZenonT(60) DEF IdlePoll, PollType
    <3>3. poll' = [poll EXCEPT ![q] = new]
      BY <1>1 DEF PollAdmit
    <3> QED BY <3>2, <3>3 DEF TypeOK
  <2>2. away' \in [Runners -> BOOLEAN]
    BY <1>1 DEF TypeOK, PollAdmit
  <2> QED
    BY <1>1, <2>1, <2>2 DEF TypeOK, PollAdmit, issueVars, claimVars, runVars, daemonVars
<1>2. ASSUME NEW r \in Runs, PollRelease(q, r) PROVE TypeOK'
  <2>1. poll' \in [Polls -> PollType]
    <3>1. \A y \in PollType : [y EXCEPT !.declined = @ \ {r}, !.released =
                                 IF status[r] = "launching" \/ status[r] \in Ended
                                   THEN @ \cup {r} ELSE @] \in PollType
      BY ZenonT(60) DEF PollType
    <3> QED BY <1>2, <3>1 DEF TypeOK, PollRelease
  <2>2. /\ status' \in [Runs -> Status] /\ key' \in [Runs -> {"none", "live", "revoked"}]
    BY <1>2 DEF TypeOK, PollRelease, Status, Ended, Revoked
  <2> QED
    BY <1>2, <2>1, <2>2 DEF TypeOK, PollRelease, issueVars, fleetVars, claimVars, daemonVars
<1>3. ASSUME PollRead(q) PROVE TypeOK'
  <2>1. poll' \in [Polls -> PollType]
    <3> DEFINE mine == ActiveOn(poll[q].on)
               lost == {r \in mine : status[r] = "running" /\ r \notin poll[q].owned}
               assigned == {r \in mine : status[r] = "assigned" /\ poll[q].active}
    <3>1. /\ lost \in SUBSET Runs /\ assigned \in SUBSET Runs
          /\ Cancels(q, mine) \in SUBSET Runs
      BY DEF ActiveOn, ActiveRuns, Cancels, PollType
    <3>2. [poll[q] EXCEPT !.pc = "act", !.lost = lost, !.assigned = assigned,
                          !.cancels = Cancels(q, mine)] \in PollType
      BY <3>1 DEF PollType
    <3>3. poll' = [poll EXCEPT ![q] = [poll[q] EXCEPT !.pc = "act", !.lost = lost,
                     !.assigned = assigned, !.cancels = Cancels(q, mine)]]
      BY <1>3 DEF PollRead
    <3> QED BY <3>2, <3>3 DEF TypeOK
  <2> QED
    BY <1>3, <2>1 DEF TypeOK, PollRead, issueVars, fleetVars, claimVars, runVars, daemonVars
<1>4. ASSUME NEW e \in Enders, NEW r \in Runs, PollReconcile(q, e, r) PROVE TypeOK'
  <2>1. poll' \in [Polls -> PollType]
    BY <1>4, PollEdit DEF TypeOK, PollReconcile
  <2>2. ender' \in [Enders -> EnderType]
    <3>1. CASE status[r] = "running"
      <4>1. EndRun(e, q, r, "failed", TRUE) /\ "failed" \in Ended
        BY <1>4, <3>1 DEF PollReconcile, Ended
      <4> QED BY <4>1, EndRunType
    <3>2. CASE status[r] # "running"
      BY <1>4, <3>2 DEF PollReconcile, TypeOK
    <3> QED BY <3>1, <3>2
  <2> QED
    BY <1>4, <2>1, <2>2
    DEF TypeOK, PollReconcile, issueVars, fleetVars, claimVars, runVars, daemonVars
<1>5. ASSUME NEW r \in Runs, PollOffer(q, r) PROVE TypeOK'
  <2>1. poll' \in [Polls -> PollType]
    BY <1>5, PollEdit DEF TypeOK, PollOffer
  <2> QED
    BY <1>5, <2>1 DEF TypeOK, PollOffer, issueVars, fleetVars, claimVars, runVars, daemonVars
<1>6. ASSUME NEW e \in Enders, NEW r \in Runs, PollRefuse(q, e, r) PROVE TypeOK'
  <2>1. poll' \in [Polls -> PollType]
    BY <1>6, PollEdit DEF TypeOK, PollRefuse
  <2>2. ender' \in [Enders -> EnderType]
    <3>1. CASE status[r] = "assigned"
      <4>1. EndRun(e, q, r, "canceled", FALSE) /\ "canceled" \in Ended
        BY <1>6, <3>1 DEF PollRefuse, Ended
      <4> QED BY <4>1, EndRunType
    <3>2. CASE status[r] # "assigned"
      BY <1>6, <3>2 DEF PollRefuse, TypeOK
    <3> QED BY <3>1, <3>2
  <2> QED
    BY <1>6, <2>1, <2>2
    DEF TypeOK, PollRefuse, issueVars, fleetVars, claimVars, runVars, daemonVars
<1>7. ASSUME PollMint(q) PROVE TypeOK'
  <2>1. poll' \in [Polls -> PollType]
    BY <1>7, PollEdit DEF TypeOK, PollMint
  <2> QED
    BY <1>7, <2>1, MintType DEF TypeOK, PollMint, issueVars, fleetVars, claimVars, daemonVars
<1>8. ASSUME PollPack(q) PROVE TypeOK'
  <2>1. poll' \in [Polls -> PollType]
    BY <1>8, PollEdit DEF TypeOK, PollPack
  <2> QED
    BY <1>8, <2>1 DEF TypeOK, PollPack, issueVars, fleetVars, claimVars, runVars, daemonVars
<1>9. ASSUME PollEnvThrew(q) PROVE TypeOK'
  <2>1. poll' \in [Polls -> PollType]
    BY <1>9, PollEdit DEF TypeOK, PollEnvThrew
  <2> QED
    BY <1>9, <2>1, FailLaunchType DEF TypeOK, PollEnvThrew, issueVars, claimVars, daemonVars
<1>10. ASSUME NEW took \in SUBSET Runs, PollRespond(q, took) PROVE TypeOK'
  <2>1. poll' \in [Polls -> PollType]
    BY <1>10, IdleTypes DEF TypeOK, PollRespond
  <2>2. /\ table' \in [Runners -> SUBSET Runs] /\ closing' \in [Runners -> SUBSET Runs]
        /\ declined' \in [Runners -> SUBSET Runs]
    <3>1. /\ poll[q].out \in SUBSET Runs /\ poll[q].cancels \in SUBSET Runs
          /\ table \in [Runners -> SUBSET Runs] /\ closing \in [Runners -> SUBSET Runs]
          /\ declined \in [Runners -> SUBSET Runs]
      BY DEF TypeOK, PollType
    <3>2. CASE poll[q].cut
      BY <1>10, <3>1, <3>2 DEF PollRespond
    <3>3. CASE ~poll[q].cut
      <4> DEFINE x == poll[q].on
                 open == declined[x] \ poll[q].released
      <4>1. /\ table' = [table EXCEPT ![x] = (@ \ poll[q].cancels) \cup took]
            /\ closing' = [closing EXCEPT ![x] = @ \cup (table[x] \cap poll[q].cancels)]
            /\ declined' = [declined EXCEPT ![x] = open \cup (poll[q].out \ took)]
        BY <1>10, <3>3 DEF PollRespond
      <4> QED BY <3>1, <4>1
    <3> QED BY <3>2, <3>3
  <2> QED
    BY <1>10, <2>1, <2>2 DEF TypeOK, PollRespond, issueVars, fleetVars, claimVars, runVars
<1>11. ASSUME PollEvicted(q) PROVE TypeOK'
  BY <1>11, IdleTypes DEF TypeOK, PollEvicted, issueVars, fleetVars, claimVars, runVars, daemonVars
<1>12. ASSUME PollCut(q) PROVE TypeOK'
  <2>1. poll' \in [Polls -> PollType]
    BY <1>12, PollEdit DEF TypeOK, PollCut
  <2> QED
    BY <1>12, <2>1 DEF TypeOK, PollCut, issueVars, fleetVars, claimVars, runVars, daemonVars
<1> QED
  BY <1>1, <1>2, <1>3, <1>4, <1>5, <1>6, <1>7, <1>8, <1>9, <1>10, <1>11, <1>12
  DEF PollStep, PollWork

\* A finish request keeps the types of what it changes.
LEMMA FinishRunType ==
  ASSUME TypeOK, NEW e \in Enders, NEW by \in Runners \cup Polls \cup Operators \cup {None},
         NEW r \in Runs, NEW to \in Ended, NEW b \in BOOLEAN, FinishRun(e, by, r, to, b)
  PROVE  /\ ender' \in [Enders -> EnderType]
         /\ status' \in [Runs -> Status] /\ started' \in [Runs -> BOOLEAN]
<1>1. CASE Finishable(r)
  <2>1. /\ Began(e, by, r, to, b, TRUE)
        /\ status' = [status EXCEPT ![r] = "running"] /\ started' = [started EXCEPT ![r] = TRUE]
    BY <1>1 DEF FinishRun
  <2>2. status \in [Runs -> Status] /\ "running" \in Status /\ started \in [Runs -> BOOLEAN]
    BY DEF TypeOK, Status, Active
  <2>3. ender' \in [Enders -> EnderType]
    BY <2>1, BeganType
  <2> QED BY <2>1, <2>2, <2>3
<1>2. CASE ~Finishable(r)
  BY <1>2 DEF FinishRun, TypeOK
<1> QED BY <1>1, <1>2

\* Daemons keep every type.
LEMMA DaemonType_Step ==
  ASSUME TypeOK, NEW x \in Runners, DaemonStep(x)
  PROVE  TypeOK'
<1>1. ASSUME GoAway(x) PROVE TypeOK'
  BY <1>1 DEF TypeOK, GoAway, issueVars, claimVars, runVars, daemonVars
<1>2. ASSUME HoldExpires(x) PROVE TypeOK'
  BY <1>2 DEF TypeOK, HoldExpires, issueVars, claimVars, runVars, daemonVars
<1>3. ASSUME NEW kept \in SUBSET Runs, DaemonCrash(x, kept) PROVE TypeOK'
  <2>1. poll' \in [Polls -> PollType]
    <3>1. \A q \in Polls : poll[q] \in PollType /\ [poll[q] EXCEPT !.cut = TRUE] \in PollType
      BY PollEdit DEF TypeOK
    <3> QED BY <1>3, <3>1 DEF DaemonCrash
  <2>2. /\ table' \in [Runners -> SUBSET Runs] /\ closing' \in [Runners -> SUBSET Runs]
        /\ orphans' \in [Runners -> SUBSET Runs] /\ crashes' \in Nat
    BY <1>3 DEF TypeOK, DaemonCrash
  <2> QED
    BY <1>3, <2>1, <2>2 DEF TypeOK, DaemonCrash, issueVars, fleetVars, claimVars, runVars
<1>4. ASSUME NEW r \in Runs, MarkRunRunning(x, r) PROVE TypeOK'
  <2>1. status' \in [Runs -> Status]
    BY <1>4 DEF TypeOK, MarkRunRunning, Status, Active
  <2> QED
    BY <1>4, <2>1 DEF TypeOK, MarkRunRunning, issueVars, fleetVars, claimVars, daemonVars
<1>5. ASSUME NEW r \in Runs, Cleanup(x, r) PROVE TypeOK'
  BY <1>5 DEF TypeOK, Cleanup, issueVars, fleetVars, claimVars, runVars
<1>6. ASSUME NEW r \in Runs, FinishLost(x, r) PROVE TypeOK'
  BY <1>6 DEF TypeOK, FinishLost, issueVars, fleetVars, claimVars, runVars
<1>7. ASSUME NEW e \in Enders, NEW r \in Runs, OrphanReport(x, e, r) PROVE TypeOK'
  <2>1. /\ ender' \in [Enders -> EnderType]
        /\ status' \in [Runs -> Status] /\ started' \in [Runs -> BOOLEAN]
    BY <1>7, FinishRunType DEF OrphanReport, Ended
  <2> QED
    BY <1>7, <2>1 DEF TypeOK, OrphanReport, issueVars, fleetVars, claimVars
<1>8. ASSUME NEW e \in Enders, NEW r \in Runs, NEW to \in {"completed", "failed"},
             NEW b \in BOOLEAN, FinishReport(x, e, r, to, b)
      PROVE  TypeOK'
  <2>1. /\ ender' \in [Enders -> EnderType]
        /\ status' \in [Runs -> Status] /\ started' \in [Runs -> BOOLEAN]
    <3>1. FinishRun(e, x, r, to, b) /\ to \in Ended
      BY <1>8 DEF FinishReport, Ended
    <3> QED BY <3>1, FinishRunType
  <2> QED
    BY <1>8, <2>1 DEF TypeOK, FinishReport, issueVars, fleetVars, claimVars
<1> QED BY <1>1, <1>2, <1>3, <1>4, <1>5, <1>6, <1>7, <1>8 DEF DaemonStep

\* Sweeps keep every type.
LEMMA SweepType_Step ==
  ASSUME TypeOK, SweepStep
  PROVE  TypeOK'
<1>1. ASSUME NEW e \in Enders, NEW r \in Runs,
             SweepOverdue(e, r) \/ SweepOffline(e, r)
               \/ \E to \in {"completed", "failed"} : PollManagedRun(e, r, to)
      PROVE  TypeOK'
  <2>1. PICK to \in Ended, b \in BOOLEAN : EndRun(e, None, r, to, b)
    BY <1>1 DEF SweepOverdue, SweepOffline, PollManagedRun, Ended
  <2>2. ender' \in [Enders -> EnderType]
    BY <2>1, EndRunType
  <2> QED
    BY <1>1, <2>2
    DEF TypeOK, SweepOverdue, SweepOffline, PollManagedRun,
        issueVars, fleetVars, claimVars, runVars, daemonVars
<1>2. ASSUME NEW w \in Sweepers, NEW r \in Runs, SweepStalledRead(w, r) PROVE TypeOK'
  BY <1>2
  DEF TypeOK, SweepStalledRead, issueVars, fleetVars, claimVars, runVars, daemonVars
<1>3. ASSUME NEW w \in Sweepers, SweepStalledFail(w) PROVE TypeOK'
  <2>1. stall' \in [Sweepers -> Runs \cup {None}]
    BY <1>3 DEF TypeOK, SweepStalledFail
  <2> QED
    BY <1>3, <2>1, FailLaunchType DEF TypeOK, SweepStalledFail, issueVars, claimVars, daemonVars
<1>4. ASSUME NEW r \in Runs, SweepExpiredKey(r) PROVE TypeOK'
  BY <1>4 DEF TypeOK, SweepExpiredKey, Revoked, issueVars, fleetVars, claimVars, daemonVars
<1> QED BY <1>1, <1>2, <1>3, <1>4 DEF SweepStep

\* People and agents keep every type.
LEMMA PersonType_Step ==
  ASSUME TypeOK, PersonStep \/ AgentStep
  PROVE  TypeOK'
<1>1. ASSUME Rearm PROVE TypeOK'
  BY <1>1 DEF TypeOK, Rearm, issueVars, claimVars, runVars, daemonVars
<1>2. ASSUME NEW e \in Enders, NEW r \in Runs, CancelRun(e, r) PROVE TypeOK'
  <2>1. ender' \in [Enders -> EnderType]
    BY <1>2, EndRunType DEF CancelRun, Ended
  <2> QED
    BY <1>2, <2>1 DEF TypeOK, CancelRun, issueVars, fleetVars, claimVars, runVars, daemonVars
<1>3. ASSUME NEW o \in Operators, DisableAutomation(o) PROVE TypeOK'
  BY <1>3
  DEF TypeOK, DisableAutomation, OpType, IdleOp, issueVars, claimVars, runVars, daemonVars
<1>4. ASSUME NEW o \in Operators, NEW x \in Runners, PauseRunner(o, x) PROVE TypeOK'
  BY <1>4 DEF TypeOK, PauseRunner, OpType, IdleOp, issueVars, claimVars, runVars, daemonVars
<1>5. ASSUME NEW o \in Operators, CancelAssignedList(o) PROVE TypeOK'
  <2>1. op' \in [Operators -> OpType]
    <3> DEFINE todo == {r \in Runs : status[r] = "assigned" /\ runnerOf[r] \in op[o].scope}
    <3>1. [op[o] EXCEPT !.pc = "cancel", !.todo = todo] \in OpType
      BY ZenonT(60) DEF TypeOK, OpType
    <3>2. op' = [op EXCEPT ![o] = [op[o] EXCEPT !.pc = "cancel", !.todo = todo]]
      BY <1>5 DEF CancelAssignedList
    <3> QED BY <3>1, <3>2 DEF TypeOK
  <2> QED
    BY <1>5, <2>1
    DEF TypeOK, CancelAssignedList, issueVars, fleetVars, claimVars, runVars, daemonVars
<1>6. ASSUME NEW o \in Operators, NEW e \in Enders, NEW r \in Runs, CancelAssignedRun(o, e, r)
      PROVE  TypeOK'
  <2>1. ender' \in [Enders -> EnderType]
    <3>1. CASE status[r] = "assigned"
      <4>1. EndRun(e, o, r, "canceled", FALSE) /\ "canceled" \in Ended
        BY <1>6, <3>1 DEF CancelAssignedRun, Ended
      <4> QED BY <4>1, EndRunType
    <3>2. CASE status[r] # "assigned"
      BY <1>6, <3>2 DEF CancelAssignedRun, TypeOK
    <3> QED BY <3>1, <3>2
  <2>2. op' \in [Operators -> OpType]
    <3>1. [op[o] EXCEPT !.todo = @ \ {r}] \in OpType
      BY SMTT(40) DEF TypeOK, OpType
    <3> QED BY <1>6, <3>1 DEF TypeOK, CancelAssignedRun
  <2> QED
    BY <1>6, <2>1, <2>2
    DEF TypeOK, CancelAssignedRun, issueVars, fleetVars, claimVars, runVars, daemonVars
<1>7. ASSUME NEW o \in Operators, CancelAssignedDone(o) PROVE TypeOK'
  BY <1>7, IdleTypes
  DEF TypeOK, CancelAssignedDone, issueVars, fleetVars, claimVars, runVars, daemonVars
<1>8. ASSUME NEW i \in Issues, ResumeIssue(i) PROVE TypeOK'
  BY <1>8 DEF TypeOK, ResumeIssue, fleetVars, claimVars, runVars, daemonVars
<1>9. ASSUME NEW i \in Issues, NEW s \in States, HumanTransition(i, s) PROVE TypeOK'
  BY <1>9 DEF TypeOK, HumanTransition, fleetVars, claimVars, runVars, daemonVars
<1>10. ASSUME NEW r \in Runs, NEW s \in States, AgentTransition(r, s) PROVE TypeOK'
  BY <1>10 DEF TypeOK, AgentTransition, fleetVars, claimVars, daemonVars
<1> QED
  BY <1>1, <1>2, <1>3, <1>4, <1>5, <1>6, <1>7, <1>8, <1>9, <1>10 DEF PersonStep, AgentStep

\* Every row and every handler's local variables keep their declared shape,
\* however many handlers run at once (all of engine.ts's writers).
THEOREM TypeCorrect == Spec => []TypeOK
<1>1. Init => TypeOK
  BY InitType
<1>2. TypeOK /\ [Next]_vars => TypeOK'
  <2> SUFFICES ASSUME TypeOK, [Next]_vars PROVE TypeOK'
    OBVIOUS
  <2>1. CASE Next
    BY <2>1, EnderType_Step, PassType_Step, PollType_Step, DaemonType_Step, SweepType_Step,
       PersonType_Step
    DEF Next
  <2>2. CASE UNCHANGED vars
    BY <2>2 DEF TypeOK, vars, issueVars, fleetVars, claimVars, runVars, daemonVars
  <2> QED BY <2>1, <2>2
<1> QED BY <1>1, <1>2, PTL DEF Spec

-----------------------------------------------------------------------------
(* The exclusive claim, the caps and the refinement of IssueClaim, from one *)
(* fact about the status column: whatever a step does, it moves at most one *)
(* run, forwards, and only a claim makes a run active.                      *)

Unmoved == UNCHANGED <<status, claimVars>>

Moved(r, s) ==
  /\ status[r] \in Active /\ s \in Delivered \cup Ended
  /\ status' = [status EXCEPT ![r] = s] /\ UNCHANGED claimVars

Claimed(c, x, r) ==
  /\ status[r] = "unused" /\ ClaimGuard(c, x)
  /\ status' = [status EXCEPT ![r] = "assigned"]
  /\ issueOf' = [issueOf EXCEPT ![r] = c[1]]
  /\ runnerOf' = [runnerOf EXCEPT ![r] = x]
  /\ startState' = [startState EXCEPT ![r] = c[2]]

RunMove ==
  \/ Unmoved
  \/ \E r \in Runs, s \in Delivered \cup Ended : Moved(r, s)
  \/ \E c \in Issues \X States, x \in Runners, r \in Runs : Claimed(c, x, r)

-----------------------------------------------------------------------------
\* The one-shot flip moves an assigned run to launching or moves nothing.
LEMMA MintMoves ==
  ASSUME TypeOK, NEW r \in Runs, MintRunKeyAndFlip(r), UNCHANGED claimVars
  PROVE  RunMove
<1>1. CASE Flips(r)
  <2>1. Moved(r, "launching")
    BY <1>1 DEF MintRunKeyAndFlip, Flips, Moved, Active, Delivered
  <2> QED BY <2>1 DEF RunMove, Delivered
<1>2. CASE ~Flips(r)
  <2>1. status' = status
    BY <1>2 DEF MintRunKeyAndFlip, TypeOK
  <2> QED BY <2>1 DEF RunMove, Unmoved
<1> QED BY <1>1, <1>2

\* A failed launch ends a run that has not started, or moves nothing.
LEMMA FailLaunchMoves ==
  ASSUME TypeOK, NEW r \in Runs, FailLaunch(r), UNCHANGED claimVars
  PROVE  RunMove
<1>1. CASE status[r] \in {"assigned", "launching"}
  <2>1. Moved(r, "failed")
    BY <1>1 DEF FailLaunch, Moved, Active, Ended
  <2> QED BY <2>1 DEF RunMove, Ended
<1>2. CASE status[r] \notin {"assigned", "launching"}
  <2>1. status' = status
    BY <1>2 DEF FailLaunch, TypeOK
  <2> QED BY <2>1 DEF RunMove, Unmoved
<1> QED BY <1>1, <1>2

\* A finish request starts a delivered run, or moves nothing.
LEMMA FinishMoves ==
  ASSUME TypeOK, NEW e, NEW by, NEW r \in Runs, NEW to, NEW b,
         FinishRun(e, by, r, to, b), UNCHANGED claimVars
  PROVE  RunMove
<1>1. CASE Finishable(r)
  <2>1. Moved(r, "running")
    BY <1>1 DEF FinishRun, Finishable, Moved, Active, Delivered
  <2> QED BY <2>1 DEF RunMove, Delivered
<1>2. CASE ~Finishable(r)
  BY <1>2 DEF FinishRun, RunMove, Unmoved
<1> QED BY <1>1, <1>2

\* Every step of every handler moves at most one run (engine.ts's writers).
LEMMA EveryStepMoves ==
  ASSUME TypeOK, [Next]_vars
  PROVE  RunMove
<1>1. ASSUME NEW e \in Enders, EnderStep(e) PROVE RunMove
  <2>1. CASE EndCas(e)
    <3>1. CASE Endable(ender[e].run)
      <4>1. /\ ender[e].run \in Runs /\ ender[e].to \in Ended
        BY <2>1 DEF EndCas, TypeOK, EnderType
      <4>2. Moved(ender[e].run, ender[e].to)
        BY <2>1, <3>1, <4>1 DEF EndCas, Endable, Moved
      <4> QED BY <4>1, <4>2 DEF RunMove
    <3>2. CASE ~Endable(ender[e].run)
      BY <2>1, <3>2 DEF EndCas, RunMove, Unmoved
    <3> QED BY <3>1, <3>2
  <2>2. CASE EndSettle(e)
    BY <2>2 DEF EndSettle, RunMove, Unmoved
  <2>3. CASE EndEvicted(e)
    BY <2>3 DEF EndEvicted, runVars, RunMove, Unmoved
  <2> QED BY <1>1, <2>1, <2>2, <2>3 DEF EnderStep
<1>2. ASSUME NEW p \in Passes, PassStep(p) PROVE RunMove
  <2> pass[p].pc \in {"mint", "launch", "check"} => pass[p].run \in Runs
    BY DEF TypeOK, PassType
  <2>1. CASE PassStart(p) \/ PassEnd(p) \/ LaunchChecked(p)
    BY <2>1 DEF PassStart, PassEnd, LaunchChecked, runVars, RunMove, Unmoved
  <2>2. CASE PassMint(p)
    BY <2>2, MintMoves DEF PassMint
  <2>3. CASE LaunchReturned(p)
    <3> DEFINE r == pass[p].run
    <3>1. r \in Runs /\ UNCHANGED claimVars
          /\ status' = [status EXCEPT ![r] = IF LaunchLands(r) THEN "running" ELSE @]
      BY <2>3 DEF LaunchReturned
    <3>2. CASE LaunchLands(r)
      <4>1. Moved(r, "running")
        BY <3>1, <3>2 DEF LaunchLands, Moved, Active, Delivered
      <4> QED BY <3>1, <4>1 DEF RunMove, Delivered
    <3>3. CASE ~LaunchLands(r)
      <4>1. status' = status
        BY <3>1, <3>3 DEF TypeOK
      <4> QED BY <3>1, <4>1 DEF RunMove, Unmoved
    <3> QED BY <3>2, <3>3
  <2>4. CASE LaunchThrew(p)
    BY <2>4, FailLaunchMoves DEF LaunchThrew
  <2>5. ASSUME NEW c \in Issues \X States, NEW x \in Runners, ClaimLost(p, c, x) PROVE RunMove
    BY <2>5 DEF ClaimLost, runVars, RunMove, Unmoved
  <2>6. ASSUME NEW c \in Issues \X States, NEW x \in Runners, NEW r \in Runs,
               ClaimRun(p, c, x, r)
        PROVE  RunMove
    <3>1. Claimed(c, x, r)
      BY <2>6 DEF ClaimRun, Claimed
    <3> QED BY <3>1 DEF RunMove
  <2> QED BY <1>2, <2>1, <2>2, <2>3, <2>4, <2>5, <2>6 DEF PassStep
<1>3. ASSUME NEW q \in Polls, PollStep(q) PROVE RunMove
  <2> poll[q].pc \in {"mint", "env"} => poll[q].run \in Runs
    BY DEF TypeOK, PollType
  <2>1. CASE PollMint(q)
    BY <2>1, MintMoves DEF PollMint
  <2>2. CASE PollEnvThrew(q)
    BY <2>2, FailLaunchMoves DEF PollEnvThrew
  <2>3. ASSUME NEW r \in Runs, PollRelease(q, r) PROVE RunMove
    <3>1. CASE status[r] = "launching"
      <4>1. Moved(r, "canceled")
        BY <2>3, <3>1 DEF PollRelease, Moved, Active, Ended
      <4> QED BY <4>1 DEF RunMove, Ended
    <3>2. CASE status[r] # "launching"
      <4>1. status' = status
        BY <2>3, <3>2 DEF PollRelease, TypeOK
      <4> QED BY <2>3, <4>1 DEF PollRelease, RunMove, Unmoved
    <3> QED BY <3>1, <3>2
  <2>4. ASSUME NEW r \in Runs, NEW e \in Enders,
               PollReconcile(q, e, r) \/ PollRefuse(q, e, r)
        PROVE  RunMove
    BY <2>4 DEF PollReconcile, PollRefuse, runVars, RunMove, Unmoved
  <2>5. ASSUME NEW x \in Runners, PollAdmit(q, x) PROVE RunMove
    BY <2>5 DEF PollAdmit, runVars, RunMove, Unmoved
  <2>6. ASSUME NEW took \in SUBSET Runs, PollRespond(q, took) PROVE RunMove
    BY <2>6 DEF PollRespond, runVars, RunMove, Unmoved
  <2>7. ASSUME PollRead(q) \/ PollPack(q) \/ PollEvicted(q) \/ PollCut(q) PROVE RunMove
    BY <2>7 DEF PollRead, PollPack, PollEvicted, PollCut, runVars, RunMove, Unmoved
  <2>8. ASSUME NEW r \in Runs, PollOffer(q, r) PROVE RunMove
    BY <2>8 DEF PollOffer, runVars, RunMove, Unmoved
  <2> QED BY <1>3, <2>1, <2>2, <2>3, <2>4, <2>5, <2>6, <2>7, <2>8 DEF PollStep, PollWork
<1>4. ASSUME NEW x \in Runners, DaemonStep(x) PROVE RunMove
  <2>1. ASSUME NEW kept \in SUBSET Runs, DaemonCrash(x, kept) PROVE RunMove
    BY <2>1 DEF DaemonCrash, runVars, RunMove, Unmoved
  <2>2. ASSUME NEW r \in Runs, MarkRunRunning(x, r) PROVE RunMove
    <3>1. Moved(r, "running")
      BY <2>2 DEF MarkRunRunning, Moved, Active, Delivered
    <3> QED BY <3>1 DEF RunMove, Delivered
  <2>3. ASSUME NEW r \in Runs, Cleanup(x, r) \/ FinishLost(x, r) PROVE RunMove
    BY <2>3 DEF Cleanup, FinishLost, runVars, RunMove, Unmoved
  <2>4. ASSUME NEW e \in Enders, NEW r \in Runs, OrphanReport(x, e, r) PROVE RunMove
    BY <2>4, FinishMoves DEF OrphanReport
  <2>5. ASSUME NEW e \in Enders, NEW r \in Runs, NEW to, NEW b, FinishReport(x, e, r, to, b)
        PROVE  RunMove
    BY <2>5, FinishMoves DEF FinishReport
  <2>6. CASE GoAway(x) \/ HoldExpires(x)
    BY <2>6 DEF GoAway, HoldExpires, runVars, RunMove, Unmoved
  <2> QED BY <1>4, <2>1, <2>2, <2>3, <2>4, <2>5, <2>6 DEF DaemonStep
<1>5. CASE SweepStep
  <2>1. ASSUME NEW w \in Sweepers, SweepStalledFail(w) PROVE RunMove
    <3>1. stall[w] \in Runs
      BY <2>1 DEF TypeOK, SweepStalledFail
    <3> QED BY <2>1, <3>1, FailLaunchMoves DEF SweepStalledFail
  <2>2. ASSUME NEW r \in Runs, SweepExpiredKey(r) PROVE RunMove
    BY <2>2 DEF SweepExpiredKey, RunMove, Unmoved
  <2>3. ASSUME NEW w \in Sweepers, NEW r \in Runs, SweepStalledRead(w, r) PROVE RunMove
    BY <2>3 DEF SweepStalledRead, runVars, RunMove, Unmoved
  <2>4. ASSUME NEW e \in Enders, NEW r \in Runs, NEW to, PollManagedRun(e, r, to)
        PROVE  RunMove
    BY <2>4 DEF PollManagedRun, runVars, RunMove, Unmoved
  <2>5. ASSUME NEW e \in Enders, NEW r \in Runs, SweepOverdue(e, r) \/ SweepOffline(e, r)
        PROVE  RunMove
    BY <2>5 DEF SweepOverdue, SweepOffline, runVars, RunMove, Unmoved
  <2> QED BY <1>5, <2>1, <2>2, <2>3, <2>4, <2>5 DEF SweepStep
<1>6. CASE PersonStep \/ AgentStep
  BY <1>6
  DEF PersonStep, AgentStep, Rearm, CancelRun, DisableAutomation, CancelAssignedList,
      CancelAssignedDone, PauseRunner, CancelAssignedRun, ResumeIssue, HumanTransition,
      AgentTransition, runVars, RunMove, Unmoved
<1>7. CASE UNCHANGED vars
  BY <1>7 DEF vars, runVars, RunMove, Unmoved
<1> QED BY <1>1, <1>2, <1>3, <1>4, <1>5, <1>6, <1>7 DEF Next

-----------------------------------------------------------------------------
(* What a move does to the set of active runs.                              *)

\* A moved run leaves the active set or stays in it; nothing joins.
LEMMA MovedShrinks ==
  ASSUME TypeOK, NEW r \in Runs, NEW s \in Delivered \cup Ended, Moved(r, s)
  PROVE  ActiveRuns' \subseteq ActiveRuns
BY DEF TypeOK, Moved, ActiveRuns

\* A claimed run joins the active set, alone, and no other run's row changes.
LEMMA ClaimedJoins ==
  ASSUME TypeOK, NEW c \in Issues \X States, NEW x \in Runners, NEW r \in Runs,
         Claimed(c, x, r)
  PROVE  /\ ActiveRuns' = ActiveRuns \cup {r} /\ r \notin ActiveRuns
         /\ issueOf'[r] = c[1] /\ runnerOf'[r] = x /\ startState'[r] = c[2]
         /\ \A r2 \in Runs \ {r} : /\ issueOf'[r2] = issueOf[r2]
                                   /\ runnerOf'[r2] = runnerOf[r2]
                                   /\ startState'[r2] = startState[r2]
<1>1. /\ ActiveRuns' = ActiveRuns \cup {r}
      /\ r \notin ActiveRuns
  BY DEF TypeOK, Claimed, ActiveRuns, Active
<1> QED BY <1>1 DEF TypeOK, Claimed

\* The exclusive claim: at most one active run per issue, for any number of
\* racing passes (claimRun's NOT EXISTS).
THEOREM ClaimsAreExclusive == Spec => []OneRunPerIssue
<1>1. Init => OneRunPerIssue
  BY DEF Init, OneRunPerIssue, ActiveRuns, Active
<1>2. TypeOK /\ OneRunPerIssue /\ [Next]_vars => OneRunPerIssue'
  <2> SUFFICES ASSUME TypeOK, OneRunPerIssue, [Next]_vars PROVE OneRunPerIssue'
    OBVIOUS
  <2>1. CASE Unmoved
    BY <2>1 DEF Unmoved, claimVars, OneRunPerIssue, ActiveRuns
  <2>2. ASSUME NEW r \in Runs, NEW s \in Delivered \cup Ended, Moved(r, s)
        PROVE  OneRunPerIssue'
    BY <2>2, MovedShrinks DEF OneRunPerIssue, Moved, claimVars
  <2>3. ASSUME NEW c \in Issues \X States, NEW x \in Runners, NEW r \in Runs, Claimed(c, x, r)
        PROVE  OneRunPerIssue'
    <3>1. \A r2 \in ActiveRuns : issueOf[r2] # c[1]
      BY <2>3 DEF Claimed, ClaimGuard, Eligible
    <3> QED BY <2>3, <3>1, ClaimedJoins DEF OneRunPerIssue, ActiveRuns
  <2> QED BY <2>1, <2>2, <2>3, EveryStepMoves DEF RunMove
<1> QED BY <1>1, <1>2, TypeCorrect, PTL DEF Spec

-----------------------------------------------------------------------------
(* The caps.                                                                *)

SlotsOf(s) == {r \in ActiveRuns : startState[r] = s}
FleetCap ==
  IF UseRoster THEN \A s \in States : Cardinality(SlotsOf(s)) <= RosterLimit[s]
               ELSE Cardinality(ActiveRuns) <= GlobalCap

\* Runs counted against a cap, before and after a step.
LEMMA CountShrinks ==
  ASSUME NEW S, NEW T, IsFiniteSet(S), T \subseteq S, NEW limit \in Nat,
         Cardinality(S) <= limit
  PROVE  Cardinality(T) <= limit
<1>1. /\ Cardinality(T) <= Cardinality(S) /\ IsFiniteSet(T)
  BY FS_Subset
<1>2. Cardinality(T) \in Nat /\ Cardinality(S) \in Nat
  BY <1>1, FS_CardinalityType
<1> QED BY <1>1, <1>2

\* A claim adds one run to a count it was below.
LEMMA CountGrows ==
  ASSUME NEW S, NEW r, IsFiniteSet(S), NEW limit \in Nat, Cardinality(S) < limit
  PROVE  Cardinality(S \cup {r}) <= limit
<1>1. /\ Cardinality(S \cup {r}) \in {Cardinality(S), Cardinality(S) + 1}
      /\ Cardinality(S) \in Nat
  BY FS_AddElement, FS_CardinalityType
<1> QED BY <1>1

\* Racing passes never push a runner past max_concurrent, nor the fleet past
\* its quota policy, for any caps (claimRun's two counting subqueries).
THEOREM CapsAlwaysHold == Spec => []CapsHold
<1>1. Init => CapsHold
  <2> SUFFICES ASSUME Init PROVE CapsHold
    OBVIOUS
  <2>1. ActiveRuns = {}
    BY DEF Init, ActiveRuns, Active
  <2>2. /\ \A x : ActiveOn(x) = {}
        /\ \A s : {r \in ActiveRuns : startState[r] = s} = {}
    BY <2>1 DEF ActiveOn
  <2>3. Cardinality({}) = 0
    BY FS_EmptySet
  <2>4. \A x \in Runners : Cardinality(ActiveOn(x)) <= MaxConcurrent[x]
    <3>1. \A x \in Runners : 0 <= MaxConcurrent[x]
      BY LimitsAssumption
    <3> QED BY <2>2, <2>3, <3>1
  <2>5. CASE UseRoster
    <3>1. \A s \in States : 0 <= RosterLimit[s]
      BY LimitsAssumption
    <3>2. \A s \in States : Cardinality({r \in ActiveRuns : startState[r] = s}) <= RosterLimit[s]
      BY <2>2, <2>3, <3>1
    <3> QED BY <2>4, <2>5, <3>2 DEF CapsHold
  <2>6. CASE ~UseRoster
    <3>1. 0 <= GlobalCap
      BY LimitsAssumption
    <3> QED BY <2>1, <2>3, <2>4, <2>6, <3>1 DEF CapsHold
  <2> QED BY <2>5, <2>6
<1>2. TypeOK /\ CapsHold /\ [Next]_vars => CapsHold'
  <2> SUFFICES ASSUME TypeOK, CapsHold, [Next]_vars PROVE CapsHold'
    OBVIOUS
  <2>0. /\ IsFiniteSet(ActiveRuns)
        /\ \A x : IsFiniteSet(ActiveOn(x))
        /\ \A s : IsFiniteSet(SlotsOf(s))
    BY SetsAssumption, FS_Subset DEF ActiveRuns, ActiveOn, SlotsOf
  <2>a. /\ \A x \in Runners : Cardinality(ActiveOn(x)) <= MaxConcurrent[x]
        /\ FleetCap
    BY DEF CapsHold, FleetCap, SlotsOf
  <2>b. ASSUME \A x \in Runners : Cardinality(ActiveOn(x)') <= MaxConcurrent[x], FleetCap'
        PROVE  CapsHold'
    BY <2>b DEF CapsHold, FleetCap, SlotsOf
  <2>1. CASE Unmoved
    BY <2>1 DEF Unmoved, claimVars, CapsHold, ActiveOn, ActiveRuns
  <2>2. ASSUME NEW r \in Runs, NEW s \in Delivered \cup Ended, Moved(r, s)
        PROVE  CapsHold'
    <3>1. /\ ActiveRuns' \subseteq ActiveRuns
          /\ \A x : ActiveOn(x)' \subseteq ActiveOn(x)
          /\ \A t : SlotsOf(t)' \subseteq SlotsOf(t)
      BY <2>2, MovedShrinks DEF ActiveOn, SlotsOf, Moved, claimVars
    <3>2. \A x \in Runners : Cardinality(ActiveOn(x)') <= MaxConcurrent[x]
      BY <2>0, <2>a, <3>1, CountShrinks, LimitsAssumption
    <3>3. CASE UseRoster
      <4>1. \A t \in States : Cardinality(SlotsOf(t)') <= RosterLimit[t]
        BY <2>0, <2>a, <3>1, <3>3, CountShrinks, LimitsAssumption DEF FleetCap
      <4> QED BY <2>b, <3>2, <3>3, <4>1 DEF FleetCap
    <3>4. CASE ~UseRoster
      <4>1. Cardinality(ActiveRuns') <= GlobalCap
        BY <2>0, <2>a, <3>1, <3>4, CountShrinks, LimitsAssumption DEF FleetCap
      <4> QED BY <2>b, <3>2, <3>4, <4>1 DEF FleetCap
    <3> QED BY <3>3, <3>4
  <2>3. ASSUME NEW c \in Issues \X States, NEW x \in Runners, NEW r \in Runs, Claimed(c, x, r)
        PROVE  CapsHold'
    <3>1. /\ Cardinality(ActiveOn(x)) < MaxConcurrent[x]
          /\ Cardinality(QuotaRuns(c[2])) < QuotaLimit(c[2])
      BY <2>3 DEF Claimed, ClaimGuard
    <3>2. /\ ActiveRuns' = ActiveRuns \cup {r}
          /\ ActiveOn(x)' = ActiveOn(x) \cup {r}
          /\ \A y \in Runners \ {x} : ActiveOn(y)' = ActiveOn(y)
          /\ SlotsOf(c[2])' = SlotsOf(c[2]) \cup {r}
          /\ \A t \in States \ {c[2]} : SlotsOf(t)' = SlotsOf(t)
      BY <2>3, ClaimedJoins DEF ActiveOn, SlotsOf, ActiveRuns
    <3>3. \A y \in Runners : Cardinality(ActiveOn(y)') <= MaxConcurrent[y]
      BY <2>0, <2>a, <3>1, <3>2, CountGrows, LimitsAssumption
    <3>4. CASE UseRoster
      <4>1. Cardinality(SlotsOf(c[2])) < RosterLimit[c[2]]
        BY <3>1, <3>4 DEF QuotaRuns, QuotaLimit, SlotsOf
      <4>2. \A t \in States : Cardinality(SlotsOf(t)') <= RosterLimit[t]
        BY <2>0, <2>a, <3>2, <3>4, <4>1, CountGrows, LimitsAssumption DEF FleetCap
      <4> QED BY <2>b, <3>3, <3>4, <4>2 DEF FleetCap
    <3>5. CASE ~UseRoster
      <4>1. Cardinality(ActiveRuns) < GlobalCap
        BY <3>1, <3>5 DEF QuotaRuns, QuotaLimit
      <4>2. Cardinality(ActiveRuns') <= GlobalCap
        BY <2>0, <3>2, <4>1, CountGrows, LimitsAssumption
      <4> QED BY <2>b, <3>3, <3>5, <4>2 DEF FleetCap
    <3> QED BY <3>4, <3>5
  <2> QED BY <2>1, <2>2, <2>3, EveryStepMoves DEF RunMove
<1> QED BY <1>1, <1>2, TypeCorrect, PTL DEF Spec

-----------------------------------------------------------------------------
(* The abstract claim service.                                              *)

\* A run that was ever claimed names an issue.
ClaimedRows == \A r \in Runs : status[r] # "unused" => issueOf[r] \in Issues

\* A run that is not unused goes on naming its issue.
LEMMA RowsStayClaimed == Spec => []ClaimedRows
<1>1. Init => ClaimedRows
  BY DEF Init, ClaimedRows
<1>2. TypeOK /\ ClaimedRows /\ [Next]_vars => ClaimedRows'
  <2> SUFFICES ASSUME TypeOK, ClaimedRows, [Next]_vars PROVE ClaimedRows'
    OBVIOUS
  <2>1. CASE Unmoved
    BY <2>1 DEF Unmoved, claimVars, ClaimedRows
  <2>2. ASSUME NEW r \in Runs, NEW s \in Delivered \cup Ended, Moved(r, s)
        PROVE  ClaimedRows'
    BY <2>2 DEF Moved, claimVars, ClaimedRows, TypeOK, Active
  <2>3. ASSUME NEW c \in Issues \X States, NEW x \in Runners, NEW r \in Runs, Claimed(c, x, r)
        PROVE  ClaimedRows'
    BY <2>3 DEF Claimed, ClaimedRows, TypeOK
  <2> QED BY <2>1, <2>2, <2>3, EveryStepMoves DEF RunMove
<1> QED BY <1>1, <1>2, TypeCorrect, PTL DEF Spec

\* Under the exclusive claim the holder is the active run, if there is one.
HolderSpec ==
  /\ \A r \in ActiveRuns : issueOf[r] \in Issues => Holder[issueOf[r]] = r
  /\ \A i \in Issues : (\A r \in ActiveRuns : issueOf[r] # i) => Holder[i] = None
  /\ \A i \in Issues : Holder[i] # None => Holder[i] \in ActiveRuns /\ issueOf[Holder[i]] = i
  /\ Holder = [i \in Issues |-> Holder[i]]

\* The holder of an issue is the run active on it.
LEMMA HolderIsActive == OneRunPerIssue => HolderSpec
BY DEF OneRunPerIssue, HolderSpec, Holder

\* Dispatch implements IssueClaim: each step acquires for one run, releases
\* one run for ever, or is invisible.
THEOREM DispatchImplementsClaims == Spec => ImplementsIssueClaim
<1> DEFINE spent == {r \in Runs : status[r] \in Ended}
<1>1. Init => Claim!Init
  BY DEF Init, Claim!Init, Holder, ActiveRuns, Active, Ended
<1>2. /\ TypeOK /\ OneRunPerIssue /\ ClaimedRows /\ OneRunPerIssue'
      /\ [Next]_vars
      => [Claim!Next]_<<Holder, spent>>
  <2> SUFFICES ASSUME TypeOK, OneRunPerIssue, ClaimedRows, OneRunPerIssue', [Next]_vars
               PROVE  [Claim!Next]_<<Holder, spent>>
    OBVIOUS
  <2>1. HolderSpec
    BY HolderIsActive
  <2>2. HolderSpec'
    BY DEF OneRunPerIssue, HolderSpec, Holder
  <2>3. CASE Unmoved
    BY <2>3 DEF Unmoved, claimVars, Holder, ActiveRuns
  <2>4. ASSUME NEW r \in Runs, NEW s \in Delivered, Moved(r, s)
        PROVE  UNCHANGED <<Holder, spent>>
    <3>1. ActiveRuns' = ActiveRuns /\ spent' = spent
      BY <2>4 DEF Moved, ActiveRuns, Active, Delivered, Ended, TypeOK
    <3> QED BY <2>4, <3>1 DEF Holder, Moved, claimVars
  <2>5. ASSUME NEW r \in Runs, NEW s \in Ended, Moved(r, s),
               NEW i \in Issues, i = issueOf[r]
        PROVE  Claim!Release(i)
    <3>1. /\ r \in ActiveRuns /\ ActiveRuns' = ActiveRuns \ {r}
          /\ spent' = spent \cup {r} /\ issueOf' = issueOf
      BY <2>5 DEF Moved, ActiveRuns, Active, Ended, TypeOK, claimVars
    <3>2. i \in Issues /\ Holder[i] = r /\ r # None
      BY <2>1, <2>5, <3>1, SetsAssumption DEF HolderSpec
    <3>3. \A j \in Issues \ {i} : Holder'[j] = Holder[j]
      BY <2>1, <2>2, <3>1, <3>2 DEF HolderSpec
    <3>4. Holder'[i] = None
      BY <2>1, <2>2, <3>1, <3>2 DEF HolderSpec, OneRunPerIssue
    <3>5. Holder' = [Holder EXCEPT ![i] = None]
      BY <2>1, <2>2, <3>3, <3>4 DEF HolderSpec
    <3> QED BY <3>1, <3>2, <3>5 DEF Claim!Release
  <2>6. ASSUME NEW c \in Issues \X States, NEW x \in Runners, NEW r \in Runs, Claimed(c, x, r)
        PROVE  Claim!Acquire(c[1], r)
    <3> DEFINE i == c[1]
    <3>1. /\ ActiveRuns' = ActiveRuns \cup {r} /\ r \notin ActiveRuns
          /\ issueOf'[r] = i /\ \A r2 \in Runs \ {r} : issueOf'[r2] = issueOf[r2]
      BY <2>6, ClaimedJoins
    <3>2. /\ i \in Issues /\ r \notin spent /\ spent' = spent
          /\ \A r2 \in ActiveRuns : issueOf[r2] # i
      BY <2>6 DEF Claimed, ClaimGuard, Eligible, Ended, TypeOK
    <3>3. Holder[i] = None /\ \A j \in Issues : Holder[j] # r
      BY <2>1, <3>1, <3>2, SetsAssumption DEF HolderSpec
    <3>4. \A j \in Issues \ {i} : Holder'[j] = Holder[j]
      BY <2>1, <2>2, <3>1, <3>2 DEF HolderSpec, ActiveRuns
    <3>5. Holder'[i] = r
      BY <2>2, <3>1, <3>2 DEF HolderSpec
    <3>6. Holder' = [Holder EXCEPT ![i] = r]
      BY <2>1, <2>2, <3>4, <3>5 DEF HolderSpec
    <3> QED BY <3>2, <3>3, <3>6 DEF Claim!Acquire
  <2>7. ASSUME NEW r \in Runs, NEW s \in Delivered \cup Ended, Moved(r, s)
        PROVE  [Claim!Next]_<<Holder, spent>>
    <3>1. issueOf[r] \in Issues
      BY <2>7 DEF Moved, ClaimedRows, Active
    <3>2. CASE s \in Delivered
      BY <2>4, <2>7, <3>2
    <3>3. CASE s \in Ended
      <4>1. PICK i \in Issues : i = issueOf[r]
        BY <3>1
      <4>2. Claim!Release(i)
        BY <2>5, <2>7, <3>3, <4>1
      <4> QED BY <4>2 DEF Claim!Next
    <3> QED BY <3>2, <3>3
  <2>8. ASSUME NEW c \in Issues \X States, NEW x \in Runners, NEW r \in Runs, Claimed(c, x, r)
        PROVE  [Claim!Next]_<<Holder, spent>>
    BY <2>6, <2>8 DEF Claim!Next
  <2> QED BY <2>3, <2>7, <2>8, EveryStepMoves DEF RunMove
<1> QED
  BY <1>1, <1>2, TypeCorrect, ClaimsAreExclusive, RowsStayClaimed, PTL
  DEF Spec, ImplementsIssueClaim, Claim!Spec

-----------------------------------------------------------------------------
(* How runs end and what that costs: ends, one-shot delivery, judgments,    *)
(* stops, the attempt budget and its strikes, the machine's ceiling and the *)
(* death of keys, each from what a step may write into the columns it is    *)
(* about.                                                                   *)

\* A delivered run is marked as started.
Starts(r) ==
  /\ status[r] \in Delivered
  /\ started' = [started EXCEPT ![r] = TRUE]
  /\ UNCHANGED <<outcome, handouts>>

JudgeMove ==
  \/ UNCHANGED <<started, outcome, handouts>>
  \/ \E r \in Runs : MintRunKeyAndFlip(r) \/ Starts(r)
  \/ \E e \in Enders : EndCas(e)

-----------------------------------------------------------------------------
\* A finish request starts the run it accepts.
LEMMA FinishStarts ==
  ASSUME NEW e, NEW by, NEW r \in Runs, NEW to, NEW b, FinishRun(e, by, r, to, b),
         UNCHANGED <<outcome, handouts>>
  PROVE  JudgeMove
BY DEF FinishRun, Finishable, Starts, JudgeMove

\* Only a launch return, a first log line and a finish start a run, only
\* endRun's CAS judges one and only the one-shot flip hands one out.
LEMMA EveryStepJudges ==
  ASSUME TypeOK, [Next]_vars
  PROVE  JudgeMove
<1>1. ASSUME NEW e \in Enders, EnderStep(e) PROVE JudgeMove
  BY <1>1 DEF EnderStep, EndSettle, EndEvicted, runVars, JudgeMove
<1>2. ASSUME NEW p \in Passes, PassStep(p) PROVE JudgeMove
  <2> pass[p].pc \in {"mint", "launch", "check"} => pass[p].run \in Runs
    BY DEF TypeOK, PassType
  <2>1. CASE PassStart(p) \/ PassEnd(p) \/ LaunchChecked(p)
    BY <2>1 DEF PassStart, PassEnd, LaunchChecked, runVars, JudgeMove
  <2>2. CASE PassMint(p)
    BY <2>2 DEF PassMint, JudgeMove
  <2>3. CASE LaunchReturned(p)
    <3> DEFINE r == pass[p].run
    <3>1. /\ r \in Runs /\ UNCHANGED <<outcome, handouts>>
          /\ started' = [started EXCEPT ![r] = @ \/ LaunchLands(r)]
      BY <2>3 DEF LaunchReturned
    <3>2. CASE LaunchLands(r)
      <4>1. Starts(r)
        BY <3>1, <3>2 DEF LaunchLands, Starts, Delivered
      <4> QED BY <3>1, <4>1 DEF JudgeMove
    <3>3. CASE ~LaunchLands(r)
      <4>1. started' = [started EXCEPT ![r] = @ \/ FALSE]
        BY <3>1, <3>3
      <4>2. \A b \in BOOLEAN : (b \/ FALSE) = b
        OBVIOUS
      <4>3. started' = started
        BY <3>1, <4>1, <4>2 DEF TypeOK
      <4> QED BY <3>1, <4>3 DEF JudgeMove
    <3> QED BY <3>2, <3>3
  <2>4. CASE LaunchThrew(p)
    BY <2>4 DEF LaunchThrew, FailLaunch, JudgeMove
  <2>5. ASSUME NEW c \in Issues \X States, NEW x \in Runners, ClaimLost(p, c, x)
        PROVE  JudgeMove
    BY <2>5 DEF ClaimLost, runVars, JudgeMove
  <2>6. ASSUME NEW c \in Issues \X States, NEW x \in Runners, NEW r \in Runs,
               ClaimRun(p, c, x, r)
        PROVE  JudgeMove
    BY <2>6 DEF ClaimRun, JudgeMove
  <2> QED BY <1>2, <2>1, <2>2, <2>3, <2>4, <2>5, <2>6 DEF PassStep
<1>3. ASSUME NEW q \in Polls, PollStep(q) PROVE JudgeMove
  <2> poll[q].pc \in {"mint", "env"} => poll[q].run \in Runs
    BY DEF TypeOK, PollType
  <2>1. CASE PollMint(q)
    BY <2>1 DEF PollMint, JudgeMove
  <2>2. CASE PollEnvThrew(q)
    BY <2>2 DEF PollEnvThrew, FailLaunch, JudgeMove
  <2>3. ASSUME NEW r \in Runs, PollRelease(q, r) PROVE JudgeMove
    BY <2>3 DEF PollRelease, JudgeMove
  <2>4. ASSUME NEW r \in Runs, NEW e \in Enders,
               PollReconcile(q, e, r) \/ PollRefuse(q, e, r)
        PROVE  JudgeMove
    BY <2>4 DEF PollReconcile, PollRefuse, runVars, JudgeMove
  <2>5. ASSUME NEW x \in Runners, PollAdmit(q, x) PROVE JudgeMove
    BY <2>5 DEF PollAdmit, runVars, JudgeMove
  <2>6. ASSUME NEW took \in SUBSET Runs, PollRespond(q, took) PROVE JudgeMove
    BY <2>6 DEF PollRespond, runVars, JudgeMove
  <2>7. ASSUME PollRead(q) \/ PollPack(q) \/ PollEvicted(q) \/ PollCut(q) PROVE JudgeMove
    BY <2>7 DEF PollRead, PollPack, PollEvicted, PollCut, runVars, JudgeMove
  <2>8. ASSUME NEW r \in Runs, PollOffer(q, r) PROVE JudgeMove
    BY <2>8 DEF PollOffer, runVars, JudgeMove
  <2> QED BY <1>3, <2>1, <2>2, <2>3, <2>4, <2>5, <2>6, <2>7, <2>8 DEF PollStep, PollWork
<1>4. ASSUME NEW x \in Runners, DaemonStep(x) PROVE JudgeMove
  <2>1. ASSUME NEW kept \in SUBSET Runs, DaemonCrash(x, kept) PROVE JudgeMove
    BY <2>1 DEF DaemonCrash, runVars, JudgeMove
  <2>2. ASSUME NEW r \in Runs, MarkRunRunning(x, r) PROVE JudgeMove
    BY <2>2 DEF MarkRunRunning, Starts, Delivered, JudgeMove
  <2>3. ASSUME NEW r \in Runs, Cleanup(x, r) \/ FinishLost(x, r) PROVE JudgeMove
    BY <2>3 DEF Cleanup, FinishLost, runVars, JudgeMove
  <2>4. ASSUME NEW e \in Enders, NEW r \in Runs, OrphanReport(x, e, r) PROVE JudgeMove
    BY <2>4, FinishStarts DEF OrphanReport
  <2>5. ASSUME NEW e \in Enders, NEW r \in Runs, NEW to, NEW b, FinishReport(x, e, r, to, b)
        PROVE  JudgeMove
    BY <2>5, FinishStarts DEF FinishReport
  <2>6. CASE GoAway(x) \/ HoldExpires(x)
    BY <2>6 DEF GoAway, HoldExpires, runVars, JudgeMove
  <2> QED BY <1>4, <2>1, <2>2, <2>3, <2>4, <2>5, <2>6 DEF DaemonStep
<1>5. CASE SweepStep
  BY <1>5
  DEF SweepStep, SweepStalledFail, FailLaunch, SweepExpiredKey, SweepStalledRead,
      PollManagedRun, SweepOverdue, SweepOffline, runVars, JudgeMove
<1>6. CASE PersonStep \/ AgentStep
  BY <1>6
  DEF PersonStep, AgentStep, Rearm, CancelRun, DisableAutomation, CancelAssignedList,
      CancelAssignedDone, PauseRunner, CancelAssignedRun, ResumeIssue, HumanTransition,
      AgentTransition, runVars, JudgeMove
<1>7. CASE UNCHANGED vars
  BY <1>7 DEF vars, runVars, JudgeMove
<1> QED BY <1>1, <1>2, <1>3, <1>4, <1>5, <1>6, <1>7 DEF Next

-----------------------------------------------------------------------------
(* Ends are final.                                                          *)

\* No step of any handler rewrites the end of a run.
LEMMA EndsStay ==
  ASSUME TypeOK, [Next]_vars
  PROVE  EndStays
<1> SUFFICES ASSUME NEW r \in Runs, status[r] \in Ended
             PROVE  /\ status'[r] = status[r] /\ outcome'[r] = outcome[r]
                    /\ started'[r] = started[r]
  BY DEF EndStays
<1>1. status'[r] = status[r]
  <2>1. CASE Unmoved
    BY <2>1 DEF Unmoved
  <2>2. ASSUME NEW t \in Runs, NEW s \in Delivered \cup Ended, Moved(t, s)
        PROVE  status'[r] = status[r]
    BY <2>2 DEF Moved, Active, Ended, TypeOK
  <2>3. ASSUME NEW c \in Issues \X States, NEW x \in Runners, NEW t \in Runs, Claimed(c, x, t)
        PROVE  status'[r] = status[r]
    BY <2>3 DEF Claimed, Ended, TypeOK
  <2> QED BY <2>1, <2>2, <2>3, EveryStepMoves DEF RunMove
<1>2. outcome'[r] = outcome[r] /\ started'[r] = started[r]
  <2>1. CASE UNCHANGED <<started, outcome, handouts>>
    BY <2>1
  <2>2. ASSUME NEW t \in Runs, MintRunKeyAndFlip(t)
        PROVE  outcome'[r] = outcome[r] /\ started'[r] = started[r]
    BY <2>2 DEF MintRunKeyAndFlip
  <2>3. ASSUME NEW t \in Runs, Starts(t)
        PROVE  outcome'[r] = outcome[r] /\ started'[r] = started[r]
    BY <2>3 DEF Starts, Delivered, Ended, TypeOK
  <2>4. ASSUME NEW e \in Enders, EndCas(e)
        PROVE  outcome'[r] = outcome[r] /\ started'[r] = started[r]
    BY <2>4 DEF EndCas, Endable, Active, Ended, TypeOK
  <2> QED BY <2>1, <2>2, <2>3, <2>4, EveryStepJudges DEF JudgeMove
<1> QED BY <1>1, <1>2

\* The first writer of an end wins for good, whatever arrives later (the CAS of
\* endRun and the guards of finishRun, markRunRunning and the launch return).
THEOREM EndsAreFinal == Spec => EndIsFinal
<1>1. TypeOK /\ [Next]_vars => EndStays
  BY EndsStay
<1> QED BY <1>1, TypeCorrect, PTL DEF Spec, EndIsFinal

-----------------------------------------------------------------------------
(* One-shot delivery.                                                       *)

\* A run that was delivered never goes back to waiting for it.
LEMMA NothingGoesBack ==
  ASSUME TypeOK, [Next]_vars, NEW r \in Runs, status'[r] \in {"unused", "assigned"}
  PROVE  status[r] \in {"unused", "assigned"}
<1>1. CASE Unmoved
  BY <1>1 DEF Unmoved
<1>2. ASSUME NEW t \in Runs, NEW s \in Delivered \cup Ended, Moved(t, s)
      PROVE  status'[r] = status[r] \/ status'[r] \notin {"unused", "assigned"}
  BY <1>2 DEF Moved, Delivered, Ended, TypeOK
<1>3. ASSUME NEW c \in Issues \X States, NEW x \in Runners, NEW t \in Runs, Claimed(c, x, t)
      PROVE  status'[r] = status[r] \/ status[r] = "unused"
  BY <1>3 DEF Claimed, TypeOK
<1> QED BY <1>1, <1>2, <1>3, EveryStepMoves DEF RunMove

\* Why the flip suffices: a run that has not left `assigned' has not been
\* handed out.
HandoutInv ==
  \A r \in Runs : /\ handouts[r] <= 1
                  /\ status[r] \in {"unused", "assigned"} => handouts[r] = 0

\* No two polls or passes, however stale, hand out the secret of one run.
THEOREM DeliveryIsOneShot == Spec => []DeliveredOnce
<1>1. Init => HandoutInv
  BY DEF Init, HandoutInv
<1>2. TypeOK /\ HandoutInv /\ [Next]_vars => HandoutInv'
  <2> SUFFICES ASSUME TypeOK, HandoutInv, [Next]_vars, NEW r \in Runs
               PROVE  /\ handouts'[r] <= 1
                      /\ status'[r] \in {"unused", "assigned"} => handouts'[r] = 0
    BY DEF HandoutInv
  <2>1. status'[r] \in {"unused", "assigned"} => status[r] \in {"unused", "assigned"}
    BY NothingGoesBack
  <2>2. CASE handouts' = handouts
    BY <2>1, <2>2 DEF HandoutInv
  <2>3. ASSUME NEW t \in Runs, MintRunKeyAndFlip(t), t # r \/ ~Flips(t)
        PROVE  handouts'[r] = handouts[r]
    BY <2>3 DEF MintRunKeyAndFlip, TypeOK
  <2>4. ASSUME MintRunKeyAndFlip(r), Flips(r)
        PROVE  handouts'[r] = handouts[r] + 1 /\ status'[r] = "launching"
    BY <2>4 DEF MintRunKeyAndFlip, TypeOK
  <2>5. ASSUME NEW t \in Runs, MintRunKeyAndFlip(t)
        PROVE  /\ handouts'[r] <= 1
               /\ status'[r] \in {"unused", "assigned"} => handouts'[r] = 0
    <3>1. CASE t # r \/ ~Flips(t)
      BY <2>1, <2>3, <2>5, <3>1 DEF HandoutInv
    <3>2. CASE t = r /\ Flips(t)
      <4>1. handouts[r] = 0
        BY <3>2 DEF Flips, HandoutInv
      <4> QED BY <2>4, <2>5, <3>2, <4>1
    <3> QED BY <3>1, <3>2
  <2> QED
    BY <2>2, <2>5, EveryStepJudges DEF JudgeMove, Starts, EndCas
<1>3. HandoutInv => DeliveredOnce
  BY DEF HandoutInv, DeliveredOnce
<1> QED BY <1>1, <1>2, <1>3, TypeCorrect, PTL DEF Spec

-----------------------------------------------------------------------------
(* Judgments.                                                               *)

\* Nothing un-starts a run.
LEMMA StartsStay ==
  ASSUME TypeOK, [Next]_vars, NEW r \in Runs, started[r]
  PROVE  started'[r]
<1>1. ASSUME NEW t \in Runs, Starts(t) PROVE started'[r]
  BY <1>1 DEF Starts, TypeOK
<1>2. ASSUME NEW t \in Runs, MintRunKeyAndFlip(t) PROVE started'[r]
  BY <1>2 DEF MintRunKeyAndFlip
<1> QED BY <1>1, <1>2, EveryStepJudges DEF JudgeMove, EndCas

\* Nothing takes back a transition made with a run's key.
LEMMA MovesStay ==
  ASSUME TypeOK, [Next]_vars, NEW r \in Runs, moved[r]
  PROVE  moved'[r]
<1>1. CASE AgentStep
  BY <1>1 DEF AgentStep, AgentTransition, TypeOK
<1>2. ASSUME NEW e \in Enders, EnderStep(e) PROVE moved' = moved
  BY <1>2 DEF EnderStep, EndCas, EndSettle, EndEvicted, runVars
<1>3. ASSUME NEW p \in Passes, PassStep(p) PROVE moved' = moved
  BY <1>3
  DEF PassStep, PassStart, PassMint, MintRunKeyAndFlip, LaunchReturned, LaunchChecked, LaunchThrew,
      FailLaunch, PassEnd, ClaimLost, ClaimRun, runVars
<1>4. ASSUME NEW q \in Polls, PollStep(q) PROVE moved' = moved
  BY <1>4
  DEF PollStep, PollWork, PollAdmit, PollRead, PollMint, MintRunKeyAndFlip, PollPack,
      PollRespond, PollRelease, PollOffer, PollReconcile, PollRefuse, PollEnvThrew,
      FailLaunch, PollEvicted, PollCut, runVars
<1>5. ASSUME NEW x \in Runners, DaemonStep(x) PROVE moved' = moved
  BY <1>5
  DEF DaemonStep, GoAway, HoldExpires, DaemonCrash, MarkRunRunning, Cleanup, FinishLost,
      OrphanReport, FinishReport, runVars
<1>6. CASE SweepStep
  BY <1>6
  DEF SweepStep, SweepStalledFail, FailLaunch, SweepExpiredKey, SweepStalledRead,
      PollManagedRun, SweepOverdue, SweepOffline, runVars
<1>7. CASE PersonStep
  BY <1>7
  DEF PersonStep, Rearm, CancelRun, DisableAutomation, CancelAssignedList,
      CancelAssignedDone, PauseRunner, CancelAssignedRun, ResumeIssue, HumanTransition,
      runVars
<1>8. CASE UNCHANGED vars
  BY <1>8 DEF vars, runVars
<1> QED BY <1>1, <1>2, <1>3, <1>4, <1>5, <1>6, <1>7, <1>8 DEF Next

\* A call of endRun that is about to write a verdict its run's columns justify.
Justified(e) ==
  ender[e].pc = "cas" =>
    /\ ender[e].outcome # "none" => started[ender[e].run]
    /\ ender[e].outcome = "advanced" => moved[ender[e].run]

\* A call of endRun that begins has judged what it saw, and one that cancels
\* was asked for by a person, or found its run assigned.
Begins(e) ==
  /\ ender[e].pc = "idle" /\ ender'[e].pc = "cas" /\ Justified(e)'
  /\ ender'[e].to = "canceled" =>
       "cancel" \in Events \/ status'[ender'[e].run] = "assigned"

\* What a step does to the calls of endRun in flight.
BeginMove == \A e \in Enders : ender'[e] = ender[e] \/ EnderStep(e) \/ Begins(e)

\* A judgment that begins on sound grounds is justified.
LEMMA BeganJustified ==
  ASSUME TypeOK, NEW e \in Enders, NEW by, NEW r \in Runs, NEW to, NEW b, NEW s,
         Began(e, by, r, to, b, s), s => started'[r], moved'[r] = moved[r],
         to = "canceled" => "cancel" \in Events \/ status'[r] = "assigned"
  PROVE  BeginMove
<1>1. /\ ender[e].pc = "idle" /\ ender'[e].pc = "cas" /\ ender'[e].run = r
      /\ ender'[e].to = to /\ ender'[e].outcome = Judgment(s, b, r)
      /\ \A e2 \in Enders \ {e} : ender'[e2] = ender[e2]
  BY DEF TypeOK, Began
<1>2. /\ Judgment(s, b, r) # "none" => s
      /\ Judgment(s, b, r) = "advanced" => moved[r]
  BY DEF Judgment
<1> QED BY <1>1, <1>2 DEF BeginMove, Begins, Justified

\* So is one that endRun begins,
LEMMA EndRunJustified ==
  ASSUME TypeOK, NEW e \in Enders, NEW by, NEW r \in Runs, NEW to, NEW b,
         EndRun(e, by, r, to, b), UNCHANGED <<status, started, moved>>,
         to = "canceled" => "cancel" \in Events \/ status[r] = "assigned"
  PROVE  BeginMove
BY BeganJustified DEF EndRun

\* and one that an accepted finish begins.
LEMMA FinishJustified ==
  ASSUME TypeOK, NEW e \in Enders, NEW by, NEW r \in Runs, NEW to, NEW b,
         FinishRun(e, by, r, to, b), UNCHANGED moved, to # "canceled"
  PROVE  BeginMove
<1>1. CASE Finishable(r)
  <2>1. Began(e, by, r, to, b, TRUE) /\ started'[r]
    BY <1>1 DEF FinishRun, TypeOK
  <2> QED BY <2>1, BeganJustified
<1>2. CASE ~Finishable(r)
  BY <1>2 DEF FinishRun, BeginMove
<1> QED BY <1>1, <1>2

\* Every step begins judgments on sound grounds, or none.
LEMMA EveryStepBegins ==
  ASSUME TypeOK, [Next]_vars
  PROVE  BeginMove
<1>1. ASSUME NEW e \in Enders, EnderStep(e) PROVE BeginMove
  <2>1. \A e2 \in Enders \ {e} : ender'[e2] = ender[e2]
    BY <1>1 DEF EnderStep, EndCas, EndSettle, EndEvicted, TypeOK
  <2> QED BY <1>1, <2>1 DEF BeginMove
<1>2. ASSUME NEW p \in Passes, PassStep(p) PROVE BeginMove
  BY <1>2
  DEF PassStep, PassStart, PassMint, LaunchReturned, LaunchChecked, LaunchThrew, PassEnd, ClaimLost,
      ClaimRun, BeginMove
<1>3. ASSUME NEW q \in Polls, PollStep(q) PROVE BeginMove
  <2>1. ASSUME NEW e \in Enders, NEW r \in Runs, PollReconcile(q, e, r) PROVE BeginMove
    <3>1. EndRun(e, q, r, "failed", TRUE) \/ UNCHANGED ender
      BY <2>1 DEF PollReconcile
    <3> QED BY <2>1, <3>1, EndRunJustified DEF PollReconcile, runVars, BeginMove
  <2>2. ASSUME NEW e \in Enders, NEW r \in Runs, PollRefuse(q, e, r) PROVE BeginMove
    <3>1. (EndRun(e, q, r, "canceled", FALSE) /\ status[r] = "assigned") \/ UNCHANGED ender
      BY <2>2 DEF PollRefuse
    <3> QED BY <2>2, <3>1, EndRunJustified DEF PollRefuse, runVars, BeginMove
  <2>3. CASE ender' = ender
    BY <2>3 DEF BeginMove
  <2> QED
    BY <1>3, <2>1, <2>2, <2>3
    DEF PollStep, PollWork, PollAdmit, PollRead, PollMint, PollPack, PollRespond,
        PollRelease, PollOffer, PollEnvThrew, PollEvicted, PollCut
<1>4. ASSUME NEW x \in Runners, DaemonStep(x) PROVE BeginMove
  <2>1. ASSUME NEW e \in Enders, NEW r \in Runs, OrphanReport(x, e, r) PROVE BeginMove
    BY <2>1, FinishJustified DEF OrphanReport
  <2>2. ASSUME NEW e \in Enders, NEW r \in Runs, NEW to \in {"completed", "failed"}, NEW b,
               FinishReport(x, e, r, to, b)
        PROVE  BeginMove
    BY <2>2, FinishJustified DEF FinishReport
  <2>3. CASE ender' = ender
    BY <2>3 DEF BeginMove
  <2> QED
    BY <1>4, <2>1, <2>2, <2>3
    DEF DaemonStep, GoAway, HoldExpires, DaemonCrash, MarkRunRunning, Cleanup, FinishLost
<1>5. CASE SweepStep
  <2>1. ASSUME NEW e \in Enders, NEW r \in Runs, NEW to \in {"completed", "failed"},
               \/ SweepOverdue(e, r) \/ SweepOffline(e, r) \/ PollManagedRun(e, r, to)
        PROVE  BeginMove
    <3>1. (\E t \in {"completed", "failed", "timed_out"} : \E b : EndRun(e, None, r, t, b))
          /\ UNCHANGED <<status, started, moved>>
      BY <2>1 DEF SweepOverdue, SweepOffline, PollManagedRun, runVars
    <3> QED BY <3>1, EndRunJustified
  <2>2. CASE ender' = ender
    BY <2>2 DEF BeginMove
  <2>3. "failed" \in {"completed", "failed"}
    OBVIOUS
  <2> QED
    BY <1>5, <2>1, <2>2, <2>3 DEF SweepStep, SweepExpiredKey, SweepStalledFail, SweepStalledRead
<1>6. CASE PersonStep \/ AgentStep
  <2>1. ASSUME NEW e \in Enders, NEW r \in Runs, CancelRun(e, r) PROVE BeginMove
    BY <2>1, EndRunJustified DEF CancelRun, runVars
  <2>2. ASSUME NEW o \in Operators, NEW e \in Enders, NEW r \in Runs,
               CancelAssignedRun(o, e, r)
        PROVE  BeginMove
    <3>1. (EndRun(e, o, r, "canceled", FALSE) /\ status[r] = "assigned") \/ UNCHANGED ender
      BY <2>2 DEF CancelAssignedRun
    <3> QED BY <2>2, <3>1, EndRunJustified DEF CancelAssignedRun, runVars, BeginMove
  <2>3. CASE ender' = ender
    BY <2>3 DEF BeginMove
  <2> QED
    BY <1>6, <2>1, <2>2, <2>3
    DEF PersonStep, AgentStep, Rearm, DisableAutomation, CancelAssignedList,
        CancelAssignedDone, PauseRunner, ResumeIssue, HumanTransition, AgentTransition
<1>7. CASE UNCHANGED vars
  BY <1>7 DEF vars, BeginMove
<1> QED BY <1>1, <1>2, <1>3, <1>4, <1>5, <1>6, <1>7 DEF Next

\* A call in flight has left its CAS after its own step.
LEMMA EnderStepLeaves ==
  ASSUME TypeOK, NEW e \in Enders, EnderStep(e)
  PROVE  ender'[e].pc # "cas"
BY DEF EnderStep, EndCas, EndSettle, EndEvicted, IdleEnder, TypeOK, EnderType

\* The stale judgment of endRun is never wrong about what it did see: a start or
\* a move it saw stays true until the CAS writes the verdict.
JudgmentInv == JudgmentIsEarned /\ \A e \in Enders : Justified(e)

\* A run judged at all was started and has ended, and one judged `advanced' did
\* move its issue, whichever of racing finishes, sweeps and cancels judged it.
THEOREM JudgmentsAreEarned == Spec => []JudgmentIsEarned
<1>1. Init => JudgmentInv
  BY DEF Init, JudgmentInv, JudgmentIsEarned, Justified, IdleEnder
<1>2. TypeOK /\ JudgmentInv /\ [Next]_vars => JudgmentInv'
  <2> SUFFICES ASSUME TypeOK, JudgmentInv, [Next]_vars PROVE JudgmentInv'
    OBVIOUS
  <2>0. EndStays
    BY EndsStay
  <2>1. ASSUME NEW e \in Enders PROVE Justified(e)'
    <3>1. CASE ender'[e] = ender[e] /\ ender[e].pc = "cas"
      <4>1. ender[e].run \in Runs
        BY <3>1 DEF TypeOK, EnderType
      <4> QED BY <3>1, <4>1, StartsStay, MovesStay DEF JudgmentInv, Justified
    <3>2. CASE ender'[e] = ender[e] /\ ender[e].pc # "cas"
      BY <3>2 DEF Justified
    <3>3. EnderStep(e) => Justified(e)'
      BY EnderStepLeaves DEF Justified
    <3> QED BY <3>1, <3>2, <3>3, EveryStepBegins DEF BeginMove, Begins
  <2>2. ASSUME NEW r \in Runs, outcome'[r] = outcome[r]
        PROVE  /\ outcome'[r] # "none" => started'[r] /\ status'[r] \in Ended
               /\ outcome'[r] = "advanced" => moved'[r]
    BY <2>0, <2>2, StartsStay, MovesStay DEF JudgmentInv, JudgmentIsEarned, EndStays
  <2>3. ASSUME NEW e \in Enders, EndCas(e), NEW r \in Runs, outcome'[r] # outcome[r]
        PROVE  /\ outcome'[r] # "none" => started'[r] /\ status'[r] \in Ended
               /\ outcome'[r] = "advanced" => moved'[r]
    <3>1. /\ r = ender[e].run /\ outcome'[r] = ender[e].outcome
          /\ status'[r] = ender[e].to /\ ender[e].pc = "cas"
      BY <2>3 DEF EndCas, TypeOK
    <3>2. ender[e].to \in Ended
      BY DEF TypeOK, EnderType
    <3> QED BY <2>3, <3>1, <3>2 DEF JudgmentInv, Justified, EndCas
  <2>4. \A r \in Runs : outcome'[r] = outcome[r] \/ \E e \in Enders : EndCas(e)
    BY EveryStepJudges DEF JudgeMove, MintRunKeyAndFlip, Starts
  <2> QED BY <2>1, <2>2, <2>3, <2>4 DEF JudgmentInv, JudgmentIsEarned
<1>3. JudgmentInv => JudgmentIsEarned
  BY DEF JudgmentInv
<1> QED BY <1>1, <1>2, <1>3, TypeCorrect, PTL DEF Spec

-----------------------------------------------------------------------------
(* Stops.                                                                   *)

\* Why a stop is free: a run that waits for delivery has not started, and a
\* call that cancels has judged such a run.
StopInv ==
  /\ \A r \in Runs : status[r] \in {"unused", "assigned"} => ~started[r]
  /\ \A e \in Enders : ender[e].pc = "cas" /\ ender[e].to = "canceled" =>
                         ender[e].outcome = "none"
  /\ StopsAreFree

\* Unless people cancel runs themselves, no run that ends as canceled is judged:
\* what a pause, the kill switch, a declined assignment or a refused delivery
\* cancels costs its issue nothing, though the run may start between their read
\* and their write (cancelAssignedRuns, releaseDeclinedAssignments).
THEOREM StopsCostNothing ==
  ASSUME "cancel" \notin Events
  PROVE  Spec => []StopsAreFree
<1>1. Init => StopInv
  BY DEF Init, StopInv, StopsAreFree, IdleEnder
<1>2. TypeOK /\ TypeOK' /\ JudgmentIsEarned /\ StopInv /\ [Next]_vars => StopInv'
  <2> SUFFICES ASSUME TypeOK, TypeOK', JudgmentIsEarned, StopInv, [Next]_vars PROVE StopInv'
    OBVIOUS
  <2>1. ASSUME NEW r \in Runs, status'[r] \in {"unused", "assigned"} PROVE ~started'[r]
    <3>1. status[r] \in {"unused", "assigned"} /\ ~started[r]
      BY <2>1, NothingGoesBack DEF StopInv
    <3>2. ASSUME NEW t \in Runs, Starts(t) PROVE started'[r] = started[r]
      BY <3>1, <3>2 DEF Starts, Delivered, TypeOK
    <3>3. started'[r] = started[r]
      BY <3>2, EveryStepJudges DEF JudgeMove, MintRunKeyAndFlip, EndCas
    <3> QED BY <3>1, <3>3
  <2>2. ASSUME NEW e \in Enders, ender'[e].pc = "cas", ender'[e].to = "canceled"
        PROVE  ender'[e].outcome = "none"
    <3>1. CASE ender'[e] = ender[e]
      BY <2>2, <3>1 DEF StopInv
    <3>2. CASE Begins(e)
      <4>1. ender'[e].run \in Runs /\ status'[ender'[e].run] = "assigned"
        BY <2>2, <3>2 DEF Begins, TypeOK, EnderType
      <4>2. ~started'[ender'[e].run]
        BY <2>1, <4>1
      <4> QED BY <2>2, <3>2, <4>2 DEF Begins, Justified
    <3> QED BY <2>2, <3>1, <3>2, EveryStepBegins, EnderStepLeaves DEF BeginMove
  <2>3. ASSUME NEW r \in Runs, status'[r] = "canceled" PROVE outcome'[r] = "none"
    <3>1. ASSUME NEW e \in Enders, EndCas(e), outcome'[r] # outcome[r]
          PROVE  outcome'[r] = "none"
      <4>1. /\ r = ender[e].run /\ outcome'[r] = ender[e].outcome
            /\ status'[r] = ender[e].to /\ ender[e].pc = "cas"
        BY <3>1 DEF EndCas, TypeOK
      <4> QED BY <2>3, <4>1 DEF StopInv
    <3>2. ASSUME outcome'[r] = outcome[r] PROVE outcome[r] = "none"
      <4>1. status[r] \in Ended => status[r] = "canceled"
        BY <2>3, EndsStay DEF EndStays
      <4> QED BY <4>1 DEF StopInv, StopsAreFree, JudgmentIsEarned
    <3>3. outcome'[r] = outcome[r] \/ \E e \in Enders : EndCas(e)
      BY EveryStepJudges DEF JudgeMove, MintRunKeyAndFlip, Starts
    <3> QED BY <3>1, <3>2, <3>3
  <2> QED BY <2>1, <2>2, <2>3 DEF StopInv, StopsAreFree
<1>3. StopInv => StopsAreFree
  BY DEF StopInv
<1> QED BY <1>1, <1>2, <1>3, TypeCorrect, JudgmentsAreEarned, PTL DEF Spec

-----------------------------------------------------------------------------
(* The attempt budget.                                                      *)

BudgetMove ==
  \/ UNCHANGED <<attempts, parked>>
  \/ \E i \in Issues : /\ attempts' = [attempts EXCEPT ![i] = 0]
                       /\ parked' = [parked EXCEPT ![i] = FALSE]
  \/ \E e \in Enders : EndSettle(e)

\* Only endRun's batch, a person's transition and a resume touch the budget.
LEMMA EveryStepBudgets ==
  ASSUME [Next]_vars
  PROVE  BudgetMove
<1>1. ASSUME NEW e \in Enders, EnderStep(e) PROVE BudgetMove
  BY <1>1 DEF EnderStep, EndCas, EndEvicted, issueVars, BudgetMove
<1>2. ASSUME NEW p \in Passes, PassStep(p) PROVE BudgetMove
  BY <1>2, SMTT(40)
  DEF PassStep, PassStart, PassMint, LaunchReturned, LaunchChecked, LaunchThrew, PassEnd, ClaimLost,
      ClaimRun, issueVars, BudgetMove
<1>3. ASSUME NEW q \in Polls, PollStep(q) PROVE BudgetMove
  BY <1>3
  DEF PollStep, PollWork, PollAdmit, PollRead, PollMint, PollPack, PollRespond,
      PollRelease, PollOffer, PollReconcile, PollRefuse, PollEnvThrew, PollEvicted,
      PollCut, issueVars, BudgetMove
<1>4. ASSUME NEW x \in Runners, DaemonStep(x) PROVE BudgetMove
  BY <1>4
  DEF DaemonStep, GoAway, HoldExpires, DaemonCrash, MarkRunRunning, Cleanup, FinishLost,
      OrphanReport, FinishReport, issueVars, BudgetMove
<1>5. CASE SweepStep
  BY <1>5
  DEF SweepStep, SweepStalledFail, SweepExpiredKey, SweepStalledRead, PollManagedRun,
      SweepOverdue, SweepOffline, issueVars, BudgetMove
<1>6. CASE PersonStep \/ AgentStep
  BY <1>6
  DEF PersonStep, AgentStep, Rearm, CancelRun, DisableAutomation, CancelAssignedList,
      CancelAssignedDone, PauseRunner, CancelAssignedRun, ResumeIssue, HumanTransition,
      AgentTransition, issueVars, BudgetMove
<1>7. CASE UNCHANGED vars
  BY <1>7 DEF vars, issueVars, BudgetMove
<1> QED BY <1>1, <1>2, <1>3, <1>4, <1>5, <1>6, <1>7 DEF Next

\* The strike that spends the budget parks the issue, for any attempt limit and
\* whatever order strikes, resumes and transitions land in (endRun's batch).
THEOREM BudgetAlwaysParks == Spec => []UnparkedHasBudget
<1>1. Init => UnparkedHasBudget
  BY LimitsAssumption DEF Init, UnparkedHasBudget
<1>2. TypeOK /\ UnparkedHasBudget /\ [Next]_vars => UnparkedHasBudget'
  <2> SUFFICES ASSUME TypeOK, UnparkedHasBudget, [Next]_vars, NEW i \in Issues, ~parked'[i]
               PROVE  attempts'[i] < AttemptLimit
    BY DEF UnparkedHasBudget
  <2>1. CASE UNCHANGED <<attempts, parked>>
    BY <2>1 DEF UnparkedHasBudget
  <2>2. ASSUME NEW j \in Issues, attempts' = [attempts EXCEPT ![j] = 0],
               parked' = [parked EXCEPT ![j] = FALSE]
        PROVE  attempts'[i] < AttemptLimit
    BY <2>2, LimitsAssumption DEF UnparkedHasBudget, TypeOK
  <2>3. ASSUME NEW e \in Enders, EndSettle(e)
        PROVE  attempts'[i] < AttemptLimit
    <3> DEFINE j == issueOf[ender[e].run]
               verdict == ender[e].outcome
    <3>1. /\ attempts' = [attempts EXCEPT ![j] = Charged(@, verdict)]
          /\ parked' = [parked EXCEPT ![j] = @ \/ Parks(attempts[j], verdict)]
      BY <2>3 DEF EndSettle
    <3>2. CASE i # j
      BY <3>1, <3>2 DEF UnparkedHasBudget, TypeOK
    <3>3. CASE i = j
      <4>1. attempts'[i] = Charged(attempts[i], verdict)
        BY <3>1, <3>3 DEF TypeOK
      <4>2. ~(parked[i] \/ Parks(attempts[i], verdict))
        <5>1. parked'[i] = (parked[i] \/ Parks(attempts[i], verdict))
          BY <3>1, <3>3, Zenon DEF TypeOK
        <5> QED BY <5>1
      <4>3. attempts[i] < AttemptLimit /\ attempts[i] \in Nat
        BY <4>2 DEF UnparkedHasBudget, TypeOK
      <4> QED BY <4>1, <4>2, <4>3, LimitsAssumption DEF Charged, Parks
    <3> QED BY <3>2, <3>3
  <2> QED BY <2>1, <2>2, <2>3, EveryStepBudgets DEF BudgetMove
<1> QED BY <1>1, <1>2, TypeCorrect, PTL DEF Spec

-----------------------------------------------------------------------------
(* Strikes.                                                                 *)

\* The runs of an issue that stalled and were charged, or whose charge was lost
\* with the call that owed it.
Struck(i) ==
  {r \in Runs : /\ issueOf[r] = i /\ outcome[r] = "stalled"
                /\ \A e \in Enders : ~(ender[e].pc = "settle" /\ ender[e].run = r)}

\* Each call about to settle won its own run's end, and the count of an issue
\* never exceeds the charges that were due.
StrikeInv ==
  /\ \A e \in Enders : ender[e].pc = "settle" =>
       status[ender[e].run] \in Ended /\ outcome[ender[e].run] = ender[e].outcome
  /\ \A e1, e2 \in Enders :
       (ender[e1].pc = "settle" /\ ender[e2].pc = "settle" /\ ender[e1].run = ender[e2].run)
       => e1 = e2
  /\ \A i \in Issues : attempts[i] <= Cardinality(Struck(i))

\* Larger sets of struck runs count for more.
LEMMA StruckCounts ==
  ASSUME NEW S \in SUBSET Runs, NEW T \in SUBSET Runs, S \subseteq T
  PROVE  /\ Cardinality(S) \in Nat /\ Cardinality(T) \in Nat
         /\ Cardinality(S) <= Cardinality(T)
         /\ \A r \in T \ S : Cardinality(S) + 1 <= Cardinality(T)
<1>1. IsFiniteSet(S) /\ IsFiniteSet(T)
  BY SetsAssumption, FS_Subset
<1>2. /\ Cardinality(S) \in Nat /\ Cardinality(T) \in Nat
      /\ Cardinality(S) <= Cardinality(T)
  BY <1>1, FS_CardinalityType, FS_Subset
<1>3. ASSUME NEW r \in T \ S
      PROVE  Cardinality(S) + 1 <= Cardinality(T)
  <2>1. S \cup {r} \subseteq T /\ r \notin S
    BY <1>3
  <2>2. Cardinality(S \cup {r}) = Cardinality(S) + 1
    BY <1>1, <2>1, FS_AddElement
  <2>3. Cardinality(S \cup {r}) <= Cardinality(T)
    BY <1>1, <2>1, FS_Subset
  <2> QED BY <2>2, <2>3
<1> QED BY <1>2, <1>3

\* Only endRun's CAS makes a call owe a charge, and only for the run it won.
LEMMA OwesOnlyItsRun ==
  ASSUME TypeOK, [Next]_vars, NEW e \in Enders, ender'[e].pc = "settle"
  PROVE  \/ ender'[e] = ender[e]
         \/ /\ ender[e].pc = "cas" /\ EndCas(e) /\ ender'[e].run = ender[e].run
            /\ status[ender[e].run] \in Active /\ status'[ender[e].run] = ender[e].to
            /\ outcome'[ender[e].run] = ender[e].outcome
            /\ ender'[e].outcome = ender[e].outcome
<1>1. CASE EndCas(e)
  <2>1. Endable(ender[e].run)
    BY <1>1 DEF EndCas, IdleEnder, TypeOK
  <2>2. ender[e] \in EnderType /\ ender[e].run \in Runs
    BY <1>1 DEF EndCas, TypeOK, EnderType
  <2>3. ender'[e] = [ender[e] EXCEPT !.pc = "settle"]
    BY <1>1, <2>1 DEF EndCas, TypeOK
  <2>4. ender'[e].run = ender[e].run /\ ender'[e].outcome = ender[e].outcome
    BY <2>2, <2>3 DEF EnderType
  <2> QED BY <1>1, <2>1, <2>2, <2>4 DEF EndCas, Endable, TypeOK
<1>2. CASE EndSettle(e) \/ EndEvicted(e)
  BY <1>2 DEF EndSettle, EndEvicted, IdleEnder, TypeOK
<1> QED BY <1>1, <1>2, EveryStepBegins DEF BeginMove, Begins, EnderStep

\* A call that settles leaves nothing owed of its run.
LEMMA StruckStays ==
  ASSUME TypeOK, JudgmentIsEarned, StrikeInv, [Next]_vars, NEW i
  PROVE  Struck(i) \subseteq Struck(i)'
<1> SUFFICES ASSUME NEW r \in Struck(i) PROVE r \in Struck(i)'
  OBVIOUS
<1>1. /\ r \in Runs /\ issueOf[r] = i /\ outcome[r] = "stalled" /\ status[r] \in Ended
      /\ \A e \in Enders : ~(ender[e].pc = "settle" /\ ender[e].run = r)
  BY DEF Struck, JudgmentIsEarned
<1>2. outcome'[r] = "stalled"
  BY <1>1, EndsStay DEF EndStays
<1>3. issueOf'[r] = i
  BY <1>1, EveryStepMoves DEF RunMove, Unmoved, Moved, Claimed, claimVars, Ended, TypeOK
<1>4. ASSUME NEW e \in Enders, ender'[e].pc = "settle", ender'[e].run = r
      PROVE  FALSE
  BY <1>1, <1>4, OwesOnlyItsRun DEF Active, Ended
<1> QED BY <1>1, <1>2, <1>3, <1>4 DEF Struck

\* Each strike of an issue is one of its runs that stalled: racing ends,
\* interruptions, lost handlers, failed launches and cancelled assignments never
\* charge it, and no run is charged twice.
THEOREM StrikesAreEarned == Spec => []StrikesAreStalledRuns
<1>1. Init => StrikeInv
  <2> SUFFICES ASSUME Init PROVE StrikeInv
    OBVIOUS
  <2>1. ASSUME NEW i \in Issues PROVE attempts[i] <= Cardinality(Struck(i))
    <3>1. Struck(i) \in SUBSET Runs
      BY DEF Struck
    <3>2. Cardinality(Struck(i)) \in Nat
      BY <3>1, StruckCounts
    <3>3. attempts[i] = 0
      BY DEF Init
    <3> QED BY <3>2, <3>3
  <2> QED BY <2>1 DEF Init, StrikeInv, IdleEnder
<1>2. TypeOK /\ TypeOK' /\ JudgmentIsEarned /\ StrikeInv /\ [Next]_vars => StrikeInv'
  <2> SUFFICES ASSUME TypeOK, TypeOK', JudgmentIsEarned, StrikeInv, [Next]_vars
               PROVE  StrikeInv'
    OBVIOUS
  <2>1. ASSUME NEW e \in Enders, ender'[e].pc = "settle"
        PROVE  status'[ender'[e].run] \in Ended /\ outcome'[ender'[e].run] = ender'[e].outcome
    <3>1. CASE ender'[e] = ender[e]
      <4>1. ender[e].run \in Runs
        BY <2>1, <3>1 DEF TypeOK, EnderType
      <4> QED BY <2>1, <3>1, <4>1, EndsStay DEF EndStays, StrikeInv
    <3>2. CASE ender'[e] # ender[e]
      <4>1. ender[e].to \in Ended
        BY DEF TypeOK, EnderType
      <4> QED BY <2>1, <3>2, <4>1, OwesOnlyItsRun
    <3> QED BY <3>1, <3>2
  <2>2. ASSUME NEW e1 \in Enders, NEW e2 \in Enders, ender'[e1].pc = "settle",
               ender'[e2].pc = "settle", ender'[e1].run = ender'[e2].run, e1 # e2
        PROVE  FALSE
    <3>1. CASE ender'[e1] = ender[e1] /\ ender'[e2] = ender[e2]
      BY <2>2, <3>1 DEF StrikeInv
    <3>2. ASSUME NEW a \in Enders, NEW b \in Enders, a # b, ender'[a].pc = "settle",
                 ender'[b].pc = "settle", ender'[a].run = ender'[b].run,
                 ender'[a] # ender[a]
          PROVE  FALSE
      <4>1. EndCas(a) /\ status[ender[a].run] \in Active /\ ender'[a].run = ender[a].run
        BY <3>2, OwesOnlyItsRun
      <4>2. ender'[b] = ender[b]
        BY <3>2, <4>1 DEF EndCas, TypeOK
      <4>3. status[ender[a].run] \in Ended
        BY <3>2, <4>1, <4>2 DEF StrikeInv
      <4> QED BY <4>1, <4>3 DEF Active, Ended
    <3> QED BY <2>2, <3>1, <3>2
  <2>3. ASSUME NEW i \in Issues PROVE attempts'[i] <= Cardinality(Struck(i)')
    <3>0. Struck(i) \in SUBSET Runs /\ Struck(i)' \in SUBSET Runs
      BY DEF Struck
    <3>1. /\ Cardinality(Struck(i)) \in Nat /\ Cardinality(Struck(i)') \in Nat
          /\ Cardinality(Struck(i)) <= Cardinality(Struck(i)')
          /\ \A r \in Struck(i)' \ Struck(i) :
               Cardinality(Struck(i)) + 1 <= Cardinality(Struck(i)')
      BY <3>0, StruckStays, StruckCounts
    <3>2. attempts[i] \in Nat /\ attempts[i] <= Cardinality(Struck(i))
      BY DEF TypeOK, StrikeInv
    <3>3. CASE UNCHANGED <<attempts, parked>>
      BY <3>1, <3>2, <3>3
    <3>4. ASSUME NEW j \in Issues, attempts' = [attempts EXCEPT ![j] = 0]
          PROVE  attempts'[i] <= Cardinality(Struck(i)')
      BY <3>1, <3>2, <3>4 DEF TypeOK
    <3>5. ASSUME NEW e \in Enders, EndSettle(e)
          PROVE  attempts'[i] <= Cardinality(Struck(i)')
      <4> DEFINE r == ender[e].run
      <4>1. /\ r \in Runs /\ ender[e].pc = "settle" /\ outcome[r] = ender[e].outcome
            /\ attempts' = [attempts EXCEPT ![issueOf[r]] = Charged(@, ender[e].outcome)]
            /\ UNCHANGED <<outcome, issueOf>>
        BY <3>5 DEF EndSettle, TypeOK, EnderType, StrikeInv, claimVars
      <4>2. CASE issueOf[r] # i \/ ender[e].outcome # "stalled"
        <5>1. attempts'[i] = attempts[i] \/ attempts'[i] = 0
          BY <4>1, <4>2 DEF Charged, TypeOK
        <5> QED BY <3>1, <3>2, <5>1
      <4>3. CASE issueOf[r] = i /\ ender[e].outcome = "stalled"
        <5>1. attempts'[i] = attempts[i] + 1
          BY <4>1, <4>3 DEF Charged, TypeOK
        <5>2. r \notin Struck(i)
          BY <4>1 DEF Struck
        <5>3. \A e2 \in Enders : ~(ender'[e2].pc = "settle" /\ ender'[e2].run = r)
          <6>1. ender'[e].pc = "idle" /\ \A e2 \in Enders \ {e} : ender'[e2] = ender[e2]
            BY <3>5 DEF EndSettle, IdleEnder, TypeOK
          <6> QED BY <4>1, <6>1 DEF StrikeInv
        <5>4. r \in Struck(i)'
          BY <4>1, <4>3, <5>3 DEF Struck
        <5> QED BY <3>1, <3>2, <5>1, <5>2, <5>4
      <4> QED BY <4>2, <4>3
    <3> QED BY <3>3, <3>4, <3>5, EveryStepBudgets DEF BudgetMove
  <2> QED BY <2>1, <2>2, <2>3 DEF StrikeInv
<1>3. TypeOK /\ StrikeInv => StrikesAreStalledRuns
  <2> SUFFICES ASSUME TypeOK, StrikeInv, NEW i \in Issues
               PROVE  attempts[i] <= Cardinality({r \in Runs : /\ issueOf[r] = i
                                                               /\ outcome[r] = "stalled"})
    BY DEF StrikesAreStalledRuns
  <2> DEFINE stalled == {r \in Runs : issueOf[r] = i /\ outcome[r] = "stalled"}
  <2>1. Struck(i) \subseteq stalled /\ Struck(i) \in SUBSET Runs /\ stalled \in SUBSET Runs
    BY DEF Struck
  <2>2. /\ Cardinality(Struck(i)) \in Nat /\ Cardinality(stalled) \in Nat
        /\ Cardinality(Struck(i)) <= Cardinality(stalled)
    BY <2>1, StruckCounts
  <2>3. attempts[i] \in Nat /\ attempts[i] <= Cardinality(Struck(i))
    BY DEF TypeOK, StrikeInv
  <2> QED BY <2>2, <2>3
<1> QED BY <1>1, <1>2, <1>3, TypeCorrect, JudgmentsAreEarned, PTL DEF Spec

-----------------------------------------------------------------------------
(* The machine's ceiling.                                                   *)

Busy(x) == table[x] \cup closing[x]

\* A step adds harnesses to a machine only when a poll's response lets it.
BusyMove ==
  \A x \in Runners :
    \/ Busy(x)' \subseteq Busy(x)
    \/ \E took \in SUBSET Runs : /\ Cardinality(Busy(x) \cup took) <= MaxConcurrent[x]
                                 /\ Busy(x)' \subseteq Busy(x) \cup took

\* A poll's answer takes no more runs than the ceiling leaves.
LEMMA RespondFits ==
  ASSUME TypeOK, NEW q \in Polls, NEW took \in SUBSET Runs, PollRespond(q, took)
  PROVE  BusyMove
<1>1. CASE poll[q].cut
  BY <1>1 DEF PollRespond, BusyMove, Busy
<1>2. CASE ~poll[q].cut
  <2>1. PICK x \in Runners \cup {None} : x = poll[q].on
    BY DEF TypeOK, PollType
  <2>2. /\ table' = [table EXCEPT ![x] = (@ \ poll[q].cancels) \cup took]
        /\ closing' = [closing EXCEPT ![x] = @ \cup (table[x] \cap poll[q].cancels)]
        /\ took \in Accepts(x, declined[x] \ poll[q].released, table[x] \cup closing[x],
                            poll[q].out)
    BY <1>2, <2>1 DEF PollRespond
  <2>3. took = {} \/ Cardinality(Busy(x) \cup took) <= MaxConcurrent[x]
    BY <2>2 DEF Accepts, Busy
  <2>4. \A y \in Runners \ {x} : Busy(y)' = Busy(y)
    BY <2>2 DEF Busy, TypeOK
  <2>5. x \in Runners => Busy(x)' \subseteq Busy(x) \cup took
    BY <2>2 DEF Busy, TypeOK
  <2> QED BY <2>3, <2>4, <2>5 DEF BusyMove
<1> QED BY <1>1, <1>2

\* Every step keeps the machine within its ceiling.
LEMMA EveryStepFits ==
  ASSUME TypeOK, [Next]_vars
  PROVE  BusyMove
<1>0. ASSUME UNCHANGED <<table, closing>> PROVE BusyMove
  BY <1>0 DEF BusyMove, Busy
<1>1. ASSUME NEW e \in Enders, EnderStep(e) PROVE BusyMove
  BY <1>0, <1>1 DEF EnderStep, EndCas, EndSettle, EndEvicted, daemonVars
<1>2. ASSUME NEW p \in Passes, PassStep(p) PROVE BusyMove
  BY <1>0, <1>2, SMTT(40)
  DEF PassStep, PassStart, PassMint, LaunchReturned, LaunchChecked, LaunchThrew, PassEnd, ClaimLost,
      ClaimRun, daemonVars
<1>3. ASSUME NEW q \in Polls, PollStep(q) PROVE BusyMove
  <2>1. ASSUME NEW took \in SUBSET Runs, PollRespond(q, took) PROVE BusyMove
    BY <2>1, RespondFits
  <2> QED
    BY <1>0, <1>3, <2>1
    DEF PollStep, PollWork, PollAdmit, PollRead, PollMint, PollPack, PollRelease,
        PollOffer, PollReconcile, PollRefuse, PollEnvThrew, PollEvicted, PollCut, daemonVars
<1>4. ASSUME NEW x \in Runners, DaemonStep(x) PROVE BusyMove
  <2>1. ASSUME NEW kept \in SUBSET Runs, DaemonCrash(x, kept) PROVE BusyMove
    BY <2>1 DEF DaemonCrash, BusyMove, Busy, TypeOK
  <2>2. ASSUME NEW r \in Runs, Cleanup(x, r) \/ FinishLost(x, r) PROVE BusyMove
    <3>1. CASE Cleanup(x, r)
      <4>1. table' = table /\ closing' = [closing EXCEPT ![x] = @ \ {r}]
        BY <3>1 DEF Cleanup
      <4> QED BY <4>1 DEF BusyMove, Busy, TypeOK
    <3>2. CASE FinishLost(x, r)
      <4>1. closing' = closing /\ table' = [table EXCEPT ![x] = @ \ {r}]
        BY <3>2 DEF FinishLost
      <4> QED BY <4>1 DEF BusyMove, Busy, TypeOK
    <3> QED BY <2>2, <3>1, <3>2
  <2>3. ASSUME NEW e \in Enders, NEW r \in Runs, NEW to, NEW b, FinishReport(x, e, r, to, b)
        PROVE  BusyMove
    BY <2>3 DEF FinishReport, BusyMove, Busy, TypeOK
  <2> QED
    BY <1>0, <1>4, <2>1, <2>2, <2>3
    DEF DaemonStep, GoAway, HoldExpires, MarkRunRunning, OrphanReport, daemonVars
<1>5. CASE SweepStep
  BY <1>0, <1>5
  DEF SweepStep, SweepStalledFail, SweepExpiredKey, SweepStalledRead, PollManagedRun,
      SweepOverdue, SweepOffline, daemonVars
<1>6. CASE PersonStep \/ AgentStep
  BY <1>0, <1>6
  DEF PersonStep, AgentStep, Rearm, CancelRun, DisableAutomation, CancelAssignedList,
      CancelAssignedDone, PauseRunner, CancelAssignedRun, ResumeIssue, HumanTransition,
      AgentTransition, daemonVars
<1>7. CASE UNCHANGED vars
  BY <1>0, <1>7 DEF vars, daemonVars
<1> QED BY <1>1, <1>2, <1>3, <1>4, <1>5, <1>6, <1>7 DEF Next

\* Counting part of a set against a limit the set respects.
LEMMA FewerFit ==
  ASSUME NEW S, NEW T, IsFiniteSet(S), T \subseteq S, NEW limit \in Nat,
         Cardinality(S) <= limit
  PROVE  Cardinality(T) <= limit
<1>1. /\ Cardinality(T) <= Cardinality(S) /\ IsFiniteSet(T)
  BY FS_Subset
<1>2. Cardinality(T) \in Nat /\ Cardinality(S) \in Nat
  BY <1>1, FS_CardinalityType
<1> QED BY <1>1, <1>2

\* The harnesses alive on a device never exceed its ceiling, though the server
\* frees slots before processes are dead (the daemon's capacity check).
THEOREM MachineNeverOverfull == Spec => []MachineCapHolds
<1>1. Init => MachineCapHolds
  <2> SUFFICES ASSUME Init, NEW x \in Local PROVE Cardinality(Busy(x)) <= MaxConcurrent[x]
    BY DEF MachineCapHolds, Busy
  <2>1. Busy(x) = {} /\ MaxConcurrent[x] \in Nat
    BY LimitsAssumption DEF Init, Busy, Local
  <2> QED BY <2>1, FS_EmptySet
<1>2. TypeOK /\ MachineCapHolds /\ [Next]_vars => MachineCapHolds'
  <2> SUFFICES ASSUME TypeOK, MachineCapHolds, [Next]_vars, NEW x \in Local
               PROVE  Cardinality(Busy(x)') <= MaxConcurrent[x]
    BY DEF MachineCapHolds, Busy
  <2>1. /\ MaxConcurrent[x] \in Nat /\ x \in Runners
        /\ Cardinality(Busy(x)) <= MaxConcurrent[x]
    BY LimitsAssumption DEF Local, MachineCapHolds, Busy
  <2>2. \A S \in SUBSET Runs : IsFiniteSet(S)
    BY SetsAssumption, FS_Subset
  <2>3. Busy(x) \in SUBSET Runs
    BY <2>1 DEF TypeOK, Busy
  <2>4. CASE Busy(x)' \subseteq Busy(x)
    BY <2>1, <2>2, <2>3, <2>4, FewerFit
  <2>5. ASSUME NEW took \in SUBSET Runs, Cardinality(Busy(x) \cup took) <= MaxConcurrent[x],
               Busy(x)' \subseteq Busy(x) \cup took
        PROVE  Cardinality(Busy(x)') <= MaxConcurrent[x]
    <3>1. IsFiniteSet(Busy(x) \cup took)
      BY <2>2, <2>3
    <3> QED BY <2>1, <2>5, <3>1, FewerFit
  <2> QED BY <2>1, <2>4, <2>5, EveryStepFits DEF BusyMove
<1> QED BY <1>1, <1>2, TypeCorrect, PTL DEF Spec

-----------------------------------------------------------------------------
(* Keys die with their runs.                                                *)

Settling(r) == \E e \in Enders : ender[e].pc = "settle" /\ ender[e].run = r
Loose(r) == status[r] \in Ended /\ key[r] = "live"

\* A step leaves a live key on an ended run only with a call of endRun about to
\* revoke it, and ends such a call only by revoking.
KeyMove ==
  /\ \A r \in Runs : Loose(r)' => Loose(r) \/ Settling(r)'
  /\ \A e \in Enders : ender[e].pc = "settle" =>
       ender'[e] = ender[e] \/ key'[ender[e].run] # "live"

\* A step that ends no run, revives no key and interrupts no settling is safe.
LEMMA QuietKey ==
  ASSUME \A r \in Runs : Loose(r)' => Loose(r),
         \A e \in Enders : ender[e].pc = "settle" => ender'[e] = ender[e]
  PROVE  KeyMove
BY DEF KeyMove

\* A step that leaves statuses and keys alone loosens no key.
LEMMA SameRunsQuiet ==
  ASSUME UNCHANGED <<status, key>>,
         \A e \in Enders : ender[e].pc = "settle" => ender'[e] = ender[e]
  PROVE  KeyMove
BY DEF KeyMove, Loose

\* A call of endRun that begins takes no settling one's place.
LEMMA BeganQuiet ==
  ASSUME TypeOK, NEW e \in Enders, NEW by, NEW r, NEW to, NEW b, NEW s,
         Began(e, by, r, to, b, s)
  PROVE  \A e2 \in Enders : ender[e2].pc = "settle" => ender'[e2] = ender[e2]
BY DEF Began, TypeOK

\* A finish loosens a key only with a call that will revoke it.
LEMMA FinishQuiet ==
  ASSUME TypeOK, NEW e \in Enders, NEW by, NEW r \in Runs, NEW to, NEW b,
         FinishRun(e, by, r, to, b), UNCHANGED key
  PROVE  KeyMove
<1>1. CASE Finishable(r)
  <2>1. \A e2 \in Enders : ender[e2].pc = "settle" => ender'[e2] = ender[e2]
    BY <1>1, BeganQuiet DEF FinishRun
  <2>2. \A t \in Runs : Loose(t)' => Loose(t)
    BY <1>1 DEF FinishRun, Finishable, Loose, Ended, TypeOK
  <2> QED BY <2>1, <2>2, QuietKey
<1>2. CASE ~Finishable(r)
  BY <1>2, SameRunsQuiet DEF FinishRun
<1> QED BY <1>1, <1>2

\* A failed launch revokes its key.
LEMMA FailLaunchQuiet ==
  ASSUME TypeOK, NEW r \in Runs, FailLaunch(r), UNCHANGED ender
  PROVE  KeyMove
<1>1. /\ \A t \in Runs \ {r} : status'[t] = status[t] /\ key'[t] = key[t]
      /\ key'[r] # "live"
  BY DEF FailLaunch, Revoked, TypeOK
<1> QED BY <1>1, QuietKey DEF Loose

\* A key is minted for a run that goes on.
LEMMA MintQuiet ==
  ASSUME TypeOK, NEW r \in Runs, MintRunKeyAndFlip(r), UNCHANGED ender
  PROVE  KeyMove
<1>1. /\ \A t \in Runs \ {r} : status'[t] = status[t] /\ key'[t] = key[t]
      /\ status'[r] = "launching" \/ (status'[r] = status[r] /\ key'[r] = key[r])
  BY DEF MintRunKeyAndFlip, TypeOK
<1> QED BY <1>1, QuietKey DEF Loose, Ended

\* Without evictions every step leaves each loose key with its revoker.
LEMMA EveryStepQuiet ==
  ASSUME TypeOK, [Next]_vars, "evict" \notin Events
  PROVE  KeyMove
<1>1. ASSUME NEW e \in Enders, EnderStep(e) PROVE KeyMove
  <2>1. CASE EndCas(e)
    <3>0. \A e2 \in Enders : ender[e2].pc = "settle" => ender'[e2] = ender[e2]
      BY <2>1 DEF EndCas, TypeOK
    <3>1. CASE Endable(ender[e].run)
      <4>1. \A r \in Runs \ {ender[e].run} : Loose(r)' => Loose(r)
        BY <2>1, <3>1 DEF EndCas, Loose, TypeOK
      <4>2. ender'[e].pc = "settle" /\ ender'[e].run = ender[e].run
        BY <2>1, <3>1 DEF EndCas, TypeOK, EnderType
      <4> QED BY <3>0, <4>1, <4>2 DEF KeyMove, Settling
    <3>2. CASE ~Endable(ender[e].run)
      BY <2>1, <3>0, <3>2, SameRunsQuiet DEF EndCas
    <3> QED BY <3>1, <3>2
  <2>2. CASE EndSettle(e)
    <3>1. ender[e].run \in Runs /\ key'[ender[e].run] # "live"
      BY <2>2 DEF EndSettle, Revoked, TypeOK, EnderType
    <3>2. \A r \in Runs : Loose(r)' => Loose(r)
      BY <2>2 DEF EndSettle, Revoked, Loose, TypeOK
    <3>3. \A e2 \in Enders \ {e} : ender'[e2] = ender[e2]
      BY <2>2 DEF EndSettle, TypeOK
    <3> QED BY <3>1, <3>2, <3>3 DEF KeyMove
  <2> QED BY <1>1, <2>1, <2>2 DEF EnderStep, EndEvicted
<1>2. ASSUME NEW p \in Passes, PassStep(p) PROVE KeyMove
  <2> pass[p].pc \in {"mint", "launch", "check"} => pass[p].run \in Runs
    BY DEF TypeOK, PassType
  <2>1. CASE PassMint(p)
    BY <2>1, MintQuiet DEF PassMint
  <2>2. CASE LaunchThrew(p)
    BY <2>2, FailLaunchQuiet DEF LaunchThrew
  <2>3. CASE LaunchReturned(p)
    <3>1. \A r \in Runs : status'[r] \in Ended => status[r] \in Ended
      BY <2>3 DEF LaunchReturned, Ended, TypeOK
    <3> QED BY <2>3, <3>1, QuietKey DEF LaunchReturned, Loose
  <2>4. ASSUME NEW c \in Issues \X States, NEW x \in Runners, NEW r \in Runs,
               ClaimRun(p, c, x, r)
        PROVE  KeyMove
    <3>1. \A t \in Runs : status'[t] \in Ended => status[t] \in Ended
      BY <2>4 DEF ClaimRun, Ended, TypeOK
    <3> QED BY <2>4, <3>1, QuietKey DEF ClaimRun, Loose
  <2>5. CASE UNCHANGED <<status, key, ender>>
    BY <2>5, SameRunsQuiet
  <2> QED
    BY <1>2, <2>1, <2>2, <2>3, <2>4, <2>5
    DEF PassStep, PassStart, PassEnd, LaunchChecked, ClaimLost, runVars
<1>3. ASSUME NEW q \in Polls, PollStep(q) PROVE KeyMove
  <2> poll[q].pc \in {"mint", "env"} => poll[q].run \in Runs
    BY DEF TypeOK, PollType
  <2>1. CASE PollMint(q)
    BY <2>1, MintQuiet DEF PollMint
  <2>2. CASE PollEnvThrew(q)
    BY <2>2, FailLaunchQuiet DEF PollEnvThrew
  <2>3. ASSUME NEW r \in Runs, PollRelease(q, r) PROVE KeyMove
    <3>1. /\ \A t \in Runs \ {r} : status'[t] = status[t] /\ key'[t] = key[t]
          /\ key'[r] # "live" \/ (status'[r] = status[r] /\ key'[r] = key[r])
      BY <2>3 DEF PollRelease, Revoked, TypeOK
    <3> QED BY <2>3, <3>1, QuietKey DEF PollRelease, Loose
  <2>4. ASSUME NEW e \in Enders, NEW r \in Runs,
               PollReconcile(q, e, r) \/ PollRefuse(q, e, r)
        PROVE  KeyMove
    <3>1. UNCHANGED ender \/ \E to, b : EndRun(e, q, r, to, b)
      BY <2>4 DEF PollReconcile, PollRefuse
    <3>2. \A e2 \in Enders : ender[e2].pc = "settle" => ender'[e2] = ender[e2]
      BY <3>1, BeganQuiet DEF EndRun
    <3> QED BY <2>4, <3>2, SameRunsQuiet DEF PollReconcile, PollRefuse, runVars
  <2>5. CASE UNCHANGED <<status, key, ender>>
    BY <2>5, SameRunsQuiet
  <2> QED
    BY <1>3, <2>1, <2>2, <2>3, <2>4, <2>5
    DEF PollStep, PollWork, PollAdmit, PollRead, PollPack, PollRespond, PollOffer,
        PollEvicted, PollCut, runVars
<1>4. ASSUME NEW x \in Runners, DaemonStep(x) PROVE KeyMove
  <2>1. ASSUME NEW e \in Enders, NEW r \in Runs, OrphanReport(x, e, r) PROVE KeyMove
    BY <2>1, FinishQuiet DEF OrphanReport
  <2>2. ASSUME NEW e \in Enders, NEW r \in Runs, NEW to, NEW b, FinishReport(x, e, r, to, b)
        PROVE  KeyMove
    BY <2>2, FinishQuiet DEF FinishReport
  <2>3. ASSUME NEW r \in Runs, MarkRunRunning(x, r) PROVE KeyMove
    <3>1. \A t \in Runs : status'[t] \in Ended => status[t] \in Ended
      BY <2>3 DEF MarkRunRunning, Ended, TypeOK
    <3> QED BY <2>3, <3>1, QuietKey DEF MarkRunRunning, Loose
  <2>4. CASE UNCHANGED <<status, key, ender>>
    BY <2>4, SameRunsQuiet
  <2> QED
    BY <1>4, <2>1, <2>2, <2>3, <2>4
    DEF DaemonStep, GoAway, HoldExpires, DaemonCrash, Cleanup, FinishLost, runVars
<1>5. CASE SweepStep
  <2>1. ASSUME NEW w \in Sweepers, SweepStalledFail(w) PROVE KeyMove
    <3>1. stall[w] \in Runs
      BY <2>1 DEF TypeOK, SweepStalledFail
    <3> QED BY <2>1, <3>1, FailLaunchQuiet DEF SweepStalledFail
  <2>2. ASSUME NEW r \in Runs, SweepExpiredKey(r) PROVE KeyMove
    <3>1. \A t \in Runs : key'[t] = "live" => key[t] = "live"
      BY <2>2 DEF SweepExpiredKey, Revoked, TypeOK
    <3> QED BY <2>2, <3>1, QuietKey DEF SweepExpiredKey, Loose
  <2>3. ASSUME NEW e \in Enders, NEW r \in Runs, NEW to,
               \/ SweepOverdue(e, r) \/ SweepOffline(e, r) \/ PollManagedRun(e, r, to)
        PROVE  KeyMove
    <3>1. \E t, b : EndRun(e, None, r, t, b)
      BY <2>3 DEF SweepOverdue, SweepOffline, PollManagedRun
    <3>2. \A e2 \in Enders : ender[e2].pc = "settle" => ender'[e2] = ender[e2]
      BY <3>1, BeganQuiet DEF EndRun
    <3> QED
      BY <2>3, <3>2, SameRunsQuiet DEF SweepOverdue, SweepOffline, PollManagedRun, runVars
  <2>4. CASE UNCHANGED <<status, key, ender>>
    BY <2>4, SameRunsQuiet
  <2> QED BY <1>5, <2>1, <2>2, <2>3, <2>4 DEF SweepStep, SweepStalledRead, runVars
<1>6. CASE PersonStep \/ AgentStep
  <2>1. ASSUME NEW e \in Enders, NEW r \in Runs,
               CancelRun(e, r) \/ \E o \in Operators : CancelAssignedRun(o, e, r)
        PROVE  KeyMove
    <3>1. UNCHANGED ender \/ \E by, t, b : EndRun(e, by, r, t, b)
      BY <2>1 DEF CancelRun, CancelAssignedRun
    <3>2. \A e2 \in Enders : ender[e2].pc = "settle" => ender'[e2] = ender[e2]
      BY <3>1, BeganQuiet DEF EndRun
    <3> QED BY <2>1, <3>2, SameRunsQuiet DEF CancelRun, CancelAssignedRun, runVars
  <2>2. CASE UNCHANGED <<status, key, ender>>
    BY <2>2, SameRunsQuiet
  <2> QED
    BY <1>6, <2>1, <2>2
    DEF PersonStep, AgentStep, Rearm, DisableAutomation, CancelAssignedList,
        CancelAssignedDone, PauseRunner, ResumeIssue, HumanTransition, AgentTransition,
        runVars
<1>7. CASE UNCHANGED vars
  BY <1>7, SameRunsQuiet DEF vars, runVars
<1> QED BY <1>1, <1>2, <1>3, <1>4, <1>5, <1>6, <1>7 DEF Next

\* If no handler is evicted between two statements, the key of an ended run is
\* live only while the call of endRun that ended it is about to revoke it,
\* though flips, failed launches, declines and expiries race with it.
THEOREM KeysDieWithRuns ==
  ASSUME "evict" \notin Events
  PROVE  Spec => []KeyDiesWithRun
<1>1. Init => KeyDiesWithRun
  BY DEF Init, KeyDiesWithRun, Ended
<1>2. TypeOK /\ KeyDiesWithRun /\ [Next]_vars => KeyDiesWithRun'
  <2> SUFFICES ASSUME TypeOK, KeyDiesWithRun, [Next]_vars, NEW r \in Runs, Loose(r)'
               PROVE  Settling(r)'
    BY DEF KeyDiesWithRun, Loose, Settling
  <2>1. KeyMove
    BY EveryStepQuiet
  <2>2. CASE Loose(r)
    <3>1. PICK e \in Enders : ender[e].pc = "settle" /\ ender[e].run = r
      BY <2>2 DEF KeyDiesWithRun, Loose
    <3>2. ender'[e] = ender[e]
      BY <2>1, <3>1 DEF KeyMove, Loose
    <3> QED BY <3>1, <3>2 DEF Settling
  <2> QED BY <2>1, <2>2 DEF KeyMove
<1> QED BY <1>1, <1>2, TypeCorrect, PTL DEF Spec
=============================================================================
