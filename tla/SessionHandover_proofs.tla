------------------------ MODULE SessionHandover_proofs ------------------------
(***************************************************************************)
(* Theorems about SessionHandover, for any number of runs, handles and     *)
(* sweeps.  All but the last rest on HandInv, whose core is that a handle  *)
(* has one owner: the run recorded on it, the end that is to keep it, the  *)
(* row that keeps it, or the launch that made it or took it over.          *)
(***************************************************************************)
EXTENDS SessionHandover, WellFoundedInduction, TLAPS

-----------------------------------------------------------------------------
(* Types *)

\* Where a launch stands: before its claim, before the message, while it holds
\* its row, after.

Early == {"looking", "found", "claiming"}
Untold == {"rotating", "retagging", "marking"}
Holding == Untold \cup {"sending", "accepting", "dropping"}
Past == {"releasing", "recording"}

RunRows == [st : {"unused", "launching", "running", "ended"}, handle : Handles \cup {0},
            collected : BOOLEAN]
ResourceRows == [st : {"none", "available", "claimed", "disposing"}, handle : Handles \cup {0},
                 expired : BOOLEAN, by : RunIds \cup {0},
                 phase : {"none", "preparing", "sending", "accepted"}]
SessionRows == [st : {"none", "live", "archived"}, tag : RunIds \cup {0}, speaker : RunIds \cup {0}]
VaultRows == [st : {"none", "there", "deleted"}, key : RunIds \cup {0}]

LookingRows == [pc : {"looking"}, late : SUBSET RunIds]
FoundRows == [pc : {"found"}, late : SUBSET RunIds, pred : RunIds]
TransferRows == [pc : {"claiming"} \cup Holding \cup Past, pred : RunIds, handle : Handles]
MakingRows == [pc : {"fresh", "creating"}]
MadeRows == [pc : {"recording"}, handle : Handles]
LaunchRows == LookingRows \cup FoundRows \cup TransferRows \cup MakingRows \cup MadeRows \cup {Free}

Owed == {"superseding", "retaining"}
EnderRows == [pc : Owed \cup {"flagging", "archiving", "deleting", "marking"}] \cup {Free}

Disposing == {"dismantling", "emptying", "forgetting"}
Collecting == {"judging", "deleting", "archiving", "marking"}
DisposalRows == [pc : {"taking"} \cup Disposing, owner : RunIds,
                 st : {"available", "claimed", "disposing"}, handle : Handles]
CollectRows == [pc : {"protecting", "listing"} \cup Collecting, kind : {"run", "vault", "session"},
                handle : Handles, of : RunIds, keep : BOOLEAN,
                left : SUBSET {"rows", "runs"}, users : SUBSET RunIds]
SweepRows == DisposalRows \cup CollectRows \cup {Free}

HandoverTypes ==
    /\ run \in [RunIds -> RunRows]
    /\ resource \in [RunIds -> ResourceRows]
    /\ session \in [Handles -> SessionRows]
    /\ vault \in [Handles -> VaultRows]
    /\ launch \in [RunIds -> LaunchRows]
    /\ ender \in [RunIds -> EnderRows]
    /\ sweep \in [Sweeps -> SweepRows]
    /\ \A o \in RunIds : resource[o].st = "none" <=> resource[o].handle = 0
    /\ \A h \in Handles : Live(h) => session[h].tag # 0

RunsFit ==
  \A r \in RunIds :
    /\ run[r].st \in {"unused", "launching"} => run[r].handle = 0
    /\ run[r].st = "running" => run[r].handle # 0
    /\ run[r].st = "unused" => launch[r] = Free
    /\ run[r].handle # 0 => launch[r] = Free
    /\ ender[r] # Free => run[r].st = "ended" /\ run[r].handle # 0

\* Where a launch stands tells what its handler holds.
LEMMA LaunchTells ==
  ASSUME NEW x \in LaunchRows
  PROVE  /\ x.pc = "looking" => x \in LookingRows
         /\ x.pc = "found" => x \in FoundRows
         /\ x.pc \in {"claiming", "releasing"} \cup Holding => x \in TransferRows
         /\ x.pc \in {"fresh", "creating"} => x \in MakingRows
         /\ x.pc = "recording" => x \in TransferRows \cup MadeRows
         /\ x.pc = "free" <=> x = Free
         /\ x.pc \in {"claiming"} \cup Holding \cup Past => x.handle \in Handles
BY DEF LaunchRows, LookingRows, FoundRows, TransferRows, MakingRows, MadeRows, Free,
       Holding, Untold, Past

\* A hand-over that goes on keeps what it names.
LEMMA TransferGoes ==
  ASSUME NEW x \in TransferRows, NEW pc \in {"claiming"} \cup Holding \cup Past
  PROVE  /\ [x EXCEPT !.pc = pc] \in TransferRows
         /\ [x EXCEPT !.pc = pc].pc = pc
         /\ [x EXCEPT !.pc = pc].pred = x.pred
         /\ [x EXCEPT !.pc = pc].handle = x.handle
BY DEF TransferRows

\* Where a sweep stands tells what its handler holds.
LEMMA SweepTells ==
  ASSUME NEW x \in SweepRows
  PROVE  /\ x.pc \in {"taking"} \cup Disposing => x \in DisposalRows
         /\ x.pc \in {"protecting", "listing"} \cup Collecting => x \in CollectRows
         /\ x.pc = "free" <=> x = Free
BY DEF SweepRows, DisposalRows, CollectRows, Free, Disposing, Collecting

\* A disposal that goes on keeps what it names.
LEMMA DisposalGoes ==
  ASSUME NEW x \in DisposalRows, NEW pc \in {"taking"} \cup Disposing
  PROVE  /\ [x EXCEPT !.pc = pc] \in DisposalRows /\ [x EXCEPT !.pc = pc].pc = pc
         /\ [x EXCEPT !.pc = pc].owner = x.owner /\ [x EXCEPT !.pc = pc].st = x.st
         /\ [x EXCEPT !.pc = pc].handle = x.handle
BY DEF DisposalRows

\* A collection that goes on keeps what it looks at.
LEMMA CollectGoes ==
  ASSUME NEW x \in CollectRows, NEW pc \in {"protecting", "listing"} \cup Collecting
  PROVE  /\ [x EXCEPT !.pc = pc] \in CollectRows /\ [x EXCEPT !.pc = pc].pc = pc
         /\ [x EXCEPT !.pc = pc].kind = x.kind /\ [x EXCEPT !.pc = pc].handle = x.handle
         /\ [x EXCEPT !.pc = pc].of = x.of /\ [x EXCEPT !.pc = pc].keep = x.keep
         /\ [x EXCEPT !.pc = pc].left = x.left /\ [x EXCEPT !.pc = pc].users = x.users
BY DEF CollectRows

\* A set of naturals that is not empty has a least member.
LEMMA LeastOfNaturals ==
  ASSUME NEW T \in SUBSET Nat, T # {}
  PROVE  \E n \in T : \A m \in T : n <= m
<1> DEFINE R == OpToRel(<, Nat)
<1>1. IsWellFoundedOn(R, Nat)
  BY NatLessThanWellFounded
<1>2. \A x, y \in Nat : <<y, x>> \in R <=> y < x
  BY DEF OpToRel
<1> HIDE DEF R
<1>3. PICK n \in T : \A m \in T : ~(<<m, n>> \in R)
  BY <1>1, WFMin
<1>4. ASSUME NEW m \in T
      PROVE  n <= m
  <2>1. n \in Nat /\ m \in Nat
    OBVIOUS
  <2>2. ~(m < n)
    BY <1>2, <1>3, <2>1
  <2> QED BY <2>1, <2>2
<1> QED BY <1>3, <1>4

\* The newest of some runs is one of them.
LEMMA NewestIsOne ==
  ASSUME NEW S \in SUBSET RunIds, S # {}
  PROVE  Newest(S) \in S
<1> DEFINE T == {n \in Nat : \E q \in S : n = MaxRuns - q}
<1>1. PICK q \in S : TRUE
  OBVIOUS
<1>2. MaxRuns - q \in T
  BY HandoverAssumption DEF RunIds
<1>3. PICK n \in T : \A m \in T : n <= m
  BY <1>2, LeastOfNaturals
<1>4. PICK p \in S : n = MaxRuns - p
  BY <1>3
<1>5. \A x \in S : x <= p
  <2> SUFFICES ASSUME NEW x \in S PROVE x <= p
    OBVIOUS
  <2>1. MaxRuns - x \in T
    BY HandoverAssumption DEF RunIds
  <2>2. n <= MaxRuns - x
    BY <1>3, <2>1
  <2> QED BY <1>4, <2>2, HandoverAssumption DEF RunIds
<1> QED BY <1>5 DEF Newest

-----------------------------------------------------------------------------
\* Sessions and vaults wane: nothing becomes live or there, no tag and no key
\* changes.
Wane ==
  /\ session \in [Handles -> SessionRows] => session' \in [Handles -> SessionRows]
  /\ vault \in [Handles -> VaultRows] => vault' \in [Handles -> VaultRows]
  /\ \A h \in Handles :
       /\ session'[h].tag = session[h].tag /\ session'[h].speaker = session[h].speaker
       /\ session'[h].st = session[h].st \/ (session[h].st = "live" /\ session'[h].st = "archived")
       /\ vault'[h].key = vault[h].key
       /\ vault'[h].st = vault[h].st \/ (vault[h].st = "there" /\ vault'[h].st = "deleted")

\* Archiving one session or deleting one vault only lets something go.
LEMMA ProvidersWane ==
  ASSUME session \in [Handles -> SessionRows], vault \in [Handles -> VaultRows], NEW h \in Handles,
         \/ UNCHANGED provider
         \/ Archived(h) /\ UNCHANGED vault
         \/ Deleted(h) /\ UNCHANGED session
  PROVE  Wane
<1>1. CASE UNCHANGED provider
  BY <1>1 DEF Wane, provider
<1>2. CASE Archived(h) /\ UNCHANGED vault
  <2>1. /\ session' \in [Handles -> SessionRows]
        /\ \A g \in Handles : 
            /\ session'[g].tag = session[g].tag /\ session'[g].speaker = session[g].speaker
            /\ session'[g].st = session[g].st \/ (session[g].st = "live" /\ session'[g].st = "archived")
    BY <1>2 DEF Archived, SessionRows
  <2> QED BY <1>2, <2>1 DEF Wane
<1>3. CASE Deleted(h) /\ UNCHANGED session
  <2>1. /\ vault' \in [Handles -> VaultRows]
        /\ \A g \in Handles : 
            /\ vault'[g].key = vault[g].key
            /\ vault'[g].st = vault[g].st \/ (vault[g].st = "there" /\ vault'[g].st = "deleted")
    BY <1>3 DEF Deleted, VaultRows
  <2> QED BY <1>3, <2>1 DEF Wane
<1> QED BY <1>1, <1>2, <1>3

\* Steps that leave resources and launches alone, and of runs what they are.
Apart ==
  /\ UNCHANGED <<resource, launch>>
  /\ Wane
  /\ run' \in [RunIds -> RunRows] /\ ender' \in [RunIds -> EnderRows]
  /\ \A r \in RunIds : run'[r].st = run[r].st /\ run'[r].handle = run[r].handle
  /\ \A r \in RunIds : ender'[r] = ender[r] \/ (ender[r] # Free /\ ender'[r].pc \notin Owed)

ApartSteps ==
  \/ \E r \in RunIds : \/ Interrupts(r) \/ Flags(r) \/ LetsSessionGo(r) \/ LetsVaultGo(r)
                       \/ MarksCollected(r) \/ EnderDies(r)
  \/ \E w \in Sweeps : 
       \/ \E o \in RunIds : DisposalLists(w, o)
       \/ \E kind \in {"run", "vault", "session"}, h \in Handles, r \in RunIds : Looks(w, kind, h, r)
       \/ DisposalArchives(w) \/ DisposalDeletes(w) \/ Protects(w) \/ Lists(w) \/ Judges(w)
       \/ CollectsVault(w) \/ CollectsSession(w) \/ MarksRun(w) \/ SweepFails(w)

\* Interrupting, finalizing without a row, looking and collecting stand apart
\* from rows and launches.
LEMMA StandsApart ==
  ASSUME HandoverTypes, RunsFit, ApartSteps
  PROVE  Apart
<1> USE DEF HandoverTypes
<1>1. ASSUME UNCHANGED <<run, resource, provider, launch, ender>>
      PROVE  Apart
  <2>1. Wane
    BY <1>1 DEF Wane, provider
  <2> QED BY <1>1, <2>1 DEF Apart
<1>2. ASSUME NEW h \in Handles, UNCHANGED <<run, resource, launch, ender>>,
             (Archived(h) /\ UNCHANGED vault) \/ (Deleted(h) /\ UNCHANGED session)
      PROVE  Apart
  <2>1. Wane
    BY <1>2, ProvidersWane
  <2> QED BY <1>2, <2>1 DEF Apart
<1>3. ASSUME NEW r \in RunIds, NEW c \in BOOLEAN, run' = [run EXCEPT ![r].collected = c]
      PROVE  /\ run' \in [RunIds -> RunRows]
             /\ \A q \in RunIds : run'[q].st = run[q].st /\ run'[q].handle = run[q].handle
  BY <1>3 DEF RunRows
<1>4. ASSUME NEW r \in RunIds, NEW from, NEW to \in {"free", "deleting", "marking"},
             Finalizes(r, from, to), from # "free"
      PROVE  /\ ender' \in [RunIds -> EnderRows] /\ run[r].handle \in Handles
             /\ \A q \in RunIds : ender'[q] = ender[q] \/ (ender[q] # Free /\ ender'[q].pc \notin Owed)
             /\ UNCHANGED launch
  <2>1. ender[r] # Free /\ run[r].handle \in Handles
    BY <1>4 DEF Finalizes, Free, RunsFit, RunRows
  <2> QED BY <1>4, <2>1 DEF Finalizes, EnderRows, Free, Owed
<1>5. ASSUME NEW r \in RunIds,
             \/ Interrupts(r) \/ Flags(r) \/ LetsSessionGo(r) \/ LetsVaultGo(r)
             \/ MarksCollected(r) \/ EnderDies(r)
      PROVE  Apart
  <2>1. CASE Interrupts(r)
    <3>1. run[r].handle \in Handles
      BY <2>1 DEF Interrupts, RunRows
    <3> QED BY <2>1, <3>1, <1>2 DEF Interrupts
  <2>2. CASE Flags(r)
    <3>1. Wane
      BY <2>2 DEF Wane, Flags, provider
    <3> QED BY <2>2, <3>1, <1>3, <1>4 DEF Flags, Apart
  <2>3. CASE LetsSessionGo(r)
    <3>1. run[r].handle \in Handles
      BY <2>3, <1>4 DEF LetsSessionGo
    <3>2. Wane
      BY <2>3, <3>1, ProvidersWane DEF LetsSessionGo, provider
    <3> QED BY <2>3, <3>2, <1>4 DEF LetsSessionGo, Apart
  <2>4. CASE LetsVaultGo(r)
    <3>1. run[r].handle \in Handles
      BY <2>4, <1>4 DEF LetsVaultGo
    <3>2. Wane
      BY <2>4, <3>1, ProvidersWane DEF LetsVaultGo, provider
    <3> QED BY <2>4, <3>2, <1>4 DEF LetsVaultGo, Apart
  <2>5. CASE MarksCollected(r)
    <3>1. Wane
      BY <2>5 DEF Wane, MarksCollected, provider
    <3> QED BY <2>5, <3>1, <1>3, <1>4 DEF MarksCollected, Apart
  <2>6. CASE EnderDies(r)
    <3>1. Wane
      BY <2>6 DEF Wane, EnderDies, provider
    <3> QED BY <2>6, <3>1 DEF EnderDies, Apart, EnderRows, Free, Owed
  <2> QED BY <1>5, <2>1, <2>2, <2>3, <2>4, <2>5, <2>6
<1>6. ASSUME NEW w \in Sweeps,
       \/ \E o \in RunIds : DisposalLists(w, o)
       \/ \E kind \in {"run", "vault", "session"}, h \in Handles, r \in RunIds : Looks(w, kind, h, r)
       \/ DisposalArchives(w) \/ DisposalDeletes(w) \/ Protects(w) \/ Lists(w) \/ Judges(w)
       \/ CollectsVault(w) \/ CollectsSession(w) \/ MarksRun(w) \/ SweepFails(w)
      PROVE  Apart
  <2>1. CASE \/ \E o \in RunIds : DisposalLists(w, o)
             \/ \E kind \in {"run", "vault", "session"}, h \in Handles, r \in RunIds : Looks(w, kind, h, r)
             \/ Protects(w) \/ Lists(w) \/ Judges(w) \/ SweepFails(w)
    BY <2>1, <1>1 DEF DisposalLists, Looks, Protects, Lists, Judges, SweepFails
  <2>2. sweep[w].pc \notin {"free"} => sweep[w].handle \in Handles
    BY DEF SweepRows, DisposalRows, CollectRows, Free
  <2>3. CASE DisposalArchives(w) \/ DisposalDeletes(w) \/ CollectsVault(w) \/ CollectsSession(w)
    <3>1. sweep[w].handle \in Handles
      BY <2>2, <2>3 DEF DisposalArchives, DisposalDeletes, CollectsVault, CollectsSession, Sweeping
    <3> QED BY <2>3, <3>1, <1>2 DEF DisposalArchives, DisposalDeletes, CollectsVault, CollectsSession
  <2>4. CASE MarksRun(w)
    <3>1. sweep[w].of \in RunIds
      BY <2>4, SweepTells DEF MarksRun, Sweeping, CollectRows, Collecting, SweepRows, DisposalRows, Disposing, Free
    <3>2. Wane
      BY <2>4 DEF Wane, MarksRun, provider
    <3> QED BY <2>4, <3>1, <3>2, <1>3 DEF MarksRun, Apart
  <2> QED BY <1>6, <2>1, <2>3, <2>4
<1> QED BY <1>5, <1>6 DEF ApartSteps

\* A launch in a hand-over goes on with what it names; the others stay.
Hop(r, from, to) ==
  /\ launch \in [RunIds -> LaunchRows] => launch' \in [RunIds -> LaunchRows]
  /\ launch[r].pc \in from /\ launch'[r].pc = to
  /\ launch'[r].pred = launch[r].pred /\ launch'[r].handle = launch[r].handle
  /\ launch[r].pred \in RunIds /\ launch[r].handle \in Handles
  /\ \A q \in RunIds : q # r => launch'[q] = launch[q]

\* A hand-over's move keeps the row and the handle it names.
LEMMA Hops ==
  ASSUME HandoverTypes, NEW r \in RunIds, NEW to \in {"claiming"} \cup Holding \cup Past,
         launch[r].pc \in {"claiming", "releasing"} \cup Holding, Goes(r, to)
  PROVE  Hop(r, {launch[r].pc}, to)
<1>1. launch[r] \in TransferRows
  BY LaunchTells DEF HandoverTypes
<1> DEFINE x == [launch[r] EXCEPT !.pc = to]
<1>2. /\ x \in TransferRows /\ x.pc = to /\ x.pred = launch[r].pred /\ x.handle = launch[r].handle
  BY <1>1, TransferGoes
<1>3. launch' = [launch EXCEPT ![r] = x]
  BY DEF Goes, HandoverTypes
<1> HIDE DEF x
<1>4. launch'[r] = x /\ \A q \in RunIds : q # r => launch'[q] = launch[q]
  BY <1>3 DEF HandoverTypes
<1>5. launch' \in [RunIds -> LaunchRows]
  BY <1>2, <1>3 DEF HandoverTypes, LaunchRows
<1>6. launch[r].pred \in RunIds /\ launch[r].handle \in Handles
  BY <1>1 DEF TransferRows
<1> QED BY <1>2, <1>4, <1>5, <1>6 DEF Hop

\* The steps of launches, of ends and of disposals that are not apart.
LaunchSteps(r) ==
  \/ LaunchBegins(r) \/ LaunchGoesOn(r) \/ LaunchThrows(r) \/ LaunchDies(r) \/ EndsUnlaunched(r)
EndSteps(r) ==
  \/ EndsPlainly(r) \/ (\E retain \in BOOLEAN : EndsByPoll(r, retain))
  \/ Supersedes(r) \/ Retains(r)
RowSteps == 
  \/ \E o \in RunIds : Expires(o)
  \/ \E w \in Sweeps : DisposalTakes(w) \/ DisposalForgets(w)

\* Every step is of one of these kinds.
LEMMA EverySteps ==
  ASSUME [HandoverNext]_handoverVars
  PROVE  \/ UNCHANGED handoverVars \/ ApartSteps \/ RowSteps
         \/ \E r \in RunIds : LaunchSteps(r) \/ EndSteps(r)
BY DEF HandoverNext, SweepGoesOn, LaunchSteps, EndSteps, RowSteps, ApartSteps, EnderGoesOn

\* A run whose columns are replaced.
LEMMA RunEdits ==
  ASSUME run \in [RunIds -> RunRows], NEW r \in RunIds, NEW h \in Handles \cup {0}, NEW c \in BOOLEAN,
         NEW st \in {"launching", "running", "ended"},
         \/ run' = [run EXCEPT ![r].collected = c]
         \/ run' = [run EXCEPT ![r].st = st]
         \/ run' = [run EXCEPT ![r].st = st, ![r].handle = h]
  PROVE  /\ run' \in [RunIds -> RunRows]
         /\ \A q \in RunIds : q # r => run'[q] = run[q]
<1> DEFINE x == run[r]
<1>0. x \in RunRows
  OBVIOUS
<1>1. ASSUME NEW y \in RunRows, run' = [run EXCEPT ![r] = y]
      PROVE  /\ run' \in [RunIds -> RunRows]
             /\ \A q \in RunIds : q # r => run'[q] = run[q]
  BY <1>1
<1>2. CASE run' = [run EXCEPT ![r].collected = c]
  <2>1. [x EXCEPT !.collected = c] \in RunRows
    BY <1>0 DEF RunRows
  <2> QED BY <1>1, <1>2, <2>1
<1>3. CASE run' = [run EXCEPT ![r].st = st]
  <2>1. [x EXCEPT !.st = st] \in RunRows
    BY <1>0 DEF RunRows
  <2> QED BY <1>1, <1>3, <2>1
<1>4. CASE run' = [run EXCEPT ![r].st = st, ![r].handle = h]
  <2>1. [[x EXCEPT !.st = st] EXCEPT !.handle = h] \in RunRows
    BY <1>0 DEF RunRows
  <2> QED BY <1>1, <1>4, <2>1
<1> QED BY <1>2, <1>3, <1>4

\* A row whose columns are replaced.
LEMMA RowTypes ==
  ASSUME HandoverTypes, NEW o \in RunIds,
         NEW x \in ResourceRows, x.st = "none" <=> x.handle = 0,
         resource' = [resource EXCEPT ![o] = x]
  PROVE  /\ resource' \in [RunIds -> ResourceRows]
         /\ \A p \in RunIds : resource'[p].st = "none" <=> resource'[p].handle = 0
BY DEF HandoverTypes

\* What an edit of one row does to the rows.
LEMMA RowEdits ==
  ASSUME HandoverTypes, NEW o \in RunIds, resource[o].st # "none",
         NEW st \in {"available", "claimed", "disposing"}, NEW by \in RunIds \cup {0},
         NEW phase \in {"none", "preparing", "sending", "accepted"}, NEW expired \in BOOLEAN,
         \/ resource' = [resource EXCEPT ![o].st = st]
         \/ resource' = [resource EXCEPT ![o].st = st, ![o].by = by, ![o].phase = phase]
         \/ resource' = [resource EXCEPT ![o].phase = phase]
         \/ resource' = [resource EXCEPT ![o].expired = expired]
  PROVE  /\ resource' \in [RunIds -> ResourceRows]
         /\ \A p \in RunIds : resource'[p].st = "none" <=> resource'[p].handle = 0
         /\ \A p \in RunIds : resource'[p].handle = resource[p].handle
         /\ \A p \in RunIds : p # o => resource'[p] = resource[p]
<1> DEFINE x == resource[o]
<1>0. x \in ResourceRows /\ x.st # "none" /\ x.handle # 0
  BY DEF HandoverTypes
<1>1. ASSUME NEW y \in ResourceRows, y.handle = x.handle, y.st # "none",
             resource' = [resource EXCEPT ![o] = y]
      PROVE  /\ resource' \in [RunIds -> ResourceRows]
             /\ \A p \in RunIds : resource'[p].st = "none" <=> resource'[p].handle = 0
             /\ \A p \in RunIds : resource'[p].handle = resource[p].handle
             /\ \A p \in RunIds : p # o => resource'[p] = resource[p]
  BY <1>0, <1>1 DEF HandoverTypes
<1>2. CASE resource' = [resource EXCEPT ![o].st = st]
  <2>1. [x EXCEPT !.st = st] \in ResourceRows /\ [x EXCEPT !.st = st].handle = x.handle
        /\ [x EXCEPT !.st = st].st # "none"
    BY <1>0 DEF ResourceRows
  <2>2. resource' = [resource EXCEPT ![o] = [x EXCEPT !.st = st]]
    BY <1>2 DEF HandoverTypes
  <2> QED BY <1>1, <2>1, <2>2
<1>3. CASE resource' = [resource EXCEPT ![o].st = st, ![o].by = by, ![o].phase = phase]
  <2> DEFINE y == [[[x EXCEPT !.st = st] EXCEPT !.by = by] EXCEPT !.phase = phase]
  <2>1. y \in ResourceRows /\ y.handle = x.handle /\ y.st # "none"
    BY <1>0 DEF ResourceRows
  <2>2. resource' = [resource EXCEPT ![o] = y]
    BY <1>3 DEF HandoverTypes
  <2> QED BY <1>1, <2>1, <2>2
<1>4. CASE resource' = [resource EXCEPT ![o].phase = phase]
  <2>1. [x EXCEPT !.phase = phase] \in ResourceRows /\ [x EXCEPT !.phase = phase].handle = x.handle
        /\ [x EXCEPT !.phase = phase].st # "none"
    BY <1>0 DEF ResourceRows
  <2>2. resource' = [resource EXCEPT ![o] = [x EXCEPT !.phase = phase]]
    BY <1>4 DEF HandoverTypes
  <2> QED BY <1>1, <2>1, <2>2
<1>5. CASE resource' = [resource EXCEPT ![o].expired = expired]
  <2>1. [x EXCEPT !.expired = expired] \in ResourceRows /\ [x EXCEPT !.expired = expired].handle = x.handle
        /\ [x EXCEPT !.expired = expired].st # "none"
    BY <1>0 DEF ResourceRows
  <2>2. resource' = [resource EXCEPT ![o] = [x EXCEPT !.expired = expired]]
    BY <1>5 DEF HandoverTypes
  <2> QED BY <1>1, <2>1, <2>2
<1> QED BY <1>2, <1>3, <1>4, <1>5

\* Launch steps keep the types.
LEMMA LaunchTypes ==
  ASSUME HandoverTypes, RunsFit, NEW r \in RunIds, LaunchSteps(r),
         \* a hand-over holds a row
         launch[r].pc \in Holding => resource[launch[r].pred].st # "none"
  PROVE  HandoverTypes'
<1> USE DEF HandoverTypes
<1>1. CASE LaunchBegins(r)
  <2>1. run' \in [RunIds -> RunRows]
    BY <1>1 DEF LaunchBegins, RunRows
  <2>2. launch' \in [RunIds -> LaunchRows]
    BY <1>1 DEF LaunchBegins, LaunchRows, LookingRows
  <2> QED BY <1>1, <2>1, <2>2 DEF LaunchBegins, provider, Live
<1>2. CASE FindsPredecessor(r)
  <2>1. launch[r] \in LookingRows
    BY <1>2, LaunchTells DEF FindsPredecessor, At
  <2>2. launch' \in [RunIds -> LaunchRows]
    <3> DEFINE ended == EndedRuns \ {r}
    <3>1. ended # {} => Newest(ended) \in RunIds
      <4>1. ended \in SUBSET RunIds
        BY DEF EndedRuns
      <4> QED BY <4>1, NewestIsOne
    <3> QED BY <1>2, <2>1, <3>1 DEF FindsPredecessor, Fresh, LaunchRows, LookingRows, FoundRows, MakingRows
  <2> QED BY <1>2, <2>2 DEF FindsPredecessor, provider, Live
<1>3. CASE FindsResource(r)
  <2>1. launch[r] \in FoundRows
    BY <1>3, LaunchTells DEF FindsResource, At
  <2>2. launch' \in [RunIds -> LaunchRows]
    BY <1>3, <2>1 DEF FindsResource, Fresh, LaunchRows, FoundRows, MakingRows, TransferRows, ResourceRows
  <2> QED BY <1>3, <2>2 DEF FindsResource, provider, Live
<1>4. ASSUME Fresh(r), launch[r].pc # "free" PROVE launch' \in [RunIds -> LaunchRows]
  BY <1>4 DEF Fresh, LaunchRows, MakingRows
<1>5. CASE ClaimsResource(r)
  <2>1. launch' \in [RunIds -> LaunchRows]
    BY <1>4, <1>5, Hops DEF ClaimsResource, At, Hop, Holding, Untold
  <2>2. /\ resource' \in [RunIds -> ResourceRows]
        /\ \A p \in RunIds : resource'[p].st = "none" <=> resource'[p].handle = 0
    <3>1. launch[r].pred \in RunIds
      BY <1>5, LaunchTells DEF ClaimsResource, At, TransferRows
    <3> QED BY <1>5, <3>1, RowEdits DEF ClaimsResource, Claimable
  <2> QED BY <1>5, <2>1, <2>2 DEF ClaimsResource, provider, Live
<1>6. CASE RotatesKey(r)
  <2>1. launch' \in [RunIds -> LaunchRows] /\ launch[r].handle \in Handles
    BY <1>6, Hops DEF RotatesKey, At, Hop, Holding, Untold
  <2>2. vault' \in [Handles -> VaultRows]
    BY <1>6, <2>1 DEF RotatesKey, VaultRows
  <2> QED BY <1>6, <2>1, <2>2 DEF RotatesKey, Live
<1>7. CASE Retags(r)
  <2>1. launch' \in [RunIds -> LaunchRows] /\ launch[r].handle \in Handles
    BY <1>7, Hops DEF Retags, At, Hop, Holding, Untold
  <2>2. /\ session' \in [Handles -> SessionRows]
        /\ \A h \in Handles : Live(h)' => session'[h].tag # 0
    <3>1. r # 0
      BY HandoverAssumption DEF RunIds
    <3> QED BY <1>7, <2>1, <3>1 DEF Retags, SessionRows, Live
  <2> QED BY <1>7, <2>1, <2>2 DEF Retags
<1>8. ASSUME NEW phase \in {"sending", "accepted"}, launch[r].pc \in Holding, 
             Phase(launch[r].pred, phase)
      PROVE  /\ resource' \in [RunIds -> ResourceRows]
             /\ \A p \in RunIds : resource'[p].st = "none" <=> resource'[p].handle = 0
  <2>1. launch[r].pred \in RunIds
    BY <1>8, LaunchTells DEF TransferRows
  <2> QED BY <1>8, <2>1, RowEdits DEF Phase
<1>9. CASE MarksSending(r) \/ AcceptsTransfer(r)
  <2>1. launch' \in [RunIds -> LaunchRows]
    BY <1>9, Hops DEF MarksSending, AcceptsTransfer, At, Hop, Holding, Untold
  <2>2. /\ resource' \in [RunIds -> ResourceRows]
        /\ \A p \in RunIds : resource'[p].st = "none" <=> resource'[p].handle = 0
    BY <1>8, <1>9 DEF MarksSending, AcceptsTransfer, At, Holding, Untold
  <2> QED BY <1>9, <2>1, <2>2 DEF MarksSending, AcceptsTransfer, provider, Live
<1>10. CASE AbandonsTransfer(r)
  <2>1. launch' \in [RunIds -> LaunchRows] /\ launch[r].pred \in RunIds
    BY <1>4, <1>10, LaunchTells DEF AbandonsTransfer, Holding, Untold, TransferRows
  <2>2. /\ resource' \in [RunIds -> ResourceRows]
        /\ \A p \in RunIds : resource'[p].st = "none" <=> resource'[p].handle = 0
    <3>1. CASE resource' = resource
      BY <3>1
    <3>2. CASE resource' # resource
      <4>1. /\ resource[launch[r].pred].st = "claimed"
            /\ resource' = [resource EXCEPT ![launch[r].pred].st = "disposing"]
        BY <1>10, <3>2 DEF AbandonsTransfer
      <4> QED BY <2>1, <4>1, RowEdits
    <3> QED BY <3>1, <3>2
  <2> QED BY <1>10, <2>1, <2>2 DEF AbandonsTransfer, provider, Live
<1>11. ASSUME Delivered(r)
       PROVE  /\ session' \in [Handles -> SessionRows]
              /\ \A h \in Handles : Live(h)' => session'[h].tag # 0
  <2>1. launch[r].handle \in Handles
    BY <1>11, LaunchTells DEF Delivered, At, Holding
  <2> QED BY <1>11, <2>1 DEF Delivered, SessionRows, Live
<1>12. CASE Sends(r)
  <2>1. launch' \in [RunIds -> LaunchRows]
    BY <1>12, Hops DEF Sends, Delivered, At, Hop, Holding, Untold
  <2> QED BY <1>11, <1>12, <2>1 DEF Sends
<1>13. CASE DropsResource(r)
  <2>1. launch' \in [RunIds -> LaunchRows] /\ launch[r].pred \in RunIds
    BY <1>13, Hops DEF DropsResource, At, Hop, Holding, Past
  <2>2. NoRow \in ResourceRows /\ NoRow.st = "none" /\ NoRow.handle = 0
    BY DEF NoRow, ResourceRows
  <2> QED BY <1>13, <2>1, <2>2, RowTypes DEF DropsResource, provider, Live
<1>14. CASE ReleasesPredecessor(r)
  <2>1. /\ launch' \in [RunIds -> LaunchRows] /\ launch[r].pred \in RunIds
        /\ launch[r].handle \in Handles
    BY <1>14, Hops DEF ReleasesPredecessor, At, Hop, Past
  <2>2. run' \in [RunIds -> RunRows]
    <3> DEFINE p == launch[r].pred
    <3>1. p \in RunIds /\ run' = [run EXCEPT ![p].collected = TRUE]
      BY <1>14, <2>1 DEF ReleasesPredecessor
    <3>2. \E h \in Handles : TRUE
      BY <2>1
    <3> QED BY <3>1, <3>2, RunEdits
  <2> QED BY <1>14, <2>1, <2>2 DEF ReleasesPredecessor, provider, Live
<1>15. CASE MakesVault(r)
  <2>1. launch[r] \in MakingRows
    BY <1>15, LaunchTells DEF MakesVault, At
  <2>2. launch' \in [RunIds -> LaunchRows] /\ vault' \in [Handles -> VaultRows]
    BY <1>15, <2>1 DEF MakesVault, Goes, MakingRows, LaunchRows, VaultRows, Handles
  <2> QED BY <1>15, <2>2 DEF MakesVault, Live
<1>16. CASE MakesSession(r)
  <2>1. /\ launch' \in [RunIds -> LaunchRows] /\ session' \in [Handles -> SessionRows]
        /\ \A h \in Handles : Live(h)' => session'[h].tag # 0
    BY <1>16 DEF MakesSession, LaunchRows, MadeRows, SessionRows, Handles, RunIds, Live
  <2> QED BY <1>16, <2>1 DEF MakesSession
<1>17. CASE RecordsLaunch(r)
  <2>1. launch[r].handle \in Handles
    BY <1>17, LaunchTells DEF RecordsLaunch, At, Past
  <2>2. run' \in [RunIds -> RunRows] /\ launch' \in [RunIds -> LaunchRows]
    <3> DEFINE h == launch[r].handle
    <3>1. run' = IF run[r].st = "launching" THEN [run EXCEPT ![r].st = "running", ![r].handle = h]
                 ELSE run
      BY <1>17 DEF RecordsLaunch
    <3>2. launch' \in [RunIds -> LaunchRows]
      BY <1>17 DEF RecordsLaunch, LaunchRows
    <3>3. h \in Handles
      BY <2>1
    <3> HIDE DEF h
    <3>4. run' \in [RunIds -> RunRows]
      BY <3>1, <3>3, RunEdits
    <3> QED BY <3>2, <3>4
  <2> QED BY <1>17, <2>2 DEF RecordsLaunch, provider, Live
<1>18. CASE LaunchThrows(r)
  <2>1. run' \in [RunIds -> RunRows] /\ launch' \in [RunIds -> LaunchRows]
    BY <1>18 DEF LaunchThrows, RunRows, LaunchRows
  <2>2. CASE Delivered(r) /\ UNCHANGED vault
    BY <1>11, <1>18, <2>1, <2>2 DEF LaunchThrows
  <2>3. CASE UNCHANGED provider \/ (Deleted(r) /\ UNCHANGED session)
    <3>1. Wane
      BY <2>3, ProvidersWane DEF Handles
    <3> QED BY <1>18, <2>1, <3>1 DEF LaunchThrows, Wane, Live
  <2> QED BY <1>18, <2>2, <2>3 DEF LaunchThrows
<1>19. CASE LaunchDies(r)
  BY <1>19 DEF LaunchDies, LaunchRows, provider, Live
<1>20. CASE EndsUnlaunched(r)
  <2>1. run' \in [RunIds -> RunRows]
    BY <1>20 DEF EndsUnlaunched, RunRows
  <2> QED BY <1>20, <2>1 DEF EndsUnlaunched, provider, Live
<1> QED BY <1>1, <1>2, <1>3, <1>5, <1>6, <1>7, <1>9, <1>10, <1>12, <1>13, <1>14, <1>15, <1>16,
           <1>17, <1>18, <1>19, <1>20 DEF LaunchSteps, LaunchGoesOn

\* What a disposal takes it found in a row.
LEMMA EndTypes ==
  ASSUME HandoverTypes, RunsFit, NEW r \in RunIds, EndSteps(r)
  PROVE  HandoverTypes'
<1> USE DEF HandoverTypes
<1>1. CASE EndsPlainly(r) \/ \E retain \in BOOLEAN : EndsByPoll(r, retain)
  <2>1. run' \in [RunIds -> RunRows]
    BY <1>1, RunEdits DEF EndsPlainly, EndsByPoll
  <2>2. ender' \in [RunIds -> EnderRows]
    BY <1>1 DEF EndsPlainly, EndsByPoll, EnderRows, Owed
  <2> QED BY <1>1, <2>1, <2>2 DEF EndsPlainly, EndsByPoll, provider, Live
<1>2. ASSUME NEW from, NEW to \in {"retaining", "flagging"}, Finalizes(r, from, to), from # "free"
      PROVE  /\ ender' \in [RunIds -> EnderRows] /\ run[r].handle \in Handles
             /\ UNCHANGED <<launch, sweep>>
  <2>1. ender[r] # Free /\ run[r].handle \in Handles
    BY <1>2 DEF Finalizes, Free, RunsFit, RunRows
  <2> QED BY <1>2, <2>1 DEF Finalizes, EnderRows, Owed
<1>3. CASE Supersedes(r)
  <2>1. NoRow \in ResourceRows /\ NoRow.st = "none" /\ NoRow.handle = 0
    BY DEF NoRow, ResourceRows
  <2>2. /\ resource' \in [RunIds -> ResourceRows]
        /\ \A p \in RunIds : resource'[p].st = "none" <=> resource'[p].handle = 0
    BY <1>3, <2>1 DEF Supersedes
  <2> QED BY <1>2, <1>3, <2>2 DEF Supersedes, provider, Live
<1>4. CASE Retains(r)
  <2>1. run[r].handle \in Handles /\ run[r].handle # 0
    BY <1>2, <1>4, HandoverAssumption DEF Retains, Handles, RunIds
  <2> DEFINE x == [NoRow EXCEPT !.st = "available", !.handle = run[r].handle]
  <2>2. x \in ResourceRows /\ x.st = "available" /\ x.handle # 0
    BY <2>1 DEF NoRow, ResourceRows
  <2>3. resource' = [resource EXCEPT ![r] = x]
    BY <1>4 DEF Retains
  <2> HIDE DEF x
  <2>4. /\ resource' \in [RunIds -> ResourceRows]
        /\ \A p \in RunIds : resource'[p].st = "none" <=> resource'[p].handle = 0
    BY <2>2, <2>3, RowTypes
  <2> QED BY <1>2, <1>4, <2>4 DEF Retains, provider, Live
<1> QED BY <1>1, <1>3, <1>4 DEF EndSteps

\* Expiry, the taking and the forgetting of rows keep the types.
LEMMA RowStepTypes ==
  ASSUME HandoverTypes, RowSteps,
         \A w \in Sweeps : sweep[w].pc = "taking" => sweep[w].st # "none"
  PROVE  HandoverTypes'
<1> USE DEF HandoverTypes
<1>1. ASSUME NEW o \in RunIds, Expires(o)
      PROVE  HandoverTypes'
  <2>1. /\ resource' \in [RunIds -> ResourceRows]
        /\ \A p \in RunIds : resource'[p].st = "none" <=> resource'[p].handle = 0
    BY <1>1, RowEdits DEF Expires
  <2> QED BY <1>1, <2>1 DEF Expires, provider, Live
<1>2. ASSUME NEW w \in Sweeps, DisposalTakes(w)
      PROVE  HandoverTypes'
  <2>1. sweep[w] \in DisposalRows
    BY <1>2, SweepTells DEF DisposalTakes, Sweeping
  <2>2. sweep' \in [Sweeps -> SweepRows]
    <3> DEFINE x == [sweep[w] EXCEPT !.pc = "dismantling"]
    <3>1. x \in SweepRows
      BY <2>1, DisposalGoes DEF SweepRows, Disposing
    <3>2. sweep' = [sweep EXCEPT ![w] = x] \/ sweep' = [sweep EXCEPT ![w] = Free]
      BY <1>2 DEF DisposalTakes, Then, Rests
    <3> HIDE DEF x
    <3> QED BY <3>1, <3>2 DEF SweepRows
  <2>3. sweep[w].owner \in RunIds
    BY <2>1 DEF DisposalRows
  <2>4. /\ resource' \in [RunIds -> ResourceRows]
        /\ \A p \in RunIds : resource'[p].st = "none" <=> resource'[p].handle = 0
    BY <1>2, <2>3, RowEdits DEF DisposalTakes, Sweeping
  <2> QED BY <1>2, <2>2, <2>4 DEF DisposalTakes, provider, Live
<1>3. ASSUME NEW w \in Sweeps, DisposalForgets(w)
      PROVE  HandoverTypes'
  <2>1. sweep[w].owner \in RunIds
    BY <1>3, SweepTells DEF DisposalForgets, Sweeping, Disposing, DisposalRows
  <2>2. sweep' \in [Sweeps -> SweepRows]
    BY <1>3 DEF DisposalForgets, Rests, SweepRows
  <2>3. NoRow \in ResourceRows /\ NoRow.st = "none" /\ NoRow.handle = 0
    BY DEF NoRow, ResourceRows
  <2>4. /\ resource' \in [RunIds -> ResourceRows]
        /\ \A p \in RunIds : resource'[p].st = "none" <=> resource'[p].handle = 0
    BY <1>3, <2>1, <2>3, RowTypes DEF DisposalForgets
  <2> QED BY <1>3, <2>2, <2>4 DEF DisposalForgets, provider, Live
<1> QED BY <1>1, <1>2, <1>3 DEF RowSteps

\* What a sweep holds stays typed.
LEMMA SweepTypes ==
  ASSUME HandoverTypes, ApartSteps
  PROVE  sweep' \in [Sweeps -> SweepRows]
<1> USE DEF HandoverTypes
<1>1. CASE UNCHANGED sweep
  BY <1>1
<1>2. ASSUME NEW w \in Sweeps, NEW o \in RunIds, DisposalLists(w, o)
      PROVE  sweep' \in [Sweeps -> SweepRows]
  <2>1. resource[o].st \in {"available", "claimed", "disposing"} /\ resource[o].handle \in Handles
    BY <1>2 DEF DisposalLists, Disposable, ResourceRows
  <2> QED BY <1>2, <2>1 DEF DisposalLists, SweepRows, DisposalRows
<1>3. ASSUME NEW w \in Sweeps, NEW kind \in {"run", "vault", "session"}, NEW h \in Handles,
             NEW r \in RunIds, Looks(w, kind, h, r)
      PROVE  sweep' \in [Sweeps -> SweepRows]
  BY <1>3 DEF Looks, SweepRows, CollectRows, Users
<1>4. ASSUME NEW w \in Sweeps, NEW pc \in {"taking"} \cup Disposing, Then(w, pc),
             sweep[w].pc \in {"taking"} \cup Disposing
      PROVE  sweep' \in [Sweeps -> SweepRows]
  BY <1>4, SweepTells, DisposalGoes DEF Then, SweepRows
<1>5. ASSUME NEW w \in Sweeps, NEW pc \in {"protecting", "listing"} \cup Collecting, Then(w, pc),
             sweep[w].pc \in {"protecting", "listing"} \cup Collecting
      PROVE  sweep' \in [Sweeps -> SweepRows]
  BY <1>5, SweepTells, CollectGoes DEF Then, SweepRows
<1>6. ASSUME NEW w \in Sweeps, Rests(w)
      PROVE  sweep' \in [Sweeps -> SweepRows]
  BY <1>6 DEF Rests, SweepRows
<1>7. ASSUME NEW w \in Sweeps, Protects(w)
      PROVE  sweep' \in [Sweeps -> SweepRows]
  <2> DEFINE s == sweep[w]
  <2>1. s \in CollectRows
    BY <1>7, SweepTells DEF Protects, Sweeping
  <2>2. PICK read \in s.left :
          sweep' = [sweep EXCEPT
           ![w].keep = @ \/ (IF read = "rows" THEN Retained(s.handle) ELSE InUse(s.handle)),
           ![w].left = @ \ {read},
           ![w].pc = IF s.left = {read} THEN "listing" ELSE @]
    BY <1>7 DEF Protects
  <2> DEFINE keep == s.keep \/ (IF read = "rows" THEN Retained(s.handle) ELSE InUse(s.handle))
             left == s.left \ {read}
             pc == IF s.left = {read} THEN "listing" ELSE s.pc
             x == [[[s EXCEPT !.keep = keep] EXCEPT !.left = left] EXCEPT !.pc = pc]
  <2>3. keep \in BOOLEAN /\ left \in SUBSET {"rows", "runs"} /\ pc \in {"protecting", "listing"}
    <3>1. keep \in BOOLEAN
      BY <2>1 DEF CollectRows, Retained, InUse
    <3>2. left \in SUBSET {"rows", "runs"} /\ pc \in {"protecting", "listing"}
      BY <1>7, <2>1 DEF CollectRows, Protects, Sweeping
    <3> QED BY <3>1, <3>2
  <2>4. sweep' = [sweep EXCEPT ![w] = x]
    BY <2>2
  <2> HIDE DEF keep, left, pc
  <2>5. x \in CollectRows
    BY <2>1, <2>3 DEF CollectRows
  <2> QED BY <2>4, <2>5 DEF SweepRows
<1>8. ASSUME NEW w \in Sweeps, Lists(w)
      PROVE  sweep' \in [Sweeps -> SweepRows]
  <2> DEFINE s == sweep[w]
  <2>1. s \in CollectRows
    BY <1>8, SweepTells DEF Lists, Sweeping
  <2>2. CASE Rests(w)
    BY <1>6, <2>2
  <2>3. CASE ~Rests(w)
    <3> DEFINE of == IF s.kind = "session" THEN session[s.handle].tag ELSE s.of
               pc == IF s.kind = "run" THEN "deleting" ELSE "judging"
               x == [[s EXCEPT !.of = of] EXCEPT !.pc = pc]
    <3>1. s.kind = "session" => Live(s.handle)
      BY <1>8, <2>3 DEF Lists
    <3>2. of \in RunIds /\ pc \in Collecting
      BY <2>1, <3>1 DEF CollectRows, Live, SessionRows, Collecting
    <3>3. sweep' = [sweep EXCEPT ![w] = x]
      BY <1>8, <2>3 DEF Lists
    <3> HIDE DEF of, pc
    <3>4. x \in CollectRows
      BY <2>1, <3>2 DEF CollectRows
    <3> QED BY <3>3, <3>4 DEF SweepRows
  <2> QED BY <2>2, <2>3
<1>9. ASSUME NEW w \in Sweeps, DisposalArchives(w) \/ DisposalDeletes(w)
      PROVE  sweep' \in [Sweeps -> SweepRows]
  BY <1>4, <1>9 DEF DisposalArchives, DisposalDeletes, Sweeping, Disposing
<1>10. ASSUME NEW w \in Sweeps,
              Judges(w) \/ CollectsVault(w) \/ CollectsSession(w) \/ MarksRun(w) \/ SweepFails(w)
       PROVE  sweep' \in [Sweeps -> SweepRows]
  BY <1>5, <1>6, <1>10
     DEF Judges, CollectsVault, CollectsSession, MarksRun, SweepFails, Sweeping, Collecting
<1> QED BY <1>1, <1>2, <1>3, <1>7, <1>8, <1>9, <1>10
        DEF ApartSteps, Interrupts, Flags, LetsSessionGo, LetsVaultGo, MarksCollected, EnderDies,
            Finalizes

\* The steps that stand apart keep the types.
LEMMA ApartTypes ==
  ASSUME HandoverTypes, RunsFit, ApartSteps
  PROVE  HandoverTypes'
<1>1. Apart /\ sweep' \in [Sweeps -> SweepRows]
  BY StandsApart, SweepTypes
<1> QED BY <1>1 DEF Apart, Wane, HandoverTypes, Live

-----------------------------------------------------------------------------
\* What a launch step does to runs: only its own run goes on, if any.
LaunchOnRuns(r) ==
  /\ UNCHANGED ender
  /\ \A q \in RunIds : q # r => /\ run'[q].st = run[q].st /\ run'[q].handle = run[q].handle
                                /\ launch'[q] = launch[q]
  /\ \/ /\ run[r].st = "unused" /\ run'[r].st = "launching" /\ run'[r].handle = run[r].handle
        /\ launch'[r].pc = "looking"
     \/ /\ launch[r] # Free
        /\ run'[r].st = run[r].st /\ run'[r].handle = run[r].handle
     \/ /\ launch[r].pc = "recording" /\ launch'[r] = Free
        /\ run[r].st = "launching" /\ run'[r].st = "running" /\ run'[r].handle = launch[r].handle
     \/ /\ run[r].st = "launching" /\ run'[r].st = "ended" /\ run'[r].handle = run[r].handle
        /\ launch'[r] \in {launch[r], Free}

\* Each launch step does to runs what LaunchOnRuns says.
LEMMA LaunchRuns ==
  ASSUME HandoverTypes, NEW r \in RunIds, LaunchSteps(r)
  PROVE  LaunchOnRuns(r)
<1> USE DEF HandoverTypes
<1>1. CASE LaunchBegins(r)
  <2>1. /\ run'[r].st = "launching" /\ run'[r].handle = run[r].handle
        /\ \A q \in RunIds : q # r => run'[q] = run[q]
    BY <1>1 DEF LaunchBegins, RunRows
  <2>2. launch'[r].pc = "looking" /\ \A q \in RunIds : q # r => launch'[q] = launch[q]
    BY <1>1 DEF LaunchBegins
  <2> QED BY <1>1, <2>1, <2>2 DEF LaunchBegins, LaunchOnRuns
<1>2. ASSUME launch[r].pc # "free", UNCHANGED <<run, ender>>,
             \/ Fresh(r) \/ launch' = [launch EXCEPT ![r] = launch'[r]]
      PROVE  LaunchOnRuns(r)
  BY <1>2 DEF LaunchOnRuns, Free, Fresh
<1>3. CASE FindsPredecessor(r)
  <2>1. \/ Fresh(r)
        \/ launch' = [launch EXCEPT ![r] = [pc |-> "found", late |-> launch[r].late,
                                            pred |-> Newest(EndedRuns \ {r})]]
    BY <1>3 DEF FindsPredecessor
  <2> QED BY <1>3, <2>1 DEF FindsPredecessor, At, LaunchOnRuns, Free, Fresh
<1>4. CASE FindsResource(r)
  BY <1>4 DEF FindsResource, At, LaunchOnRuns, Free, Fresh
<1>5. ASSUME NEW pc, Goes(r, pc)
      PROVE  \A q \in RunIds : q # r => launch'[q] = launch[q]
  BY <1>5 DEF Goes
<1>6. CASE \/ ClaimsResource(r) \/ RotatesKey(r) \/ Retags(r) \/ MarksSending(r)
           \/ Sends(r) \/ AcceptsTransfer(r) \/ DropsResource(r) \/ MakesVault(r)
  <2>1. launch[r] # Free /\ UNCHANGED <<run, ender>>
    BY <1>6 DEF ClaimsResource, RotatesKey, Retags, MarksSending, Sends, Delivered, 
           AcceptsTransfer, DropsResource, MakesVault, At, Free
  <2>2. Fresh(r) \/ \E pc \in {"rotating", "retagging", "marking", "sending", "accepting", "dropping",
                               "releasing", "creating"} : Goes(r, pc)
    BY <1>6 DEF ClaimsResource, RotatesKey, Retags, MarksSending, Sends,
           AcceptsTransfer, DropsResource, MakesVault
  <2>3. \A q \in RunIds : q # r => launch'[q] = launch[q]
    BY <1>5, <2>2 DEF Fresh
  <2> QED BY <2>1, <2>3 DEF LaunchOnRuns
<1>7. CASE AbandonsTransfer(r)
  BY <1>7 DEF AbandonsTransfer, LaunchOnRuns, Free, Fresh
<1>8. CASE MakesSession(r)
  BY <1>8 DEF MakesSession, At, LaunchOnRuns, Free
<1>9. CASE ReleasesPredecessor(r)
  <2>1. launch[r].pred \in RunIds
    BY <1>9, LaunchTells DEF ReleasesPredecessor, At, TransferRows
  <2>2. \A q \in RunIds : run'[q].st = run[q].st /\ run'[q].handle = run[q].handle
    BY <1>9, <2>1 DEF ReleasesPredecessor, RunRows
  <2>3. \A q \in RunIds : q # r => launch'[q] = launch[q]
    BY <1>5, <1>9 DEF ReleasesPredecessor
  <2> QED BY <1>9, <2>2, <2>3 DEF ReleasesPredecessor, At, Free, LaunchOnRuns
<1>10. CASE RecordsLaunch(r)
  <2>1. launch[r] # Free /\ launch'[r] = Free /\ \A q \in RunIds : q # r => launch'[q] = launch[q]
    BY <1>10 DEF RecordsLaunch, At, Free
  <2>2. CASE run' = run
    BY <1>10, <2>1, <2>2 DEF RecordsLaunch, LaunchOnRuns
  <2>3. CASE run[r].st = "launching"
    <3>1. /\ run'[r].st = "running" /\ run'[r].handle = launch[r].handle
          /\ \A q \in RunIds : q # r => run'[q] = run[q]
      BY <1>10, <2>3 DEF RecordsLaunch, RunRows
    <3> QED BY <1>10, <2>1, <2>3, <3>1 DEF RecordsLaunch, At, LaunchOnRuns
  <2> QED BY <1>10, <2>2, <2>3 DEF RecordsLaunch
<1>11. CASE LaunchThrows(r)
  <2>1. launch[r] # Free /\ launch'[r] = Free /\ \A q \in RunIds : q # r => launch'[q] = launch[q]
    BY <1>11 DEF LaunchThrows
  <2>2. /\ run'[r].st = (IF run[r].st = "launching" THEN "ended" ELSE run[r].st)
        /\ run'[r].handle = run[r].handle
        /\ \A q \in RunIds : q # r => run'[q] = run[q]
    BY <1>11 DEF LaunchThrows, RunRows
  <2> QED BY <1>11, <2>1, <2>2 DEF LaunchThrows, LaunchOnRuns
<1>12. CASE LaunchDies(r)
  BY <1>12 DEF LaunchDies, LaunchOnRuns
<1>13. CASE EndsUnlaunched(r)
  <2>1. /\ run'[r].st = "ended" /\ run'[r].handle = run[r].handle
        /\ \A q \in RunIds : q # r => run'[q] = run[q]
    BY <1>13 DEF EndsUnlaunched, RunRows
  <2> QED BY <1>13, <2>1 DEF EndsUnlaunched, LaunchOnRuns
<1> QED BY <1>1, <1>3, <1>4, <1>6, <1>7, <1>8, <1>9, <1>10, <1>11, <1>12, <1>13
        DEF LaunchSteps, LaunchGoesOn

\* What the end of a run does to runs.
EndOnRuns(r) ==
  /\ UNCHANGED launch
  /\ \A q \in RunIds : q # r => run'[q] = run[q] /\ ender'[q] = ender[q]
  /\ run'[r].handle = run[r].handle
  /\ \/ /\ run[r].st = "running" /\ run'[r].st = "ended"
        /\ ender'[r] \in {ender[r], [pc |-> "superseding"], [pc |-> "archiving"]}
     \/ /\ run'[r] = run[r] 
        /\ \/ ender[r].pc = "superseding" /\ ender'[r].pc = "retaining"
           \/ ender[r].pc = "retaining" /\ ender'[r].pc = "flagging"

\* Each step of an end does to runs what EndOnRuns says.
LEMMA EndRuns ==
  ASSUME HandoverTypes, NEW r \in RunIds, EndSteps(r)
  PROVE  EndOnRuns(r)
<1> USE DEF HandoverTypes
<1>1. CASE EndsPlainly(r) \/ \E retain \in BOOLEAN : EndsByPoll(r, retain)
  <2>1. /\ run'[r].st = "ended" /\ run'[r].handle = run[r].handle
        /\ \A q \in RunIds : q # r => run'[q] = run[q]
    BY <1>1 DEF EndsPlainly, EndsByPoll, RunRows
  <2> QED BY <1>1, <2>1 DEF EndsPlainly, EndsByPoll, EndOnRuns
<1>2. CASE Supersedes(r) \/ Retains(r)
  BY <1>2 DEF Supersedes, Retains, Finalizes, EndOnRuns
<1> QED BY <1>1, <1>2 DEF EndSteps

\* Steps on rows alone touch no run, no handler and nothing at the provider.
LEMMA RowsOnRuns ==
  ASSUME RowSteps
  PROVE  UNCHANGED <<run, launch, ender, provider>>
BY DEF RowSteps, Expires, DisposalTakes, DisposalForgets

\* Runs, their launches and their ends stay in step.
LEMMA RunsStayFit ==
  ASSUME HandoverTypes, RunsFit, [HandoverNext]_handoverVars
  PROVE  RunsFit'
<1>1. CASE UNCHANGED handoverVars
  BY <1>1 DEF handoverVars, RunsFit
<1>2. CASE ApartSteps
  <2>1. Apart
    BY <1>2, StandsApart
  <2> QED BY <2>1 DEF Apart, RunsFit
<1>3. CASE RowSteps
  BY <1>3, RowsOnRuns DEF RunsFit
<1>4. ASSUME NEW r \in RunIds, LaunchSteps(r)
      PROVE  RunsFit'
  <2>1. LaunchOnRuns(r)
    BY <1>4, LaunchRuns
  <2>2. launch[r].pc = "recording" => launch[r].handle # 0
    BY LaunchTells, HandoverAssumption DEF HandoverTypes, Past, Handles, RunIds
  <2>3. run[r] \in RunRows
    BY DEF HandoverTypes
  <2> QED BY <2>1, <2>2, <2>3 DEF LaunchOnRuns, RunsFit, RunRows
<1>5. ASSUME NEW r \in RunIds, EndSteps(r)
      PROVE  RunsFit'
  <2>1. EndOnRuns(r)
    BY <1>5, EndRuns
  <2>2. run[r] \in RunRows
    BY DEF HandoverTypes
  <2> QED BY <2>1, <2>2 DEF EndOnRuns, RunsFit, Free
<1> QED BY <1>1, <1>2, <1>3, <1>4, <1>5, EverySteps

-----------------------------------------------------------------------------
\* What a launch step does to rows: it claims, marks or drops the row of its
\* predecessor, as its hand-over goes on.
SameName(o) == /\ resource'[o].handle = resource[o].handle
               /\ resource'[o].by = resource[o].by
Others(o) == \A p \in RunIds : p # o => resource'[p] = resource[p]

Steps == {<<"rotating", "retagging">>, <<"retagging", "marking">>, <<"marking", "sending">>,
          <<"sending", "accepting">>, <<"accepting", "dropping">>}

LeavesRows(r) ==
  /\ UNCHANGED resource
  /\ launch'[r] = launch[r] \/ launch'[r].pc \in {"looking", "found", "fresh", "creating", "free"}
FindsRow(r) ==
  /\ UNCHANGED resource
  /\ launch[r].pc = "found" /\ launch'[r].pc = "claiming" /\ launch'[r].pred \in RunIds
  /\ resource[launch'[r].pred].st = "available"
  /\ launch'[r].handle = resource[launch'[r].pred].handle
ClaimsRow(r) ==
  LET o == launch[r].pred IN
  /\ Hop(r, {"claiming"}, "rotating") /\ Others(o)
  /\ resource[o].st = "available" /\ resource'[o].st = "claimed"
  /\ resource'[o].handle = resource[o].handle
  /\ resource'[o].by = r /\ resource'[o].phase = "preparing"
HoldsRow(r) ==
  LET o == launch[r].pred IN
  \E step \in Steps :
    /\ Hop(r, {step[1]}, step[2]) /\ Others(o) /\ SameName(o) /\ resource'[o].st = resource[o].st
    /\ \/ resource'[o].phase = resource[o].phase
       \/ step[2] = "sending" /\ resource'[o].phase = "sending"
       \/ step[2] = "dropping"
MarksRow(r) ==
  LET o == launch[r].pred IN
  /\ launch[r].pc \in Untold /\ launch'[r].pc = "fresh" /\ Others(o) /\ SameName(o)
  /\ o \in RunIds /\ resource[o].st = "claimed" /\ resource'[o].st = "disposing"
  /\ resource'[o].phase = resource[o].phase
DropsRow(r) ==
  /\ Hop(r, {"dropping"}, "releasing") /\ Others(launch[r].pred)
  /\ resource'[launch[r].pred] = NoRow
GoesPast(r) ==
  /\ UNCHANGED resource
  /\ \/ Hop(r, {"releasing"}, "recording")
     \/ launch[r].pc = "creating" /\ MakesSession(r)

LaunchOnRows(r) ==
  \/ LeavesRows(r) \/ FindsRow(r) \/ ClaimsRow(r) \/ HoldsRow(r) \/ MarksRow(r) \/ DropsRow(r)
  \/ GoesPast(r)

\* Each launch step does to rows what LaunchOnRows says.
LEMMA LaunchRowsMove ==
  ASSUME HandoverTypes, NEW r \in RunIds, LaunchSteps(r),
         launch[r].pc \in Holding => resource[launch[r].pred].st # "none"
  PROVE  LaunchOnRows(r)
<1> USE DEF HandoverTypes
<1>1. ASSUME Fresh(r), UNCHANGED resource
      PROVE  LeavesRows(r)
  BY <1>1 DEF Fresh, LeavesRows
<1>2. CASE \/ LaunchBegins(r) \/ RecordsLaunch(r) \/ LaunchThrows(r) \/ LaunchDies(r)
           \/ EndsUnlaunched(r)
  BY <1>2 DEF LaunchBegins, RecordsLaunch, LaunchThrows, LaunchDies, EndsUnlaunched,
              LeavesRows, LaunchOnRows, Free
<1>3. CASE FindsPredecessor(r)
  BY <1>1, <1>3 DEF FindsPredecessor, LeavesRows, LaunchOnRows
<1>4. CASE FindsResource(r)
  <2>1. launch[r].pred \in RunIds
    BY <1>4, LaunchTells DEF FindsResource, At, FoundRows
  <2>2. CASE Fresh(r)
    BY <1>1, <1>4, <2>2 DEF FindsResource, LaunchOnRows
  <2>3. CASE ~Fresh(r)
    BY <1>4, <2>1, <2>3 DEF FindsResource, At, FindsRow, LaunchOnRows
  <2> QED BY <2>2, <2>3
<1>5. CASE ClaimsResource(r)
  <2>1. CASE Claimable(launch[r].pred)
    <3>1. Hop(r, {"claiming"}, "rotating")
      BY <1>5, <2>1, Hops DEF ClaimsResource, At, Holding, Untold
    <3> DEFINE o == launch[r].pred
    <3>2. o \in RunIds
      BY <3>1 DEF Hop
    <3>3. resource' = [resource EXCEPT ![o].st = "claimed", ![o].by = r, ![o].phase = "preparing"]
      BY <1>5, <2>1 DEF ClaimsResource
    <3> HIDE DEF o
    <3>4. /\ resource'[o].st = "claimed" /\ resource'[o].handle = resource[o].handle
          /\ resource'[o].by = r /\ resource'[o].phase = "preparing"
          /\ \A p \in RunIds : p # o => resource'[p] = resource[p]
      BY <3>2, <3>3 DEF ResourceRows
    <3> QED BY <2>1, <3>1, <3>4 DEF Claimable, ClaimsRow, Others, LaunchOnRows, o
  <2>2. CASE ~Claimable(launch[r].pred)
    BY <1>1, <1>5, <2>2 DEF ClaimsResource, LaunchOnRows
  <2> QED BY <2>1, <2>2
<1>6. CASE RotatesKey(r) \/ Retags(r) \/ Sends(r)
  <2>1. PICK step \in Steps : Hop(r, {step[1]}, step[2]) /\ UNCHANGED resource
    <3>1. CASE RotatesKey(r)
      <4>1. Hop(r, {"rotating"}, "retagging")
        BY <3>1, Hops DEF RotatesKey, At, Holding, Untold
      <4> QED BY <3>1, <4>1 DEF RotatesKey, Steps
    <3>2. CASE Retags(r)
      <4>1. Hop(r, {"retagging"}, "marking")
        BY <3>2, Hops DEF Retags, At, Holding, Untold
      <4> QED BY <3>2, <4>1 DEF Retags, Steps
    <3>3. CASE Sends(r)
      <4>1. Hop(r, {"sending"}, "accepting")
        BY <3>3, Hops DEF Sends, Delivered, At, Holding
      <4> QED BY <3>3, <4>1 DEF Sends, Steps
    <3> QED BY <1>6, <3>1, <3>2, <3>3
  <2> QED BY <2>1 DEF HoldsRow, LaunchOnRows, Others, SameName
<1>7. CASE MarksSending(r) \/ AcceptsTransfer(r)
  <2>1. PICK step \in Steps :
          /\ Hop(r, {step[1]}, step[2])
          /\ \/ step[2] = "sending" /\ Phase(launch[r].pred, "sending")
             \/ step[2] = "dropping" /\ Phase(launch[r].pred, "accepted")
    <3>1. CASE MarksSending(r)
      <4>1. Hop(r, {"marking"}, "sending") /\ Phase(launch[r].pred, "sending")
        BY <3>1, Hops DEF MarksSending, At, Holding, Untold
      <4> QED BY <4>1 DEF Steps
    <3>2. CASE AcceptsTransfer(r)
      <4>1. Hop(r, {"accepting"}, "dropping") /\ Phase(launch[r].pred, "accepted")
        BY <3>2, Hops DEF AcceptsTransfer, At, Holding
      <4> QED BY <4>1 DEF Steps
    <3> QED BY <1>7, <3>1, <3>2
  <2> DEFINE o == launch[r].pred
  <2>2. o \in RunIds
    BY <2>1 DEF Hop
  <2>3. PICK phase \in {"sending", "accepted"} :
          /\ resource' = [resource EXCEPT ![o].phase = phase]
          /\ step[2] = "sending" => phase = "sending"
    BY <1>7, <2>1 DEF MarksSending, AcceptsTransfer, Phase, At, Holding, Untold
  <2> HIDE DEF o
  <2>4. /\ Others(o) /\ SameName(o) /\ resource'[o].st = resource[o].st
        /\ resource'[o].phase = phase
    BY <2>2, <2>3 DEF Others, SameName, ResourceRows
  <2> QED BY <2>1, <2>3, <2>4 DEF HoldsRow, LaunchOnRows, o
<1>8. CASE AbandonsTransfer(r)
  <2>1. CASE resource' = resource
    BY <1>1, <1>8, <2>1 DEF AbandonsTransfer, LaunchOnRows
  <2>2. CASE resource' # resource
    <3> DEFINE o == launch[r].pred
    <3>1. /\ resource[o].st = "claimed" /\ resource' = [resource EXCEPT ![o].st = "disposing"]
          /\ launch[r].pc \in Untold /\ launch'[r].pc = "fresh"
      BY <1>8, <2>2 DEF AbandonsTransfer, Fresh, Untold
    <3>2. o \in RunIds
      BY <3>1, LaunchTells DEF Holding, TransferRows
    <3> HIDE DEF o
    <3>3. /\ Others(o) /\ SameName(o) /\ resource'[o].st = "disposing"
          /\ resource'[o].phase = resource[o].phase
      BY <3>1, <3>2 DEF Others, SameName, ResourceRows
    <3> QED BY <3>1, <3>2, <3>3 DEF MarksRow, LaunchOnRows, o
  <2> QED BY <2>1, <2>2
<1>9. CASE DropsResource(r)
  <2>1. Hop(r, {"dropping"}, "releasing")
    BY <1>9, Hops DEF DropsResource, At, Holding, Past
  <2> QED BY <1>9, <2>1 DEF DropsResource, Hop, DropsRow, Others, LaunchOnRows
<1>10. CASE ReleasesPredecessor(r)
  <2>1. Hop(r, {"releasing"}, "recording")
    BY <1>10, Hops DEF ReleasesPredecessor, At, Past
  <2> QED BY <1>10, <2>1 DEF ReleasesPredecessor, GoesPast, LaunchOnRows
<1>11. CASE MakesVault(r)
  <2>1. launch[r] \in MakingRows
    BY <1>11, LaunchTells DEF MakesVault, At
  <2> QED BY <1>11, <2>1 DEF MakesVault, Goes, MakingRows, LeavesRows, LaunchOnRows
<1>12. CASE MakesSession(r)
  BY <1>12 DEF MakesSession, At, GoesPast, LaunchOnRows
<1> QED BY <1>2, <1>3, <1>4, <1>5, <1>6, <1>7, <1>8, <1>9, <1>10, <1>11, <1>12
        DEF LaunchSteps, LaunchGoesOn

\* The row by which a run's end keeps a handle.
KeptRow(h) == [NoRow EXCEPT !.st = "available", !.handle = h]

\* The fields of a kept row.
LEMMA KeptIs ==
  ASSUME NEW h
  PROVE  /\ KeptRow(h).st = "available" /\ KeptRow(h).handle = h /\ KeptRow(h).by = 0
         /\ KeptRow(h).phase = "none"
BY DEF KeptRow, NoRow

\* What the other steps do to rows.
EndOnRows(r) ==
  \/ /\ UNCHANGED resource /\ run[r].st = "running"
  \/ /\ ender[r].pc = "superseding" /\ ender'[r].pc = "retaining"
     /\ \A p \in RunIds : \/ resource'[p] = resource[p]
                          \/ resource[p].handle = run[r].handle /\ resource'[p] = NoRow
  \/ /\ ender[r].pc = "retaining" /\ ender'[r].pc = "flagging" /\ Others(r)
     /\ resource'[r] = KeptRow(run[r].handle)

\* Each step of an end does to rows what EndOnRows says.
LEMMA EndRowsMove ==
  ASSUME HandoverTypes, NEW r \in RunIds, EndSteps(r)
  PROVE  EndOnRows(r)
<1> USE DEF HandoverTypes
<1>1. CASE EndsPlainly(r) \/ \E retain \in BOOLEAN : EndsByPoll(r, retain)
  BY <1>1 DEF EndsPlainly, EndsByPoll, EndOnRows
<1>2. CASE Supersedes(r)
  BY <1>2 DEF Supersedes, Finalizes, EndOnRows
<1>3. CASE Retains(r)
  BY <1>3 DEF Retains, Finalizes, EndOnRows, Others, KeptRow
<1> QED BY <1>1, <1>2, <1>3 DEF EndSteps

ExpiresRow(o) ==
  /\ UNCHANGED sweep
  /\ Others(o) /\ SameName(o) /\ resource'[o].st = resource[o].st
  /\ resource'[o].phase = resource[o].phase
TakesRow(w) ==
  LET o == sweep[w].owner IN
  /\ sweep[w].pc = "taking" /\ \A v \in Sweeps : v # w => sweep'[v] = sweep[v]
  /\ \/ /\ resource[o].st = sweep[w].st /\ Others(o) /\ SameName(o)
        /\ resource'[o].st = "disposing" /\ resource'[o].phase = resource[o].phase
        /\ sweep'[w].pc = "dismantling" /\ sweep'[w].owner = o
        /\ sweep'[w].handle = sweep[w].handle
     \/ UNCHANGED resource /\ sweep'[w] = Free
ForgetsRow(w) ==
  /\ sweep[w].pc = "forgetting" /\ sweep'[w] = Free
  /\ \A v \in Sweeps : v # w => sweep'[v] = sweep[v]
  /\ Others(sweep[w].owner) /\ resource'[sweep[w].owner] = NoRow

\* A disposal takes the row it listed, or forgets the row it took.
LEMMA DisposalTells ==
  ASSUME HandoverTypes, NEW w \in Sweeps, DisposalTakes(w) \/ DisposalForgets(w)
  PROVE  sweep[w].owner \in RunIds /\ (TakesRow(w) \/ ForgetsRow(w))
<1> USE DEF HandoverTypes
<1>2. CASE DisposalTakes(w)
  <2>1. sweep[w] \in DisposalRows
    BY <1>2, SweepTells DEF DisposalTakes, Sweeping
  <2> DEFINE o == sweep[w].owner
  <2>2. o \in RunIds
    BY <2>1 DEF DisposalRows
  <2>3. CASE resource[o].st = sweep[w].st
    <3>1. resource' = [resource EXCEPT ![o].st = "disposing"] /\ Then(w, "dismantling")
      BY <1>2, <2>3 DEF DisposalTakes
    <3>2. /\ sweep'[w].pc = "dismantling" /\ sweep'[w].owner = o
          /\ sweep'[w].handle = sweep[w].handle
          /\ \A v \in Sweeps : v # w => sweep'[v] = sweep[v]
      BY <2>1, <3>1, DisposalGoes DEF Then, Disposing
    <3> HIDE DEF o
    <3>3. Others(o) /\ SameName(o) /\ resource'[o].st = "disposing"
          /\ resource'[o].phase = resource[o].phase
      BY <2>2, <3>1 DEF Others, SameName, ResourceRows
    <3> QED BY <1>2, <2>2, <2>3, <3>2, <3>3 DEF TakesRow, o, DisposalTakes, Sweeping
  <2>4. CASE resource[o].st # sweep[w].st
    BY <1>2, <2>2, <2>4 DEF DisposalTakes, Sweeping, TakesRow, Rests
  <2> QED BY <2>3, <2>4
<1>3. CASE DisposalForgets(w)
  <2>1. sweep[w].owner \in RunIds
    BY <1>3, SweepTells DEF DisposalForgets, Sweeping, Disposing, DisposalRows
  <2> QED BY <1>3, <2>1 DEF DisposalForgets, Sweeping, Rests, ForgetsRow, Others
<1> QED BY <1>2, <1>3

\* A step on rows alone expires one, takes one or forgets one.
LEMMA RowsMove ==
  ASSUME HandoverTypes, RowSteps
  PROVE  \/ \E o \in RunIds : ExpiresRow(o)
         \/ \E w \in Sweeps : sweep[w].owner \in RunIds /\ (TakesRow(w) \/ ForgetsRow(w))
<1>1. ASSUME NEW o \in RunIds, Expires(o)
      PROVE  ExpiresRow(o)
  BY <1>1 DEF HandoverTypes, Expires, ExpiresRow, Others, SameName, ResourceRows
<1>2. ASSUME NEW w \in Sweeps, DisposalTakes(w) \/ DisposalForgets(w)
      PROVE  sweep[w].owner \in RunIds /\ (TakesRow(w) \/ ForgetsRow(w))
  BY <1>2, DisposalTells
<1> QED BY <1>1, <1>2 DEF RowSteps

-----------------------------------------------------------------------------
(* The invariant *)

\* The run's end has left its row, if it leaves one: no row of it comes again.
Made(o) == run[o].st = "ended" /\ ender[o].pc \notin Owed

RowsFit ==
  \A o \in RunIds :
    /\ resource[o].st = "claimed" => resource[o].by # 0
    /\ resource[o].st = "available" => resource[o].by = 0
    /\ resource[o].st # "none" => Made(o)
    /\ resource[o].by # 0 => run[resource[o].by].st # "unused"

\* A hand-over holds the row it claimed, from the claim until it drops it.
TransfersFit ==
  \A r \in RunIds :
    /\ launch[r].pc = "claiming" =>
         /\ Made(launch[r].pred)
         /\ resource[launch[r].pred].handle \in {0, launch[r].handle}
    /\ launch[r].pc \in Holding =>
         /\ resource[launch[r].pred].st = "claimed" /\ resource[launch[r].pred].by = r
         /\ resource[launch[r].pred].handle = launch[r].handle
         /\ launch[r].pc \in Untold => resource[launch[r].pred].phase = "preparing"

\* Who has a say over a handle: the run recorded on it, the end that will keep
\* it, the row that keeps it, the launch that made it or took it over.
Owns(k, r, h) ==
  \/ k = "run" /\ run[r].st = "running" /\ run[r].handle = h
  \/ k = "end" /\ ender[r].pc \in Owed /\ run[r].handle = h
  \/ k = "row" /\ resource[r].handle = h
  \/ k = "launch" /\ launch[r].pc \in Past /\ launch[r].handle = h

Kinds == {"run", "end", "row", "launch"}

OneOwner ==
  \A h \in Handles, k, l \in Kinds, q, r \in RunIds :
    (Owns(k, q, h) /\ Owns(l, r, h)) => (k = l /\ q = r)

OwnedExist ==
  \A h \in Handles, k \in Kinds, r \in RunIds : Owns(k, r, h) => session[h].st # "none"

\* Where the vault named after a run comes from.
MadeVault(r) ==
  \/ run[r].handle = r
  \/ launch[r].pc = "creating"
  \/ launch[r].pc = "recording" /\ launch[r].handle = r
  \/ launch[r] = Free /\ run[r].st \in {"launching", "ended"} /\ run[r].handle = 0

BirthsFit ==
  \A r \in RunIds :
    /\ vault[r].st # "none" => MadeVault(r)
    /\ launch[r].pc = "creating" => vault[r].st # "none"
    /\ session[r].st # "none" => vault[r].st # "none" /\ launch[r].pc # "creating"

KeysFit ==
  \A r \in RunIds :
    launch[r].pc \in {"retagging", "marking", "sending"} => vault[launch[r].handle].key = r

DisposalsFit ==
  \A w \in Sweeps :
    /\ sweep[w].pc \in {"taking"} \cup Disposing =>
         /\ Made(sweep[w].owner)
         /\ resource[sweep[w].owner].handle \in {0, sweep[w].handle}
         /\ session[sweep[w].handle].st # "none"
    /\ (sweep[w].pc = "taking" /\ sweep[w].st = "claimed") =>
         resource[sweep[w].owner].st # "available"
    /\ (sweep[w].pc = "taking" /\ sweep[w].st = "claimed"
          /\ resource[sweep[w].owner].st = "claimed") =>
         launch[resource[sweep[w].owner].by] = Free
    /\ sweep[w].pc \in Disposing =>
         /\ resource[sweep[w].owner].st \in {"disposing", "none"}
         /\ \A k \in Kinds, r \in RunIds :
              Owns(k, r, sweep[w].handle) => (k = "row" /\ r = sweep[w].owner)
    /\ sweep[w].pc \in {"emptying", "forgetting"} => ~Live(sweep[w].handle)

\* The run a live session is tagged with uses it, or is over, or is on its way
\* to it, or has left a row that some disposal takes.
TagHeld(h, t) ==
  \/ run[t].st = "ended"
  \/ run[t].handle = h
  \/ launch[t].pc \in Past /\ launch[t].handle = h
  \/ launch[t] = Free /\ run[t].st = "launching"
  \/ \E o \in RunIds : /\ resource[o].handle = h /\ resource[o].by = t
                       /\ resource[o].st \in {"claimed", "disposing"}
                       /\ \/ resource[o].phase # "accepted"
                          \/ launch[t].pc = "dropping" /\ launch[t].pred = o

TagsFit == \A h \in Handles : Live(h) => TagHeld(h, session[h].tag)

HandInv == /\ HandoverTypes /\ RunsFit /\ RowsFit /\ TransfersFit /\ OneOwner /\ OwnedExist
           /\ BirthsFit /\ KeysFit /\ DisposalsFit /\ TagsFit

\* Every step keeps the types.
LEMMA NextTypes ==
  ASSUME HandInv, [HandoverNext]_handoverVars
  PROVE  HandoverTypes'
<1> USE DEF HandInv
<1>1. ASSUME NEW r \in RunIds
      PROVE  launch[r].pc \in Holding => resource[launch[r].pred].st # "none"
  BY DEF TransfersFit
<1>2. \A w \in Sweeps : sweep[w].pc = "taking" => sweep[w].st # "none"
  BY SweepTells DEF HandoverTypes, DisposalRows
<1>3. CASE UNCHANGED handoverVars
  BY <1>3 DEF handoverVars, HandoverTypes, provider, Live
<1> QED BY <1>1, <1>2, <1>3, EverySteps, LaunchTypes, EndTypes, RowStepTypes, ApartTypes

\* Runs only go forwards: what has ended, been recorded or left its row stays so.
LEMMA MadeStays ==
  ASSUME HandInv, [HandoverNext]_handoverVars, NEW o \in RunIds
  PROVE  /\ Made(o) => Made(o)'
         /\ run[o].st # "unused" => run'[o].st # "unused"
         /\ run[o].st = "ended" => run'[o].st = "ended"
         /\ run[o].handle # 0 => run'[o].handle = run[o].handle
<1> USE DEF HandInv
<1>1. CASE UNCHANGED handoverVars
  BY <1>1 DEF handoverVars, Made
<1>2. CASE ApartSteps
  BY <1>2, StandsApart DEF Apart, Made
<1>3. CASE RowSteps
  BY <1>3, RowsOnRuns DEF Made
<1>4. ASSUME NEW r \in RunIds, LaunchSteps(r)
      PROVE  /\ Made(o) => Made(o)'
             /\ run[o].st # "unused" => run'[o].st # "unused"
             /\ run[o].st = "ended" => run'[o].st = "ended"
             /\ run[o].handle # 0 => run'[o].handle = run[o].handle
  BY <1>4, LaunchRuns DEF LaunchOnRuns, Made, RunsFit
<1>5. ASSUME NEW r \in RunIds, EndSteps(r)
      PROVE  /\ Made(o) => Made(o)'
             /\ run[o].st # "unused" => run'[o].st # "unused"
             /\ run[o].st = "ended" => run'[o].st = "ended"
             /\ run[o].handle # 0 => run'[o].handle = run[o].handle
  BY <1>5, EndRuns DEF EndOnRuns, Made, Owed
<1> QED BY <1>1, <1>2, <1>3, <1>4, <1>5, EverySteps

\* A hand-over never marks or drops a row that is gone.
LEMMA HoldingHasRow ==
  ASSUME HandInv, NEW r \in RunIds
  PROVE  launch[r].pc \in Holding => resource[launch[r].pred].st # "none"
BY DEF HandInv, TransfersFit

\* Rows stay in step with the runs that left and claimed them.
LEMMA RowsStayFit ==
  ASSUME HandInv, [HandoverNext]_handoverVars
  PROVE  RowsFit'
<1> SUFFICES ASSUME NEW o \in RunIds
             PROVE  /\ resource'[o].st = "claimed" => resource'[o].by # 0
                    /\ resource'[o].st = "available" => resource'[o].by = 0
                    /\ resource'[o].st # "none" => Made(o)'
                    /\ resource'[o].by # 0 => run'[resource'[o].by].st # "unused"
  BY DEF RowsFit
<1>0. /\ HandoverTypes /\ RowsFit /\ RunsFit
      /\ resource[o] \in ResourceRows
  BY DEF HandInv, HandoverTypes
<1>n. NoRow.st = "none" /\ NoRow.by = 0
  BY DEF NoRow
<1> DEFINE Fit == /\ resource'[o].st = "claimed" => resource'[o].by # 0
                  /\ resource'[o].st = "available" => resource'[o].by = 0
                  /\ resource'[o].st # "none" => resource[o].st # "none"
                  /\ resource'[o].by \in {resource[o].by, 0}
<1>1. ASSUME Fit
      PROVE  /\ resource'[o].st # "none" => Made(o)'
             /\ resource'[o].by # 0 => run'[resource'[o].by].st # "unused"
  <2>1. resource[o].by # 0 => resource[o].by \in RunIds
    BY <1>0 DEF ResourceRows
  <2> QED BY <1>0, <1>1, <2>1, MadeStays DEF RowsFit
<1>2. CASE UNCHANGED resource
  BY <1>0, <1>1, <1>2 DEF RowsFit
<1>3. ASSUME NEW r \in RunIds, LaunchSteps(r)
      PROVE  \/ Fit
             \/ UNCHANGED resource
             \/ ClaimsRow(r) /\ o = launch[r].pred /\ run'[r].st # "unused"
  <2>1. LaunchOnRows(r) /\ LaunchOnRuns(r)
    BY <1>0, <1>3, HoldingHasRow, LaunchRowsMove, LaunchRuns
  <2>2. CASE LeavesRows(r) \/ FindsRow(r) \/ GoesPast(r)
    BY <2>2 DEF LeavesRows, FindsRow, GoesPast
  <2>3. CASE ClaimsRow(r)
    <3>1. launch[r] # Free
      BY <2>3 DEF ClaimsRow, Hop, Free
    <3>2. run[r].st # "unused"
      BY <1>0, <3>1 DEF RunsFit
    <3>3. run'[r].st # "unused"
      BY <3>2, MadeStays
    <3> QED BY <1>0, <2>3, <3>3 DEF ClaimsRow, Others, RowsFit
  <2>4. CASE HoldsRow(r)
    BY <1>0, <2>4 DEF HoldsRow, Others, SameName, RowsFit
  <2>5. CASE MarksRow(r)
    BY <1>0, <2>5 DEF MarksRow, Others, SameName, RowsFit
  <2>6. CASE DropsRow(r)
    BY <1>0, <1>n, <2>6 DEF DropsRow, Others, RowsFit
  <2> QED BY <2>1, <2>2, <2>3, <2>4, <2>5, <2>6 DEF LaunchOnRows
<1>4. ASSUME NEW r \in RunIds, LaunchSteps(r)
      PROVE  /\ resource'[o].st = "claimed" => resource'[o].by # 0
             /\ resource'[o].st = "available" => resource'[o].by = 0
             /\ resource'[o].st # "none" => Made(o)'
             /\ resource'[o].by # 0 => run'[resource'[o].by].st # "unused"
  <2>1. CASE ClaimsRow(r) /\ o = launch[r].pred /\ run'[r].st # "unused"
    <3>1. Made(o)' /\ r # 0
      BY <1>0, <2>1, MadeStays, HandoverAssumption DEF ClaimsRow, RowsFit, RunIds
    <3> QED BY <2>1, <3>1 DEF ClaimsRow
  <2> QED BY <1>1, <1>2, <1>3, <1>4, <2>1
<1>5. ASSUME NEW r \in RunIds, EndSteps(r)
      PROVE  /\ resource'[o].st = "claimed" => resource'[o].by # 0
             /\ resource'[o].st = "available" => resource'[o].by = 0
             /\ resource'[o].st # "none" => Made(o)'
             /\ resource'[o].by # 0 => run'[resource'[o].by].st # "unused"
  <2>1. EndOnRows(r) /\ EndOnRuns(r)
    BY <1>0, <1>5, EndRowsMove, EndRuns
  <2>2. CASE ender[r].pc = "superseding" /\ ender'[r].pc = "retaining"
    BY <1>0, <1>1, <1>2, <1>n, <2>1, <2>2 DEF EndOnRows, RowsFit
  <2>3. CASE ender[r].pc = "retaining" /\ ender'[r].pc = "flagging"
    <3>1. CASE o = r
      <4>1. resource'[o].st = "available" /\ resource'[o].by = 0
        <5>1. resource'[r] = KeptRow(run[r].handle)
          BY <1>0, <2>1, <2>3 DEF EndOnRows, RunsFit, Free
        <5> QED BY <3>1, <5>1, KeptIs
      <4>2. Made(o)'
        BY <1>0, <2>1, <2>3, <3>1 DEF EndOnRuns, Made, Owed, RunsFit, Free
      <4> QED BY <4>1, <4>2
    <3>2. CASE o # r
      BY <1>0, <1>1, <1>2, <2>1, <2>3, <3>2 DEF EndOnRows, Others, RowsFit
    <3> QED BY <3>1, <3>2
  <2> QED BY <1>2, <2>1, <2>2, <2>3 DEF EndOnRows
<1>6. ASSUME RowSteps
      PROVE  Fit
  <2>1. ASSUME NEW p \in RunIds, ExpiresRow(p)
        PROVE  Fit
    BY <1>0, <2>1 DEF ExpiresRow, Others, SameName, RowsFit
  <2>2. ASSUME NEW w \in Sweeps, sweep[w].owner \in RunIds, TakesRow(w)
        PROVE  Fit
    <3>1. sweep[w] \in DisposalRows
      BY <1>0, <2>2, SweepTells DEF TakesRow, HandoverTypes
    <3> QED BY <1>0, <2>2, <3>1 DEF TakesRow, Others, SameName, RowsFit, DisposalRows
  <2>3. ASSUME NEW w \in Sweeps, sweep[w].owner \in RunIds, ForgetsRow(w)
        PROVE  Fit
    BY <1>0, <1>n, <2>3 DEF ForgetsRow, Others, RowsFit
  <2> QED BY <1>0, <1>6, <2>1, <2>2, <2>3, RowsMove
<1>7. CASE ApartSteps
  BY <1>0, <1>2, <1>7, StandsApart DEF Apart
<1>8. CASE UNCHANGED handoverVars
  BY <1>2, <1>8 DEF handoverVars
<1> QED BY <1>1, <1>4, <1>5, <1>6, <1>7, <1>8, EverySteps

\* A row that goes, or comes, under a launch that names it.
LEMMA TransfersStayFit ==
  ASSUME HandInv, [HandoverNext]_handoverVars
  PROVE  TransfersFit'
<1> DEFINE Claiming(q) == /\ Made(launch[q].pred)
                          /\ resource[launch[q].pred].handle \in {0, launch[q].handle}
           Held(q) == /\ resource[launch[q].pred].st = "claimed" /\ resource[launch[q].pred].by = q
                      /\ resource[launch[q].pred].handle = launch[q].handle
                      /\ launch[q].pc \in Untold => resource[launch[q].pred].phase = "preparing"
<1>0. /\ HandoverTypes /\ RowsFit /\ RunsFit /\ TransfersFit
      /\ NoRow.handle = 0
      /\ \A o \in RunIds : resource[o].st = "none" <=> resource[o].handle = 0
  BY DEF HandInv, NoRow, HandoverTypes
<1> USE DEF Made
<1>m. \A o \in RunIds : (run[o].st = "ended" /\ ender[o].pc \notin Owed) =>
                          (run'[o].st = "ended" /\ ender'[o].pc \notin Owed)
  BY MadeStays
<1>a. ASSUME NEW q \in RunIds
      PROVE  /\ launch[q].pc = "claiming" => Claiming(q) /\ launch[q].pred \in RunIds
             /\ launch[q].pc \in Holding => Held(q) /\ launch[q].pred \in RunIds
             /\ launch[q].pc \in Holding => launch[q].handle \in Handles
  <2>1. launch[q].pc \in {"claiming"} \cup Holding => launch[q].pred \in RunIds /\ launch[q].handle \in Handles
    BY <1>0, LaunchTells DEF HandoverTypes, TransferRows
  <2> QED BY <1>0, <2>1 DEF TransfersFit
\* A launch that stays keeps what it has, if the step leaves its row alone.
<1>1. ASSUME NEW q \in RunIds, launch'[q] = launch[q],
             launch[q].pc = "claiming" =>
               resource'[launch[q].pred].handle \in {0, resource[launch[q].pred].handle},
             launch[q].pc \in Holding =>
               /\ resource'[launch[q].pred].st = resource[launch[q].pred].st
               /\ SameName(launch[q].pred)
               /\ resource'[launch[q].pred].phase = resource[launch[q].pred].phase
      PROVE  /\ launch'[q].pc = "claiming" => Claiming(q)'
             /\ launch'[q].pc \in Holding => Held(q)'
  BY <1>1, <1>a, <1>m DEF SameName
<1>2. ASSUME NEW q \in RunIds, launch'[q] = launch[q], UNCHANGED resource
      PROVE  /\ launch'[q].pc = "claiming" => Claiming(q)'
             /\ launch'[q].pc \in Holding => Held(q)'
  BY <1>1, <1>2 DEF SameName
<1>3. ASSUME NEW r \in RunIds, LaunchSteps(r), NEW q \in RunIds
      PROVE  /\ launch'[q].pc = "claiming" => Claiming(q)'
             /\ launch'[q].pc \in Holding => Held(q)'
  <2>1. LaunchOnRows(r) /\ LaunchOnRuns(r)
    BY <1>0, <1>3, HoldingHasRow, LaunchRowsMove, LaunchRuns
  <2>2. q # r => launch'[q] = launch[q]
    BY <2>1 DEF LaunchOnRuns
  \* The row of another launch is not the one this step writes.
  <2>3. ASSUME q # r, launch[r].pc \in Holding \/ ClaimsRow(r)
        PROVE  launch[q].pc \in Holding => launch[q].pred # launch[r].pred
    BY <1>a, <2>3 DEF ClaimsRow
  <2>4. CASE LeavesRows(r)
    BY <1>2, <2>2, <2>4 DEF LeavesRows, Holding, Untold
  <2>5. CASE FindsRow(r)
    <3>1. CASE q = r
      BY <1>0, <1>m, <2>5, <3>1 DEF FindsRow, RowsFit, Holding, Untold
    <3>2. CASE q # r
      BY <1>2, <2>2, <2>5, <3>2 DEF FindsRow
    <3> QED BY <3>1, <3>2
  <2>6. CASE GoesPast(r)
    <3>1. q = r => launch'[q].pc = "recording"
      BY <1>0, <2>6 DEF GoesPast, Hop, MakesSession, HandoverTypes
    <3> QED BY <1>2, <2>2, <2>6, <3>1 DEF GoesPast, Holding, Untold
  <2>7. CASE ClaimsRow(r)
    <3>1. CASE q = r
      BY <1>0, <1>a, <2>7, <3>1 DEF ClaimsRow, Hop
    <3>2. CASE q # r
      BY <1>1, <1>a, <2>2, <2>3, <2>7, <3>2, SMTT(30) DEF ClaimsRow, Others, SameName
    <3> QED BY <3>1, <3>2
  <2>8. CASE HoldsRow(r)
    <3>1. PICK step \in Steps : 
            /\ Hop(r, {step[1]}, step[2]) /\ Others(launch[r].pred) /\ SameName(launch[r].pred)
            /\ resource'[launch[r].pred].st = resource[launch[r].pred].st
            /\ \/ resource'[launch[r].pred].phase = resource[launch[r].pred].phase
               \/ step[2] \in {"sending", "dropping"}
      BY <2>8 DEF HoldsRow
    <3>2. launch[r].pc \in Holding /\ launch'[r].pc \in Holding
          /\ (launch'[r].pc \in Untold => launch[r].pc \in Untold)
      BY <3>1 DEF Hop, Steps, Holding, Untold
    <3>3. CASE q = r
      BY <1>a, <3>1, <3>2, <3>3 DEF Hop, SameName, Holding, Untold
    <3>4. CASE q # r
      BY <1>1, <1>a, <2>2, <2>3, <3>1, <3>2, <3>4, SMTT(30) DEF Others, SameName
    <3> QED BY <3>3, <3>4
  <2>9. CASE MarksRow(r)
    <3>1. CASE q = r
      BY <2>9, <3>1 DEF MarksRow, Holding, Untold
    <3>2. CASE q # r
      BY <1>1, <1>a, <2>2, <2>3, <2>9, <3>2, SMTT(30) DEF MarksRow, Others, SameName, Holding
    <3> QED BY <3>1, <3>2
  <2>10. CASE DropsRow(r)
    <3>1. CASE q = r
      BY <2>10, <3>1 DEF DropsRow, Hop, Holding, Untold
    <3>2. CASE q # r
      BY <1>0, <1>1, <1>a, <2>2, <2>3, <2>10, <3>2 DEF DropsRow, Hop, Others, SameName, Holding
    <3> QED BY <3>1, <3>2
  <2> QED BY <2>1, <2>4, <2>5, <2>6, <2>7, <2>8, <2>9, <2>10 DEF LaunchOnRows
<1>4. ASSUME NEW r \in RunIds, EndSteps(r), NEW q \in RunIds
      PROVE  /\ launch'[q].pc = "claiming" => Claiming(q)'
             /\ launch'[q].pc \in Holding => Held(q)'
  <2>1. EndOnRows(r) /\ EndOnRuns(r)
    BY <1>0, <1>4, EndRowsMove, EndRuns
  <2>2. launch'[q] = launch[q]
    BY <2>1 DEF EndOnRuns
  <2>3. CASE ender[r].pc = "superseding" /\ ender'[r].pc = "retaining"
    <3>1. run[r].handle # 0
      BY <1>0, <2>3 DEF RunsFit, Free
    <3>2. launch[q].pc \in Holding => resource[launch[q].pred].handle # run[r].handle
      <4> SUFFICES ASSUME launch[q].pc \in Holding, 
                          resource[launch[q].pred].handle = run[r].handle
                   PROVE  FALSE
        OBVIOUS
      <4> DEFINE h == run[r].handle
      <4>1. /\ h \in Handles /\ launch[q].pred \in RunIds
            /\ Owns("end", r, h) /\ Owns("row", launch[q].pred, h)
        BY <1>0, <1>a, <2>3 DEF Owns, Owed
      <4> QED BY <4>1 DEF HandInv, OneOwner, Kinds
    <3> QED BY <1>0, <1>1, <1>a, <1>2, <2>1, <2>2, <2>3, <3>2 DEF EndOnRows, SameName
  <2>4. CASE ender[r].pc = "retaining" /\ ender'[r].pc = "flagging"
    <3>1. Others(r)
      BY <1>0, <2>1, <2>4 DEF EndOnRows, RunsFit, Free
    <3>2. ~Made(r)
      BY <2>4 DEF Made, Owed
    <3>3. launch[q].pc = "claiming" \/ launch[q].pc \in Holding => launch[q].pred # r
      BY <1>0, <1>a, <3>2 DEF RowsFit
    <3> QED BY <1>1, <1>a, <2>2, <3>1, <3>3 DEF Others, SameName
  <2> QED BY <1>2, <2>1, <2>2, <2>3, <2>4 DEF EndOnRows
<1>5. ASSUME RowSteps, NEW q \in RunIds
      PROVE  /\ launch'[q].pc = "claiming" => Claiming(q)'
             /\ launch'[q].pc \in Holding => Held(q)'
  <2>0. launch'[q] = launch[q]
    BY <1>5, RowsOnRuns
  <2>1. ASSUME NEW p \in RunIds, ExpiresRow(p)
        PROVE  /\ launch'[q].pc = "claiming" => Claiming(q)'
               /\ launch'[q].pc \in Holding => Held(q)'
    BY <1>1, <1>a, <2>0, <2>1 DEF ExpiresRow, Others, SameName
  <2>2. ASSUME NEW w \in Sweeps, sweep[w].owner \in RunIds, TakesRow(w)
        PROVE  /\ launch'[q].pc = "claiming" => Claiming(q)'
               /\ launch'[q].pc \in Holding => Held(q)'
    <3>1. CASE UNCHANGED resource
      BY <1>2, <2>0, <3>1
    <3>2. CASE /\ resource[sweep[w].owner].st = sweep[w].st /\ Others(sweep[w].owner)
               /\ SameName(sweep[w].owner)
      <4>1. launch[q].pc \in Holding => launch[q].pred # sweep[w].owner
        <5> SUFFICES ASSUME launch[q].pc \in Holding, launch[q].pred = sweep[w].owner
                     PROVE  FALSE
          OBVIOUS
        <5>1. launch[q] = Free
          BY <1>a, <2>2, <3>2 DEF TakesRow, HandInv, DisposalsFit
        <5> QED BY <5>1 DEF Free, Holding, Untold
      <4> QED BY <1>1, <1>a, <2>0, <3>2, <4>1, SMTT(30) DEF Others, SameName
    <3> QED BY <2>2, <3>1, <3>2 DEF TakesRow
  <2>3. ASSUME NEW w \in Sweeps, sweep[w].owner \in RunIds, ForgetsRow(w)
        PROVE  /\ launch'[q].pc = "claiming" => Claiming(q)'
               /\ launch'[q].pc \in Holding => Held(q)'
    <3>1. resource[sweep[w].owner].st # "claimed"
      BY <2>3 DEF ForgetsRow, HandInv, DisposalsFit, Disposing
    <3> QED BY <1>0, <1>1, <1>a, <2>0, <2>3, <3>1 DEF ForgetsRow, Others, SameName
  <2> QED BY <1>0, <1>5, <2>1, <2>2, <2>3, RowsMove
<1>6. ASSUME UNCHANGED handoverVars \/ ApartSteps, NEW q \in RunIds
      PROVE  /\ launch'[q].pc = "claiming" => Claiming(q)'
             /\ launch'[q].pc \in Holding => Held(q)'
  <2>1. UNCHANGED <<resource, launch>>
    BY <1>0, <1>6, StandsApart DEF Apart, handoverVars
  <2> QED BY <1>2, <2>1
<1>7. \A q \in RunIds : /\ launch'[q].pc = "claiming" => Claiming(q)'
                        /\ launch'[q].pc \in Holding => Held(q)'
  BY <1>3, <1>4, <1>5, <1>6, EverySteps
<1> QED BY <1>7 DEF TransfersFit

-----------------------------------------------------------------------------
\* What a launch step does to sessions and vaults.
OtherSessions(h) == \A g \in Handles : g # h => session'[g] = session[g]
OtherVaults(h) == \A g \in Handles : g # h => vault'[g] = vault[g]

TurnsKey(r) ==
  LET h == launch[r].handle IN
  /\ Hop(r, {"rotating"}, "retagging") /\ UNCHANGED session /\ OtherVaults(h)
  /\ vault[h].st = "there" /\ vault'[h].st = "there" /\ vault'[h].key = r
Tags(r) ==
  LET h == launch[r].handle IN
  /\ Hop(r, {"retagging"}, "marking") /\ UNCHANGED vault /\ OtherSessions(h)
  /\ session[h].st = "live" /\ session'[h].st = "live" /\ session'[h].tag = r
  /\ session'[h].speaker = session[h].speaker
Speaks(r) ==
  LET h == launch[r].handle IN
  /\ launch[r].pc = "sending" /\ UNCHANGED vault /\ OtherSessions(h) /\ h \in Handles
  /\ session[h].st = "live" /\ session'[h].st = "live" /\ session'[h].tag = session[h].tag
  /\ session'[h].speaker = r
  /\ launch'[r].pc \in {"accepting", "free"}
BearsVault(r) ==
  /\ launch[r].pc = "fresh" /\ launch'[r].pc = "creating" /\ UNCHANGED session
  /\ OtherVaults(r) /\ vault'[r].st = "there" /\ vault'[r].key = r
BearsSession(r) ==
  /\ launch[r].pc = "creating" /\ launch'[r].pc = "recording" /\ launch'[r].handle = r
  /\ UNCHANGED vault /\ OtherSessions(r)
  /\ session'[r].st = "live" /\ session'[r].tag = r /\ session'[r].speaker = r

LaunchOnProvider(r) ==
  \/ Wane
  \/ TurnsKey(r) \/ Tags(r) \/ Speaks(r) \/ BearsVault(r) \/ BearsSession(r)

\* Each launch step does at the provider what LaunchOnProvider says.
LEMMA LaunchProvider ==
  ASSUME HandoverTypes, NEW r \in RunIds, LaunchSteps(r)
  PROVE  LaunchOnProvider(r)
<1> USE DEF HandoverTypes
<1>1. ASSUME UNCHANGED provider
      PROVE  Wane
  BY <1>1 DEF Wane, provider
<1>2. CASE \/ LaunchBegins(r) \/ FindsPredecessor(r) \/ FindsResource(r) \/ ClaimsResource(r)
           \/ MarksSending(r) \/ AbandonsTransfer(r) \/ AcceptsTransfer(r) \/ DropsResource(r)
           \/ ReleasesPredecessor(r) \/ RecordsLaunch(r) \/ LaunchDies(r) \/ EndsUnlaunched(r)
  <2>1. UNCHANGED provider
    BY <1>2 DEF LaunchBegins, FindsPredecessor, FindsResource, ClaimsResource, MarksSending,
           AbandonsTransfer, AcceptsTransfer, DropsResource, ReleasesPredecessor, RecordsLaunch,
           LaunchDies, EndsUnlaunched
  <2> QED BY <1>1, <2>1 DEF LaunchOnProvider
<1>3. CASE RotatesKey(r)
  <2>1. Hop(r, {"rotating"}, "retagging")
    BY <1>3, Hops DEF RotatesKey, At, Holding, Untold
  <2> DEFINE h == launch[r].handle
  <2>2. h \in Handles /\ vault' = [vault EXCEPT ![h].key = r] /\ vault[h].st = "there"
    BY <1>3, <2>1 DEF RotatesKey, Hop, There
  <2> HIDE DEF h
  <2>3. vault'[h].st = "there" /\ vault'[h].key = r /\ OtherVaults(h)
    BY <2>2 DEF VaultRows, OtherVaults
  <2> QED BY <1>3, <2>1, <2>2, <2>3 DEF RotatesKey, TurnsKey, LaunchOnProvider, h
<1>4. CASE Retags(r)
  <2>1. Hop(r, {"retagging"}, "marking")
    BY <1>4, Hops DEF Retags, At, Holding, Untold
  <2> DEFINE h == launch[r].handle
  <2>2. h \in Handles /\ session' = [session EXCEPT ![h].tag = r] /\ session[h].st = "live"
    BY <1>4, <2>1 DEF Retags, Hop, Live
  <2> HIDE DEF h
  <2>3. /\ session'[h].st = "live" /\ session'[h].tag = r /\ OtherSessions(h)
        /\ session'[h].speaker = session[h].speaker
    BY <2>2 DEF SessionRows, OtherSessions
  <2> QED BY <1>4, <2>1, <2>2, <2>3 DEF Retags, Tags, LaunchOnProvider, h
<1>5. ASSUME Delivered(r), UNCHANGED vault, launch'[r].pc \in {"accepting", "free"}
      PROVE  Speaks(r)
  <2> DEFINE h == launch[r].handle
  <2>1. /\ h \in Handles /\ session' = [session EXCEPT ![h].speaker = r] /\ session[h].st = "live"
        /\ launch[r].pc = "sending"
    BY <1>5, LaunchTells DEF Delivered, At, Holding, Live
  <2> HIDE DEF h
  <2>2. /\ session'[h].st = "live" /\ session'[h].speaker = r /\ OtherSessions(h)
        /\ session'[h].tag = session[h].tag
    BY <2>1 DEF SessionRows, OtherSessions
  <2> QED BY <1>5, <2>1, <2>2 DEF Speaks, h
<1>6. CASE Sends(r)
  <2>1. Hop(r, {"sending"}, "accepting")
    BY <1>6, Hops DEF Sends, Delivered, At, Holding
  <2> QED BY <1>5, <1>6, <2>1 DEF Sends, Hop, LaunchOnProvider
<1>7. CASE MakesVault(r)
  <2>1. launch[r] \in MakingRows
    BY <1>7, LaunchTells DEF MakesVault, At
  <2> QED BY <1>7, <2>1 DEF MakesVault, At, Goes, MakingRows, BearsVault, OtherVaults, Handles,
             LaunchOnProvider
<1>8. CASE MakesSession(r)
  BY <1>8 DEF MakesSession, At, BearsSession, OtherSessions, Handles, LaunchOnProvider
<1>9. CASE LaunchThrows(r)
  <2>1. launch'[r].pc = "free"
    BY <1>9 DEF LaunchThrows, Free
  <2>2. CASE Delivered(r) /\ UNCHANGED vault
    BY <1>5, <2>1, <2>2 DEF LaunchOnProvider
  <2>3. CASE UNCHANGED provider \/ (Deleted(r) /\ UNCHANGED session)
    BY <2>3, ProvidersWane DEF Handles, LaunchOnProvider
  <2> QED BY <1>9, <2>2, <2>3 DEF LaunchThrows
<1> QED BY <1>2, <1>3, <1>4, <1>6, <1>7, <1>8, <1>9 DEF LaunchSteps, LaunchGoesOn

\* Only launches make or change sessions and vaults.
LEMMA EveryProvider ==
  ASSUME HandInv, [HandoverNext]_handoverVars
  PROVE  Wane \/ \E r \in RunIds : LaunchSteps(r) /\ LaunchOnProvider(r)
<1>0. HandoverTypes /\ RunsFit
  BY DEF HandInv
<1>1. CASE UNCHANGED provider
  BY <1>1 DEF Wane, provider
<1>2. ASSUME NEW r \in RunIds, EndSteps(r)
      PROVE  UNCHANGED provider
  BY <1>2 DEF EndSteps, EndsPlainly, EndsByPoll, Supersedes, Retains
<1>3. UNCHANGED handoverVars => UNCHANGED provider
  BY DEF handoverVars, provider
<1> QED BY <1>0, <1>1, <1>2, <1>3, EverySteps, RowsOnRuns, LaunchProvider, StandsApart DEF Apart

\* What exists goes on existing.
LEMMA SessionsStay ==
  ASSUME HandInv, [HandoverNext]_handoverVars, NEW h \in Handles
  PROVE  session[h].st # "none" => session'[h].st # "none"
BY EveryProvider DEF LaunchOnProvider, Wane, TurnsKey, Tags, Speaks, BearsVault, BearsSession,
   OtherSessions

-----------------------------------------------------------------------------
(* One owner *)

\* A step lets go of handles, or passes one on, or makes one.
NoGain == \A h \in Handles, k \in Kinds, r \in RunIds : Owns(k, r, h)' => Owns(k, r, h)
Gain(k0, r0, h0) ==
  /\ \A h \in Handles, k \in Kinds, r \in RunIds :
       Owns(k, r, h)' => Owns(k, r, h) \/ (k = k0 /\ r = r0 /\ h = h0)
  /\ \/ session[h0].st = "none" /\ session'[h0].st # "none"
     \/ \E l \in Kinds, q \in RunIds : /\ Owns(l, q, h0) /\ ~Owns(l, q, h0)'
                                       /\ l = "row" => resource[q].st = "claimed"

OwnerMove == NoGain \/ \E k \in Kinds, r \in RunIds, h \in Handles : Gain(k, r, h)

\* A step lets handles go, or gives one handle one new owner as an old one
\* lets go or as the session is made.
LEMMA OwnersMove ==
  ASSUME HandInv, [HandoverNext]_handoverVars
  PROVE  OwnerMove
<1>0. /\ HandoverTypes /\ RowsFit /\ RunsFit /\ TransfersFit
      /\ NoRow.handle = 0 /\ 0 \notin Handles
  BY HandoverAssumption DEF HandInv, NoRow, Handles, RunIds
<1>1. CASE UNCHANGED handoverVars
  BY <1>1 DEF handoverVars, OwnerMove, NoGain, Owns
<1>2. CASE ApartSteps
  <2>1. Apart
    BY <1>0, <1>2, StandsApart
  <2> QED BY <2>1 DEF Apart, OwnerMove, NoGain, Owns, Owed
<1>3. CASE RowSteps
  <2>0. UNCHANGED <<run, launch, ender>>
    BY <1>3, RowsOnRuns
  <2>1. \A o \in RunIds : resource'[o].handle \in {resource[o].handle, 0}
    BY <1>0, <1>3, RowsMove DEF ExpiresRow, TakesRow, ForgetsRow, Others, SameName
  <2> QED BY <1>0, <2>0, <2>1 DEF OwnerMove, NoGain, Owns
<1>4. ASSUME NEW r \in RunIds, EndSteps(r)
      PROVE  OwnerMove
  <2>1. EndOnRows(r) /\ EndOnRuns(r)
    BY <1>0, <1>4, EndRowsMove, EndRuns
  <2>2. PICK h \in Handles : h = run[r].handle
    BY <1>0, <2>1 DEF EndOnRuns, RunsFit, Free, HandoverTypes, RunRows
  <2>3. CASE run[r].st = "running"
    <3>1. UNCHANGED resource /\ run'[r].st = "ended"
      BY <1>0, <2>1, <2>3 DEF EndOnRows, EndOnRuns, RunsFit, Free
    <3>2. Owns("run", r, h) /\ ~Owns("run", r, h)'
      BY <2>2, <2>3, <3>1 DEF Owns
    <3>3. Gain("end", r, h)
      <4>1. ASSUME NEW g \in Handles, NEW k \in Kinds, NEW q \in RunIds, Owns(k, q, g)'
            PROVE  Owns(k, q, g) \/ (k = "end" /\ q = r /\ g = h)
        BY <2>1, <2>2, <2>3, <3>1, <4>1 DEF EndOnRuns, Owns, Owed
      <4> QED BY <3>2, <4>1 DEF Gain, Kinds
    <3> QED BY <2>2, <3>3 DEF OwnerMove, Kinds
  <2>4. CASE ender[r].pc = "superseding" /\ ender'[r].pc = "retaining"
    <3>1. \A o \in RunIds : resource'[o].handle \in {resource[o].handle, 0}
      BY <1>0, <2>1, <2>4 DEF EndOnRows
    <3>2. \A q \in RunIds : /\ run'[q].st = "running" => run[q].st = "running" 
                            /\ run'[q].handle = run[q].handle
                            /\ ender'[q].pc \in Owed => ender[q].pc \in Owed
      BY <2>1, <2>4 DEF EndOnRuns, Owed
    <3>3. UNCHANGED launch
      BY <2>1 DEF EndOnRuns
    <3> QED BY <1>0, <3>1, <3>2, <3>3 DEF OwnerMove, NoGain, Owns
  <2>5. CASE ender[r].pc = "retaining" /\ ender'[r].pc = "flagging"
    <3>1. Others(r) /\ resource'[r].handle = h /\ UNCHANGED launch
      BY <1>0, <2>1, <2>2, <2>5, KeptIs DEF EndOnRows, EndOnRuns, RunsFit, Free
    <3>2. \A q \in RunIds : /\ run'[q].st = "running" => run[q].st = "running" 
                            /\ run'[q].handle = run[q].handle
                            /\ ender'[q].pc \in Owed => ender[q].pc \in Owed
      BY <2>1, <2>5 DEF EndOnRuns, Owed
    <3>3. Owns("end", r, h) /\ ~Owns("end", r, h)'
      BY <2>2, <2>5 DEF Owns, Owed
    <3>4. Gain("row", r, h)
      <4>1. ASSUME NEW g \in Handles, NEW k \in Kinds, NEW q \in RunIds, Owns(k, q, g)'
            PROVE  Owns(k, q, g) \/ (k = "row" /\ q = r /\ g = h)
        BY <3>1, <3>2, <4>1 DEF Others, Owns
      <4> QED BY <3>3, <4>1 DEF Gain, Kinds
    <3> QED BY <2>2, <3>4 DEF OwnerMove, Kinds
  <2> QED BY <2>1, <2>3, <2>4, <2>5 DEF EndOnRuns
<1>5. ASSUME NEW r \in RunIds, LaunchSteps(r)
      PROVE  OwnerMove
  <2>1. LaunchOnRows(r) /\ LaunchOnRuns(r)
    BY <1>0, <1>5, HoldingHasRow, LaunchRowsMove, LaunchRuns
  <2>2. /\ UNCHANGED ender
        /\ \A q \in RunIds : q # r => /\ run'[q].st = run[q].st /\ run'[q].handle = run[q].handle
                                      /\ launch'[q] = launch[q]
        /\ \A q \in RunIds : ender[q].pc \in Owed => run'[q].handle = run[q].handle
    BY <1>0, <2>1 DEF LaunchOnRuns, RunsFit, Owed, Free
  <2>3. ASSUME run'[r].st = "running" => (run[r].st = "running" /\ run'[r].handle = run[r].handle),
               \A o \in RunIds : resource'[o].handle \in {resource[o].handle, 0},
               launch'[r].pc \in Past => (launch[r].pc \in Past /\ launch'[r].handle = launch[r].handle)
        PROVE  OwnerMove
    BY <1>0, <2>2, <2>3 DEF OwnerMove, NoGain, Owns
  <2>4. CASE run[r].st = "launching" /\ run'[r].st = "running"
    <3>0. launch[r].pc = "recording" /\ launch'[r] = Free /\ run'[r].handle = launch[r].handle
      BY <2>1, <2>4 DEF LaunchOnRuns, Free
    <3>1. PICK h \in Handles : /\ h = launch[r].handle /\ run'[r].handle = h
                               /\ launch[r].pc = "recording" /\ launch'[r] = Free
      BY <1>0, <3>0, LaunchTells DEF HandoverTypes, Past
    <3>3. UNCHANGED resource
      BY <2>1, <3>1 DEF LaunchOnRows, LeavesRows, FindsRow, ClaimsRow, HoldsRow, MarksRow, DropsRow,
         GoesPast, Hop, Holding, Untold, Steps, Free
    <3>4. Owns("launch", r, h) /\ ~Owns("launch", r, h)'
      BY <3>1 DEF Owns, Past, Free
    <3>5. ASSUME NEW g \in Handles, NEW k \in Kinds, NEW q \in RunIds, Owns(k, q, g)'
          PROVE  Owns(k, q, g) \/ (k = "run" /\ q = r /\ g = h)
      BY <2>2, <3>1, <3>3, <3>5 DEF Owns, Past, Free
    <3>6. Gain("run", r, h)
      BY <3>4, <3>5 DEF Gain, Kinds
    <3> QED BY <3>6 DEF OwnerMove, Kinds
  <2>5. CASE ~(run[r].st = "launching" /\ run'[r].st = "running")
    <3>1. run'[r].st = "running" => (run[r].st = "running" /\ run'[r].handle = run[r].handle)
      BY <2>1, <2>5 DEF LaunchOnRuns
    <3>2. CASE LeavesRows(r) \/ FindsRow(r)
      BY <2>3, <3>1, <3>2 DEF LeavesRows, FindsRow, Past
    <3>3. CASE ClaimsRow(r) \/ MarksRow(r)
      BY <2>3, <3>1, <3>3 DEF ClaimsRow, MarksRow, Hop, Others, SameName, Past
    <3>4. CASE HoldsRow(r)
      BY <2>3, <3>1, <3>4 DEF HoldsRow, Hop, Others, SameName, Past, Steps
    <3>5. CASE Hop(r, {"releasing"}, "recording") /\ UNCHANGED resource
      BY <2>3, <3>1, <3>5 DEF Hop, Past
    <3>6. CASE launch[r].pc = "creating" /\ MakesSession(r)
      <4>1. /\ launch'[r].pc = "recording" /\ launch'[r].handle = r
            /\ session'[r].st # "none" /\ UNCHANGED <<run, resource>>
        BY <1>0, <3>6 DEF MakesSession, HandoverTypes, Handles
      <4>2. session[r].st = "none"
        BY <3>6 DEF HandInv, BirthsFit
      <4>3. ASSUME NEW g \in Handles, NEW k \in Kinds, NEW q \in RunIds, Owns(k, q, g)'
            PROVE  Owns(k, q, g) \/ (k = "launch" /\ q = r /\ g = r)
        BY <2>2, <4>1, <4>3 DEF Owns, Past
      <4>4. Gain("launch", r, r)
        BY <4>1, <4>2, <4>3 DEF Gain
      <4> QED BY <4>4 DEF OwnerMove, Kinds, Handles
    <3>7. CASE DropsRow(r)
      <4>0. launch[r].pred \in RunIds /\ launch[r].handle \in Handles
        BY <3>7 DEF DropsRow, Hop
      <4>o. PICK o \in RunIds : o = launch[r].pred
        BY <4>0
      <4>h. PICK h \in Handles : h = launch[r].handle
        BY <4>0
      <4>1. /\ launch[r].pc = "dropping" /\ launch'[r].pc = "releasing" /\ launch'[r].handle = h
            /\ resource'[o] = NoRow /\ \A p \in RunIds : p # o => resource'[p] = resource[p]
        BY <3>7, <4>o, <4>h DEF DropsRow, Hop, Others
      <4>2. resource[o].handle = h /\ resource[o].st = "claimed"
        BY <1>0, <4>1, <4>o, <4>h DEF TransfersFit, Holding
      <4>3. Owns("row", o, h) /\ ~Owns("row", o, h)'
        BY <1>0, <4>1, <4>2 DEF Owns
      <4>4. ASSUME NEW g \in Handles, NEW k \in Kinds, NEW q \in RunIds, Owns(k, q, g)'
            PROVE  Owns(k, q, g) \/ (k = "launch" /\ q = r /\ g = h)
        BY <1>0, <2>2, <3>1, <4>1, <4>4 DEF Owns, Past
      <4>5. Gain("launch", r, h)
        BY <4>2, <4>3, <4>4 DEF Gain, Kinds
      <4> QED BY <4>5 DEF OwnerMove, Kinds
    <3> QED BY <2>1, <3>2, <3>3, <3>4, <3>5, <3>6, <3>7 DEF LaunchOnRows, GoesPast
  <2> QED BY <2>4, <2>5
<1> QED BY <1>1, <1>2, <1>3, <1>4, <1>5, EverySteps

\* A handle keeps at most one owner, and what is owned exists.
LEMMA OwnersStayOne ==
  ASSUME HandInv, [HandoverNext]_handoverVars
  PROVE  OneOwner' /\ OwnedExist'
<1>0. OneOwner /\ OwnedExist
  BY DEF HandInv
<1>1. CASE NoGain
  BY <1>0, <1>1, SessionsStay DEF NoGain, OneOwner, OwnedExist
<1>2. ASSUME NEW k0 \in Kinds, NEW r0 \in RunIds, NEW h0 \in Handles, Gain(k0, r0, h0)
      PROVE  OneOwner' /\ OwnedExist'
  <2>1. session'[h0].st # "none"
    BY <1>0, <1>2, SessionsStay DEF Gain, OwnedExist
  <2>2. OwnedExist'
    BY <1>0, <1>2, <2>1, SessionsStay DEF Gain, OwnedExist
  <2>3. ASSUME NEW k \in Kinds, NEW q \in RunIds, Owns(k, q, h0), Owns(k, q, h0)'
        PROVE  FALSE
    BY <1>0, <1>2, <2>3 DEF Gain, OneOwner, OwnedExist
  <2>4. OneOwner'
    BY <1>0, <1>2, <2>3 DEF Gain, OneOwner
  <2> QED BY <2>2, <2>4
<1> QED BY <1>1, <1>2, OwnersMove DEF OwnerMove

-----------------------------------------------------------------------------
(* Births and keys *)

\* A vault, once made, is there or deleted, never unmade.
LEMMA VaultsStay ==
  ASSUME HandInv, [HandoverNext]_handoverVars, NEW h \in Handles
  PROVE  vault[h].st # "none" => vault'[h].st # "none"
BY EveryProvider DEF LaunchOnProvider, Wane, TurnsKey, Tags, Speaks, BearsVault, BearsSession,
   OtherVaults

\* A session that is not live stays so, once it exists.
LEMMA DeadStays ==
  ASSUME HandInv, [HandoverNext]_handoverVars, NEW h \in Handles,
         session[h].st # "none", ~Live(h)
  PROVE  session'[h].st # "live"
BY EveryProvider DEF LaunchOnProvider, Wane, TurnsKey, Tags, Speaks, BearsVault, BearsSession,
   OtherSessions, HandInv, BirthsFit, Live

\* Runs and launches go together.
LEMMA LaunchingIs ==
  ASSUME HandInv, NEW r \in RunIds, launch[r] # Free
  PROVE  run[r].handle = 0 /\ run[r].st \in {"launching", "ended"}
BY DEF HandInv, RunsFit, HandoverTypes, RunRows

\* The origin of a vault is remembered by its run.
LEMMA MakingStays ==
  ASSUME HandInv, [HandoverNext]_handoverVars, NEW r \in RunIds, MadeVault(r)
  PROVE  MadeVault(r)'
<1>0. HandoverTypes /\ RunsFit /\ r # 0
  BY HandoverAssumption DEF HandInv, RunIds
<1>1. CASE run[r].handle = r
  BY <1>0, <1>1, MadeStays DEF MadeVault
<1>2. CASE /\ launch'[r] = launch[r] /\ run'[r].handle = run[r].handle
           /\ run'[r].st = run[r].st \/ (run[r].st = "launching" /\ run'[r].st = "ended")
  BY <1>2 DEF MadeVault
<1>3. CASE UNCHANGED handoverVars \/ ApartSteps \/ RowSteps
  BY <1>0, <1>2, <1>3, StandsApart, RowsOnRuns DEF handoverVars, Apart
<1>4. ASSUME NEW q \in RunIds, EndSteps(q)
      PROVE  MadeVault(r)'
  BY <1>0, <1>1, <1>2, <1>4, EndRuns DEF EndOnRuns, MadeVault, RunsFit
<1>5. ASSUME NEW q \in RunIds, LaunchSteps(q), run[r].handle # r
      PROVE  MadeVault(r)'
  <2>1. LaunchOnRuns(q)
    BY <1>0, <1>5, LaunchRuns
  <2>2. CASE q # r
    BY <1>2, <2>1, <2>2 DEF LaunchOnRuns
  <2>3. CASE q = r /\ launch[r] = Free
    BY <1>2, <1>5, <2>1, <2>3 DEF LaunchOnRuns, MadeVault, Free
  <2>4. CASE q = r /\ launch[r] # Free
    <3>1. launch[r].pc \in {"creating", "recording"} /\ run[r].st \in {"launching", "ended"}
          /\ run[r].handle = 0
      BY <1>5, <2>4, LaunchingIs DEF MadeVault
    <3>2. \/ MakesSession(r) \/ RecordsLaunch(r) \/ LaunchThrows(r) \/ LaunchDies(r)
          \/ EndsUnlaunched(r)
      BY <1>5, <2>4, <3>1
         DEF LaunchSteps, LaunchGoesOn, LaunchBegins, FindsPredecessor, FindsResource,
             ClaimsResource, RotatesKey, Retags, MarksSending, AbandonsTransfer, Sends, Delivered,
             AcceptsTransfer, DropsResource, ReleasesPredecessor, MakesVault, At
    <3>3. CASE MakesSession(r)
      BY <1>0, <3>3 DEF MakesSession, MadeVault, HandoverTypes
    <3>4. CASE launch'[r] = Free /\ run'[r].st = "running"
      <4>1. launch[r].pc = "recording" /\ run'[r].handle = launch[r].handle
        BY <2>1, <2>4, <3>1, <3>4 DEF LaunchOnRuns, Free
      <4> QED BY <1>5, <2>4, <4>1 DEF MadeVault
    <3>5. CASE launch'[r] = Free /\ run'[r].st # "running"
      BY <2>1, <2>4, <3>1, <3>5 DEF LaunchOnRuns, MadeVault, Free
    <3>6. CASE EndsUnlaunched(r)
      BY <1>0, <1>2, <2>1, <2>4, <3>1, <3>6 DEF EndsUnlaunched, LaunchOnRuns, Free, HandoverTypes, RunRows
    <3> QED BY <1>0, <3>2, <3>3, <3>4, <3>5, <3>6 DEF RecordsLaunch, LaunchThrows, LaunchDies, HandoverTypes
  <2> QED BY <2>2, <2>3, <2>4
<1> QED BY <1>1, <1>3, <1>4, <1>5, EverySteps

\* Vaults and sessions come from the launch whose name they bear.
LEMMA BirthsStayFit ==
  ASSUME HandInv, [HandoverNext]_handoverVars
  PROVE  BirthsFit'
<1>0. HandoverTypes /\ RunsFit /\ BirthsFit
  BY DEF HandInv
<1> SUFFICES ASSUME NEW r \in RunIds
             PROVE  /\ vault'[r].st # "none" => MadeVault(r)'
                    /\ launch'[r].pc = "creating" => vault'[r].st # "none"
                    /\ session'[r].st # "none" => vault'[r].st # "none" /\ launch'[r].pc # "creating"
  BY DEF BirthsFit
<1>1. r \in Handles
  BY DEF Handles
<1>2. ASSUME vault[r].st = "none", vault'[r].st # "none"
      PROVE  MadeVault(r)' /\ session'[r].st = "none"
  <2>1. PICK q \in RunIds : BearsVault(q) /\ q = r
    BY <1>1, <1>2, EveryProvider DEF LaunchOnProvider, Wane, TurnsKey, Tags, Speaks, BearsVault,
       BearsSession, OtherVaults
  <2>2. session[r].st = "none"
    BY <1>0, <1>2 DEF BirthsFit
  <2> QED BY <2>1, <2>2 DEF BearsVault, MadeVault
<1>3. vault'[r].st # "none" => MadeVault(r)'
  BY <1>0, <1>2, MakingStays DEF BirthsFit
<1>4. ASSUME launch'[r].pc = "creating", launch[r].pc # "creating"
      PROVE  MakesVault(r)
  <2>1. PICK q \in RunIds : LaunchSteps(q) /\ q = r
    <3>1. \A q \in RunIds : EndSteps(q) => UNCHANGED launch
      BY <1>0, EndRuns DEF EndOnRuns
    <3> QED BY <1>0, <1>4, <3>1, EverySteps, StandsApart, RowsOnRuns, LaunchRuns
            DEF handoverVars, Apart, LaunchOnRuns
  <2>2. \A pc \in {"claiming"} \cup Holding \cup Past :
          (launch[r].pc \in {"claiming", "releasing"} \cup Holding /\ Goes(r, pc)) => launch'[r].pc = pc
    BY <1>0, Hops DEF Hop
  <2> QED BY <1>0, <1>4, <2>1, <2>2, SMTT(30)
          DEF LaunchSteps, LaunchGoesOn, LaunchBegins, FindsPredecessor, FindsResource,
             ClaimsResource, RotatesKey, Retags, MarksSending, AbandonsTransfer, Sends, Delivered,
             AcceptsTransfer, DropsResource, ReleasesPredecessor, MakesSession, RecordsLaunch,
             LaunchThrows, LaunchDies, EndsUnlaunched, At, Fresh, Free, Holding, Untold, Past,
             HandoverTypes
<1>5. launch'[r].pc = "creating" => vault'[r].st # "none"
  <2>1. CASE launch[r].pc = "creating"
    BY <1>0, <1>1, <2>1, VaultsStay DEF BirthsFit
  <2>2. CASE launch'[r].pc = "creating" /\ launch[r].pc # "creating"
    BY <1>0, <1>1, <1>4, <2>2 DEF MakesVault, HandoverTypes
  <2> QED BY <2>1, <2>2
<1>6. ASSUME session'[r].st # "none"
      PROVE  vault'[r].st # "none" /\ launch'[r].pc # "creating"
  <2>1. CASE session[r].st # "none"
    <3>1. vault'[r].st # "none"
      BY <1>0, <1>1, <2>1, VaultsStay DEF BirthsFit
    <3>2. ASSUME launch'[r].pc = "creating"
          PROVE  FALSE
      <4>1. launch[r].pc = "fresh" /\ vault[r].st # "none"
        BY <1>0, <1>4, <2>1, <3>2 DEF BirthsFit, MakesVault, At
      <4>2. MadeVault(r) /\ run[r].handle = 0
        BY <1>0, <4>1, LaunchingIs DEF BirthsFit, Free
      <4> QED BY <1>0, <4>1, <4>2, HandoverAssumption DEF MadeVault, Free, RunIds
    <3> QED BY <3>1, <3>2
  <2>2. CASE session[r].st = "none"
    <3>1. PICK q \in RunIds : BearsSession(q) /\ q = r
      BY <1>1, <1>6, <2>2, EveryProvider DEF LaunchOnProvider, Wane, TurnsKey, Tags, Speaks, BearsVault,
         BearsSession, OtherSessions
    <3> QED BY <1>0, <3>1 DEF BearsSession, BirthsFit
  <2> QED BY <2>1, <2>2
<1> QED BY <1>3, <1>5, <1>6

\* The handle of a hand-over is nobody else's.
LEMMA HeldIsAlone ==
  ASSUME HandInv, NEW r \in RunIds, launch[r].pc \in Holding
  PROVE  /\ launch[r].handle \in Handles /\ launch[r].pred \in RunIds
         /\ Owns("row", launch[r].pred, launch[r].handle)
         /\ \A q \in RunIds : (launch[q].pc \in Holding /\ launch[q].handle = launch[r].handle) => q = r
<1>1. \A q \in RunIds : launch[q].pc \in Holding =>
        /\ launch[q].handle \in Handles /\ launch[q].pred \in RunIds
        /\ resource[launch[q].pred].handle = launch[q].handle /\ resource[launch[q].pred].by = q
  BY LaunchTells DEF HandInv, HandoverTypes, TransferRows, TransfersFit
<1>2. \A q \in RunIds : launch[q].pc \in Holding => Owns("row", launch[q].pred, launch[q].handle)
  BY <1>1 DEF Owns
<1> QED BY <1>1, <1>2 DEF HandInv, OneOwner, Kinds

\* Between the rotation and the message, the vault holds the launch's own key:
\* the row it holds keeps every other launch from the vault.
LEMMA KeysStayFit ==
  ASSUME HandInv, [HandoverNext]_handoverVars
  PROVE  KeysFit'
<1>0. HandoverTypes /\ RunsFit /\ KeysFit /\ BirthsFit /\ OwnedExist
  BY DEF HandInv
<1> SUFFICES ASSUME NEW q \in RunIds, launch'[q].pc \in {"retagging", "marking", "sending"}
             PROVE  vault'[launch'[q].handle].key = q
  BY DEF KeysFit
<1>1. \/ launch'[q] = launch[q]
      \/ /\ LaunchSteps(q)
         /\ \/ Hop(q, {"rotating"}, "retagging") \/ Hop(q, {"retagging"}, "marking")
            \/ Hop(q, {"marking"}, "sending")
  <2>1. \A r \in RunIds : EndSteps(r) => UNCHANGED launch
    BY <1>0, EndRuns DEF EndOnRuns
  <2>2. \A r \in RunIds : LaunchSteps(r) /\ r # q => launch'[q] = launch[q]
    BY <1>0, LaunchRuns DEF LaunchOnRuns
  <2>3. ASSUME LaunchSteps(q), launch'[q] # launch[q]
        PROVE  \/ Hop(q, {"rotating"}, "retagging") \/ Hop(q, {"retagging"}, "marking")
               \/ Hop(q, {"marking"}, "sending")
    <3>1. LaunchOnRows(q)
      BY <1>0, <2>3, HoldingHasRow, LaunchRowsMove
    <3>2. launch[q].pc = "creating" /\ MakesSession(q) => launch'[q].pc = "recording"
      BY <1>0 DEF MakesSession, HandoverTypes
    <3> QED BY <2>3, <3>1, <3>2
            DEF LaunchOnRows, LeavesRows, FindsRow, ClaimsRow, HoldsRow, MarksRow, DropsRow,
                GoesPast, Hop, Steps
  <2> QED BY <1>0, <2>1, <2>2, <2>3, EverySteps, StandsApart, RowsOnRuns DEF handoverVars, Apart
<1>2. launch[q].pc \in Holding /\ launch'[q].handle = launch[q].handle
  BY <1>1 DEF Hop, Holding, Untold
<1> PICK h \in Handles : h = launch[q].handle
  BY <1>2, HeldIsAlone
<1>3. session[h].st # "none" /\ vault[h].st # "none"
  BY <1>0, <1>2, HeldIsAlone DEF OwnedExist, BirthsFit, Kinds, Handles
\* Whoever writes a key of that vault is this launch.
<1>4. \/ vault'[h].key = vault[h].key
      \/ TurnsKey(q)
  <2>1. CASE Wane
    BY <2>1 DEF Wane
  <2>2. ASSUME NEW r \in RunIds, LaunchOnProvider(r)
        PROVE  \/ vault'[h].key = vault[h].key
               \/ TurnsKey(q)
    <3>1. CASE TurnsKey(r)
      <4>1. launch[r].pc \in Holding
        BY <3>1 DEF TurnsKey, Hop, Holding, Untold
      <4>2. launch[r].handle = h => r = q
        BY <1>2, <4>1, HeldIsAlone
      <4> QED BY <3>1, <4>2 DEF TurnsKey, OtherVaults
    <3>2. CASE BearsVault(r)
      <4>1. launch[r].pc = "fresh" /\ run[r].handle = 0
        BY <3>2, LaunchingIs DEF BearsVault, Free
      <4>2. vault[r].st = "none"
        BY <1>0, <4>1, HandoverAssumption DEF BirthsFit, MadeVault, Free, RunIds
      <4> QED BY <1>3, <3>2, <4>2 DEF BearsVault, OtherVaults
    <3> QED BY <2>1, <2>2, <3>1, <3>2 DEF LaunchOnProvider, Tags, Speaks, BearsSession
  <2> QED BY <2>1, <2>2, EveryProvider
<1>5. CASE TurnsKey(q)
  BY <1>2, <1>5 DEF TurnsKey
<1>6. CASE vault'[h].key = vault[h].key /\ ~TurnsKey(q)
  <2>1. CASE launch'[q] = launch[q]
    BY <1>0, <1>2, <1>6, <2>1 DEF KeysFit
  <2>2. CASE Hop(q, {"retagging"}, "marking") \/ Hop(q, {"marking"}, "sending")
    BY <1>0, <1>2, <1>6, <2>2 DEF KeysFit, Hop
  <2>3. CASE LaunchSteps(q) /\ Hop(q, {"rotating"}, "retagging")
    <3>1. RotatesKey(q)
      BY <1>0, <2>3, SMTT(30)
         DEF Hop, LaunchSteps, LaunchGoesOn, LaunchBegins, FindsPredecessor, FindsResource,
             ClaimsResource, RotatesKey, Retags, MarksSending, AbandonsTransfer, Sends, Delivered,
             AcceptsTransfer, DropsResource, ReleasesPredecessor, MakesVault, MakesSession, RecordsLaunch,
             LaunchThrows, LaunchDies, EndsUnlaunched, At, Fresh, Free, HandoverTypes
    <3>2. vault'[h].key = q
      BY <1>0, <3>1 DEF RotatesKey, HandoverTypes, VaultRows
    <3> QED BY <1>2, <3>2
  <2> QED BY <1>1, <2>1, <2>2, <2>3
<1> QED BY <1>4, <1>5, <1>6

-----------------------------------------------------------------------------
(* Disposals *)

\* A run whose launch is over starts no other.
LEMMA FreeStays ==
  ASSUME HandInv, [HandoverNext]_handoverVars, NEW r \in RunIds,
         launch[r] = Free, run[r].st # "unused"
  PROVE  launch'[r] = Free
<1>0. HandoverTypes /\ RunsFit
  BY DEF HandInv
<1>1. ASSUME NEW q \in RunIds, LaunchSteps(q)
      PROVE  launch'[r] = Free
  BY <1>0, <1>1, LaunchRuns DEF LaunchOnRuns, Free
<1> QED BY <1>0, <1>1, EverySteps, StandsApart, RowsOnRuns, EndRuns
        DEF handoverVars, Apart, EndOnRuns

\* The row of a run that has left it is not left again: it goes on to a claim
\* or to its disposal.
RowGoesOn(o) ==
  /\ resource'[o].handle \in {0, resource[o].handle}
  /\ resource[o].st # "available" =>
       /\ resource'[o].st # "available"
       /\ resource'[o].st = "claimed" => resource[o].st = "claimed" /\ resource'[o].by = resource[o].by
  /\ resource[o].st \in {"disposing", "none"} => resource'[o].st \in {"disposing", "none"}

\* Once a run's end has left its row, the row only goes on.
LEMMA RowsGoOn ==
  ASSUME HandInv, [HandoverNext]_handoverVars, NEW o \in RunIds, Made(o)
  PROVE  RowGoesOn(o)
<1>0. /\ HandoverTypes /\ RowsFit /\ RunsFit
      /\ NoRow.handle = 0 /\ NoRow.st = "none"
  BY DEF HandInv, NoRow
<1>1. CASE resource'[o] = resource[o]
  BY <1>1 DEF RowGoesOn
<1>2. CASE resource'[o] = NoRow
  BY <1>0, <1>2 DEF RowGoesOn
<1>3. CASE UNCHANGED handoverVars \/ ApartSteps
  BY <1>0, <1>1, <1>3, StandsApart DEF handoverVars, Apart
<1>4. CASE RowSteps
  BY <1>0, <1>1, <1>2, <1>4, RowsMove
     DEF ExpiresRow, TakesRow, ForgetsRow, Others, SameName, RowGoesOn
<1>5. ASSUME NEW r \in RunIds, EndSteps(r)
      PROVE  RowGoesOn(o)
  BY <1>0, <1>1, <1>2, <1>5, EndRowsMove DEF EndOnRows, Others, Made, Owed
<1>6. ASSUME NEW r \in RunIds, LaunchSteps(r)
      PROVE  RowGoesOn(o)
  <2>1. LaunchOnRows(r)
    BY <1>0, <1>6, HoldingHasRow, LaunchRowsMove
  <2>2. CASE LeavesRows(r) \/ FindsRow(r) \/ GoesPast(r)
    BY <1>1, <2>2 DEF LeavesRows, FindsRow, GoesPast
  <2>3. CASE ClaimsRow(r)
    BY <1>1, <2>3 DEF ClaimsRow, Others, RowGoesOn
  <2>4. CASE HoldsRow(r)
    BY <1>1, <2>4 DEF HoldsRow, Others, SameName, RowGoesOn
  <2>5. CASE MarksRow(r)
    BY <1>1, <2>5 DEF MarksRow, Others, SameName, RowGoesOn
  <2>6. CASE DropsRow(r)
    BY <1>1, <1>2, <2>6 DEF DropsRow, Others
  <2> QED BY <2>1, <2>2, <2>3, <2>4, <2>5, <2>6 DEF LaunchOnRows
<1> QED BY <1>3, <1>4, <1>5, <1>6, EverySteps

\* A handle whose disposal is won has no other owner, and gets none.
Taken(o, h) ==
  /\ resource[o].st \in {"disposing", "none"}
  /\ \A k \in Kinds, r \in RunIds : Owns(k, r, h) => (k = "row" /\ r = o)

\* No step gives a handle in disposal a new owner.
LEMMA TakenStays ==
  ASSUME HandInv, [HandoverNext]_handoverVars, NEW o \in RunIds, NEW h \in Handles,
         Made(o), session[h].st # "none", Taken(o, h)
  PROVE  Taken(o, h)'
<1>1. resource'[o].st \in {"disposing", "none"}
  BY RowsGoOn DEF Taken, RowGoesOn
<1>2. ASSUME NEW k \in Kinds, NEW r \in RunIds, Owns(k, r, h)'
      PROVE  k = "row" /\ r = o
  <2>1. CASE NoGain
    BY <1>2, <2>1 DEF NoGain, Taken
  <2>2. ASSUME NEW k0 \in Kinds, NEW r0 \in RunIds, NEW h0 \in Handles, Gain(k0, r0, h0)
        PROVE  k = "row" /\ r = o
    <3>1. CASE Owns(k, r, h)
      BY <3>1 DEF Taken
    <3>2. CASE ~Owns(k, r, h)
      <4>1. h = h0
        BY <1>2, <2>2, <3>2 DEF Gain
      <4>2. \A l \in Kinds, q \in RunIds :
              (Owns(l, q, h) /\ (l = "row" => resource[q].st = "claimed")) => FALSE
        BY DEF Taken
      <4> QED BY <2>2, <4>1, <4>2 DEF Gain
    <3> QED BY <3>1, <3>2
  <2> QED BY <2>1, <2>2, OwnersMove DEF OwnerMove
<1> QED BY <1>1, <1>2 DEF Taken

\* How a sweep goes on with what it may collect.
CollectOn(v) ==
  \/ sweep'[v] = Free
  \/ /\ sweep'[v].handle = sweep[v].handle /\ sweep'[v].users = sweep[v].users
     /\ \/ /\ sweep[v].pc = "protecting" /\ sweep'[v].pc \in {"protecting", "listing"}
           /\ sweep[v].keep => sweep'[v].keep
           /\ \/ sweep'[v].pc = "protecting" /\ "runs" \in sweep'[v].left
              \/ "runs" \notin sweep[v].left
              \/ Users(sweep[v].handle) # {} => sweep'[v].keep
        \/ sweep[v].pc = "listing" /\ ~sweep[v].keep /\ sweep'[v].pc \in Collecting
        \/ sweep[v].pc \in Collecting /\ sweep'[v].pc \in Collecting

\* A sweep that looks, lists and collects does what CollectOn says.
LEMMA CollectsMove ==
  ASSUME HandInv, NEW v \in Sweeps,
         \/ Protects(v) \/ Lists(v) \/ Judges(v) \/ CollectsVault(v) \/ CollectsSession(v)
         \/ MarksRun(v) \/ SweepFails(v)
  PROVE  CollectOn(v) /\ \A u \in Sweeps : u # v => sweep'[u] = sweep[u]
<1>0. sweep \in [Sweeps -> SweepRows]
  BY DEF HandInv, HandoverTypes
<1>1. sweep[v].pc \in {"protecting", "listing"} \cup Collecting => sweep[v] \in CollectRows
  BY <1>0, SweepTells
<1>2. \A u \in Sweeps : u # v => sweep'[u] = sweep[u]
  BY <1>0 DEF Protects, Lists, Judges, CollectsVault, CollectsSession, MarksRun, SweepFails, Then, Rests
<1>3. CASE Rests(v)
  BY <1>0, <1>2, <1>3 DEF Rests, CollectOn
<1>4. ASSUME NEW pc \in Collecting, sweep[v].pc \in Collecting, Then(v, pc)
      PROVE  CollectOn(v)
  <2> DEFINE x == [sweep[v] EXCEPT !.pc = pc]
  <2>1. x.pc = pc /\ x.handle = sweep[v].handle /\ x.users = sweep[v].users
    BY <1>1, <1>4, CollectGoes
  <2>2. sweep'[v] = x
    BY <1>0, <1>4 DEF Then
  <2> HIDE DEF x
  <2> QED BY <1>4, <2>1, <2>2 DEF CollectOn
<1>5. CASE Judges(v) \/ CollectsVault(v) \/ CollectsSession(v) \/ MarksRun(v) \/ SweepFails(v)
  BY <1>2, <1>3, <1>4, <1>5
     DEF Judges, CollectsVault, CollectsSession, MarksRun, SweepFails, Sweeping, Collecting
<1>6. CASE Lists(v) /\ ~Rests(v)
  <2> DEFINE s == sweep[v]
             of == IF s.kind = "session" THEN session[s.handle].tag ELSE s.of
             pc == IF s.kind = "run" THEN "deleting" ELSE "judging"
             x == [[s EXCEPT !.of = of] EXCEPT !.pc = pc]
  <2>1. s \in CollectRows /\ s.pc = "listing" /\ ~s.keep /\ pc \in Collecting
    BY <1>1, <1>6 DEF Lists, Sweeping, Collecting
  <2>2. sweep' = [sweep EXCEPT ![v] = x]
    BY <1>6 DEF Lists
  <2> HIDE DEF of, pc
  <2>3. x.pc = pc /\ x.handle = s.handle /\ x.users = s.users
    BY <2>1 DEF CollectRows
  <2>4. sweep'[v] = x
    BY <1>0, <2>2
  <2> HIDE DEF x
  <2> QED BY <1>2, <2>1, <2>3, <2>4 DEF CollectOn
<1>7. CASE Protects(v)
  <2> DEFINE s == sweep[v]
  <2>1. s \in CollectRows /\ s.pc = "protecting"
    BY <1>1, <1>7 DEF Protects, Sweeping
  <2>2. PICK read \in s.left :
          sweep' = [sweep EXCEPT
           ![v].keep = @ \/ (IF read = "rows" THEN Retained(s.handle) ELSE InUse(s.handle)),
           ![v].left = @ \ {read},
           ![v].pc = IF s.left = {read} THEN "listing" ELSE @]
    BY <1>7 DEF Protects
  <2> DEFINE keep == s.keep \/ (IF read = "rows" THEN Retained(s.handle) ELSE InUse(s.handle))
             left == s.left \ {read}
             pc == IF s.left = {read} THEN "listing" ELSE s.pc
             x == [[[s EXCEPT !.keep = keep] EXCEPT !.left = left] EXCEPT !.pc = pc]
  <2>3. /\ s.keep => keep
        /\ pc \in {"protecting", "listing"}
        /\ \/ pc = "protecting" /\ "runs" \in left
           \/ "runs" \notin s.left
           \/ Users(s.handle) # {} => keep
    <3>1. s.left \in SUBSET {"rows", "runs"}
      BY <2>1 DEF CollectRows
    <3>2. s.keep => keep
      OBVIOUS
    <3>3. CASE read = "rows"
      BY <2>1, <3>1, <3>2, <3>3
    <3>4. CASE read = "runs"
      BY <2>1, <3>2, <3>4 DEF InUse
    <3> QED BY <3>1, <3>3, <3>4
  <2>4. sweep' = [sweep EXCEPT ![v] = x]
    BY <2>2
  <2> HIDE DEF keep, left, pc
  <2>5. x.pc = pc /\ x.handle = s.handle /\ x.users = s.users /\ x.left = left
    BY <2>1 DEF CollectRows
  <2>6. x.keep = keep
    BY <2>1 DEF CollectRows
  <2>7. sweep'[v] = x
    BY <1>0, <2>4
  <2> HIDE DEF x
  <2> QED BY <1>2, <2>1, <2>3, <2>5, <2>6, <2>7 DEF CollectOn
<1>8. CASE Lists(v) /\ Rests(v)
  BY <1>2, <1>3, <1>8
<1> QED BY <1>2, <1>3, <1>5, <1>6, <1>7, <1>8

\* What is no sweep's step.
Unswept ==
  \/ UNCHANGED handoverVars
  \/ \E r \in RunIds : \/ LaunchSteps(r) \/ EndSteps(r) \/ Interrupts(r) \/ Flags(r) \/ LetsSessionGo(r)
                       \/ LetsVaultGo(r) \/ MarksCollected(r) \/ EnderDies(r) \/ Expires(r)

\* No other step touches what a sweep holds.
LEMMA OthersLeaveSweeps ==
  ASSUME Unswept
  PROVE  UNCHANGED sweep
<1>1. ASSUME NEW r \in RunIds, LaunchSteps(r)
      PROVE  UNCHANGED sweep
  BY <1>1 DEF LaunchSteps, LaunchGoesOn, LaunchBegins, FindsPredecessor, FindsResource,
             ClaimsResource, RotatesKey, Retags, MarksSending, AbandonsTransfer, Sends, Delivered,
             AcceptsTransfer, DropsResource, ReleasesPredecessor, MakesVault, MakesSession, RecordsLaunch,
             LaunchThrows, LaunchDies, EndsUnlaunched
<1>2. ASSUME NEW r \in RunIds, EndSteps(r)
      PROVE  UNCHANGED sweep
  BY <1>2 DEF EndSteps, EndsPlainly, EndsByPoll, Supersedes, Retains, Finalizes
<1>3. ASSUME NEW r \in RunIds,
             \/ Interrupts(r) \/ Flags(r) \/ LetsSessionGo(r) \/ LetsVaultGo(r)
             \/ MarksCollected(r) \/ EnderDies(r) \/ Expires(r)
      PROVE  UNCHANGED sweep
  BY <1>3 DEF Interrupts, Flags, LetsSessionGo, LetsVaultGo, MarksCollected, EnderDies, Expires, Finalizes
<1> QED BY <1>1, <1>2, <1>3 DEF Unswept, handoverVars

\* A disposal under way goes from one call to the next.
LEMMA DisposalsHop ==
  ASSUME HandInv, NEW v \in Sweeps, NEW pc \in {"taking"} \cup Disposing,
         sweep[v].pc \in {"taking"} \cup Disposing, Then(v, pc)
  PROVE  /\ sweep'[v].pc = pc /\ sweep'[v].owner = sweep[v].owner
         /\ sweep'[v].handle = sweep[v].handle /\ sweep[v].handle \in Handles
         /\ \A u \in Sweeps : u # v => sweep'[u] = sweep[u]
<1>0. sweep \in [Sweeps -> SweepRows] /\ sweep[v] \in DisposalRows
  BY SweepTells DEF HandInv, HandoverTypes
<1> DEFINE x == [sweep[v] EXCEPT !.pc = pc]
<1>1. x.pc = pc /\ x.owner = sweep[v].owner /\ x.handle = sweep[v].handle
  BY <1>0, DisposalGoes
<1>2. sweep' = [sweep EXCEPT ![v] = x]
  BY <1>0 DEF Then
<1> HIDE DEF x
<1>3. sweep'[v] = x /\ \A u \in Sweeps : u # v => sweep'[u] = sweep[u]
  BY <1>0, <1>2
<1> QED BY <1>0, <1>1, <1>3 DEF DisposalRows

\* What a sweep's own step does.
SweepOwn(w) ==
  \/ \E o \in RunIds : DisposalLists(w, o)
  \/ \E kind \in {"run", "vault", "session"}, h \in Handles, r \in RunIds : Looks(w, kind, h, r)
  \/ sweep[w].owner \in RunIds /\ (TakesRow(w) \/ ForgetsRow(w))
  \/ /\ sweep[w].pc \in {"dismantling", "emptying"} /\ sweep'[w].pc \in {"emptying", "forgetting"}
     /\ sweep'[w].owner = sweep[w].owner /\ sweep'[w].handle = sweep[w].handle
     /\ sweep[w].pc = "dismantling" => ~Live(sweep[w].handle)'
  \/ CollectOn(w)

\* A sweep stays, begins, or goes on by its own step.
LEMMA EverySweep ==
  ASSUME HandInv, [HandoverNext]_handoverVars, NEW w \in Sweeps
  PROVE  sweep'[w] = sweep[w] \/ SweepOwn(w)
<1>0. HandoverTypes /\ RunsFit
  BY DEF HandInv
<1>1. CASE Unswept
  BY <1>1, OthersLeaveSweeps
<1>2. ASSUME NEW v \in Sweeps,
             \/ \E o \in RunIds : DisposalLists(v, o)
             \/ \E kind \in {"run", "vault", "session"}, h \in Handles, r \in RunIds : Looks(v, kind, h, r)
      PROVE  sweep'[w] = sweep[w] \/ SweepOwn(w)
  <2>1. v # w => sweep'[w] = sweep[w]
    BY <1>0, <1>2 DEF DisposalLists, Looks, HandoverTypes
  <2> QED BY <1>2, <2>1 DEF SweepOwn
<1>3. CASE \E v \in Sweeps : DisposalTakes(v) \/ DisposalForgets(v)
  <2>1. PICK v \in Sweeps : DisposalTakes(v) \/ DisposalForgets(v)
    BY <1>3
  <2>2. sweep[v].owner \in RunIds /\ (TakesRow(v) \/ ForgetsRow(v))
    BY <1>0, <2>1, DisposalTells
  <2> QED BY <2>2 DEF TakesRow, ForgetsRow, SweepOwn
<1>4. ASSUME NEW v \in Sweeps, DisposalArchives(v) \/ DisposalDeletes(v)
      PROVE  sweep'[w] = sweep[w] \/ SweepOwn(w)
  <2>1. /\ sweep[v].pc \in {"dismantling", "emptying"} /\ sweep'[v].pc \in {"emptying", "forgetting"}
        /\ sweep'[v].owner = sweep[v].owner /\ sweep'[v].handle = sweep[v].handle
        /\ sweep[v].handle \in Handles
        /\ \A u \in Sweeps : u # v => sweep'[u] = sweep[u]
    BY <1>4, DisposalsHop DEF DisposalArchives, DisposalDeletes, Sweeping, Disposing
  <2>2. PICK h : h = sweep[v].handle
    OBVIOUS
  <2>3. DisposalArchives(v) => session'[h].st # "live"
    BY <1>0, <2>1, <2>2 DEF DisposalArchives, Sweeping, Archived, HandoverTypes, SessionRows
  <2>4. sweep[v].pc = "dismantling" => ~Live(sweep[v].handle)'
    BY <1>4, <2>1, <2>2, <2>3 DEF Live, DisposalDeletes, Sweeping
  <2> QED BY <2>1, <2>4 DEF SweepOwn
<1>5. ASSUME NEW v \in Sweeps,
             \/ Protects(v) \/ Lists(v) \/ Judges(v) \/ CollectsVault(v) \/ CollectsSession(v)
             \/ MarksRun(v) \/ SweepFails(v)
      PROVE  sweep'[w] = sweep[w] \/ SweepOwn(w)
  <2>1. CollectOn(v) /\ \A u \in Sweeps : u # v => sweep'[u] = sweep[u]
    BY <1>5, CollectsMove
  <2> QED BY <2>1 DEF SweepOwn
<1> QED BY <1>1, <1>2, <1>3, <1>4, <1>5, EverySteps DEF ApartSteps, RowSteps, Unswept

\* How a sweep comes to have, and goes on with, a disposal.
DisposalOn(w) ==
  \/ sweep'[w] = sweep[w]
  \/ sweep'[w].pc \notin {"taking"} \cup Disposing
  \/ \E o \in RunIds : DisposalLists(w, o)
  \/ TakesRow(w) /\ sweep[w].owner \in RunIds
  \/ /\ sweep[w].pc \in {"dismantling", "emptying"} /\ sweep'[w].pc \in {"emptying", "forgetting"}
     /\ sweep'[w].owner = sweep[w].owner /\ sweep'[w].handle = sweep[w].handle
     /\ sweep[w].pc = "dismantling" => ~Live(sweep[w].handle)'

\* Every step does to a disposal what DisposalOn says.
LEMMA DisposalsMove ==
  ASSUME HandInv, [HandoverNext]_handoverVars, NEW w \in Sweeps
  PROVE  DisposalOn(w)
<1>1. CASE CollectOn(w)
  BY <1>1 DEF CollectOn, DisposalOn, Collecting, Disposing, Free
<1>2. CASE \E kind \in {"run", "vault", "session"}, h \in Handles, r \in RunIds : Looks(w, kind, h, r)
  BY <1>2 DEF HandInv, HandoverTypes, Looks, DisposalOn, Disposing
<1>3. CASE ForgetsRow(w)
  BY <1>3 DEF ForgetsRow, DisposalOn, Free, Disposing
<1> QED BY <1>1, <1>2, <1>3, EverySweep DEF SweepOwn, DisposalOn

\* What a disposal rests on survives every step.
LEMMA DisposalsKeep ==
  ASSUME HandInv, [HandoverNext]_handoverVars, NEW o \in RunIds, NEW h \in Handles,
         Made(o), resource[o].handle \in {0, h}, session[h].st # "none"
  PROVE  /\ Made(o)' /\ resource'[o].handle \in {0, h} /\ session'[h].st # "none"
         /\ resource[o].st # "available" =>
              /\ resource'[o].st # "available"
              /\ (resource[o].st = "claimed" => launch[resource[o].by] = Free) =>
                 (resource'[o].st = "claimed" => launch'[resource'[o].by] = Free)
         /\ Taken(o, h) => Taken(o, h)'
<1>1. RowGoesOn(o) /\ Made(o)' /\ session'[h].st # "none"
  BY RowsGoOn, MadeStays, SessionsStay
<1>2. resource[o] \in ResourceRows
  BY DEF HandInv, HandoverTypes
<1>3. resource[o].st = "claimed" => resource[o].by \in RunIds /\ run[resource[o].by].st # "unused"
  BY <1>2 DEF HandInv, RowsFit, ResourceRows
<1>4. ASSUME resource[o].st = "claimed", launch[resource[o].by] = Free
      PROVE  launch'[resource[o].by] = Free
  BY <1>3, <1>4, FreeStays
<1> QED BY <1>1, <1>4, TakenStays DEF RowGoesOn

\* A disposal's row stays the one it listed, and nobody else gets its handle.
LEMMA DisposalsStayFit ==
  ASSUME HandInv, [HandoverNext]_handoverVars
  PROVE  DisposalsFit'
<1>0. /\ HandoverTypes /\ RunsFit /\ RowsFit /\ OwnedExist /\ DisposalsFit
      /\ \A o \in RunIds : resource[o].st = "none" <=> resource[o].handle = 0
  BY DEF HandInv, HandoverTypes
<1> SUFFICES ASSUME NEW w \in Sweeps, sweep'[w].pc \in {"taking"} \cup Disposing
             PROVE  /\ Made(sweep[w].owner)'
                    /\ resource'[sweep'[w].owner].handle \in {0, sweep'[w].handle}
                    /\ session'[sweep'[w].handle].st # "none"
                    /\ (sweep'[w].pc = "taking" /\ sweep'[w].st = "claimed") =>
                         resource'[sweep'[w].owner].st # "available"
                    /\ (sweep'[w].pc = "taking" /\ sweep'[w].st = "claimed"
                          /\ resource'[sweep'[w].owner].st = "claimed") =>
                         launch'[resource'[sweep'[w].owner].by] = Free
                    /\ sweep'[w].pc \in Disposing => Taken(sweep[w].owner, sweep[w].handle)'
                    /\ sweep'[w].pc \in {"emptying", "forgetting"} => ~Live(sweep[w].handle)'
  BY DEF DisposalsFit, Taken, Disposing
<1>1. PICK o, h : o = sweep'[w].owner /\ h = sweep'[w].handle
  OBVIOUS
<1> SUFFICES /\ Made(o)' /\ resource'[o].handle \in {0, h} /\ session'[h].st # "none"
             /\ (sweep'[w].pc = "taking" /\ sweep'[w].st = "claimed") =>
                  /\ resource'[o].st # "available"
                  /\ resource'[o].st = "claimed" => launch'[resource'[o].by] = Free
             /\ sweep'[w].pc \in Disposing => Taken(o, h)'
             /\ sweep'[w].pc \in {"emptying", "forgetting"} => session'[h].st # "live"
  BY <1>1 DEF Made, Taken, Owns, Live
\* A disposal that was under way.
<1>2. ASSUME sweep[w].pc \in {"taking"} \cup Disposing, sweep[w].owner = o, sweep[w].handle = h
      PROVE  /\ o \in RunIds /\ h \in Handles
             /\ Made(o)' /\ resource'[o].handle \in {0, h} /\ session'[h].st # "none"
             /\ (sweep[w].pc = "taking" /\ sweep[w].st = "claimed") =>
                  /\ resource'[o].st # "available"
                  /\ resource'[o].st = "claimed" => launch'[resource'[o].by] = Free
             /\ sweep[w].pc \in Disposing => Taken(o, h)'
             /\ sweep[w].pc \in {"emptying", "forgetting"} => session'[h].st # "live"
  <2>1. sweep[w] \in DisposalRows
    BY <1>0, <1>2, SweepTells DEF HandoverTypes
  <2>2. o \in RunIds /\ h \in Handles
    BY <1>2, <2>1 DEF DisposalRows
  <2>3. /\ Made(o) /\ resource[o].handle \in {0, h} /\ session[h].st # "none"
        /\ (sweep[w].pc = "taking" /\ sweep[w].st = "claimed") =>
             /\ resource[o].st # "available"
             /\ resource[o].st = "claimed" => launch[resource[o].by] = Free
        /\ sweep[w].pc \in Disposing => Taken(o, h)
        /\ sweep[w].pc \in {"emptying", "forgetting"} => ~Live(h)
    BY <1>0, <1>2 DEF DisposalsFit, Taken
  <2>4. ~Live(h) => session'[h].st # "live"
    BY <2>2, <2>3, DeadStays
  <2> QED BY <2>2, <2>3, <2>4, DisposalsKeep
<1>3. CASE sweep'[w] = sweep[w]
  BY <1>1, <1>2, <1>3
<1>4. ASSUME NEW p \in RunIds, DisposalLists(w, p)
      PROVE  /\ Made(o)' /\ resource'[o].handle \in {0, h} /\ session'[h].st # "none"
             /\ (sweep'[w].pc = "taking" /\ sweep'[w].st = "claimed") =>
                  /\ resource'[o].st # "available"
                  /\ resource'[o].st = "claimed" => launch'[resource'[o].by] = Free
             /\ sweep'[w].pc \in Disposing => Taken(o, h)'
             /\ sweep'[w].pc \in {"emptying", "forgetting"} => session'[h].st # "live"
  <2>1. sweep'[w] = [pc |-> "taking", owner |-> p, st |-> resource[p].st, handle |-> resource[p].handle]
    BY <1>0, <1>4 DEF DisposalLists, HandoverTypes
  <2>2. o = p /\ h = resource[p].handle /\ sweep'[w].pc = "taking" /\ sweep'[w].st = resource[p].st
    BY <1>1, <2>1
  <2>3. Disposable(p) /\ resource[p].st # "none" /\ h \in Handles
    BY <1>0, <1>4, <2>2 DEF DisposalLists, Disposable, HandoverTypes, ResourceRows
  <2>4. Made(p) /\ session[h].st # "none"
    BY <1>0, <2>2, <2>3 DEF RowsFit, OwnedExist, Owns, Kinds
  <2>5. resource[p].st = "claimed" => launch[resource[p].by] = Free
    BY <2>3 DEF Disposable, Stale
  <2>6. UNCHANGED <<run, resource, provider, launch, ender>>
    BY <1>4 DEF DisposalLists
  <2> QED BY <2>2, <2>3, <2>4, <2>5, <2>6 DEF Made, provider, Disposing
<1>5. ASSUME TakesRow(w), sweep[w].owner \in RunIds
      PROVE  /\ Made(o)' /\ resource'[o].handle \in {0, h} /\ session'[h].st # "none"
             /\ sweep'[w].pc = "dismantling" /\ Taken(o, h)'
  <2>1. sweep[w].owner = o /\ sweep[w].handle = h /\ sweep'[w].pc = "dismantling"
        /\ resource[o].st = sweep[w].st /\ SameName(o) /\ resource'[o].st = "disposing"
    BY <1>1, <1>5 DEF TakesRow, Free, Disposing
  <2>2. sweep[w].pc = "taking" /\ sweep[w] \in DisposalRows
    BY <1>0, <1>5, SweepTells DEF TakesRow, HandoverTypes
  <2>3. /\ o \in RunIds /\ h \in Handles
        /\ Made(o)' /\ resource'[o].handle \in {0, h} /\ session'[h].st # "none"
    BY <1>2, <2>1, <2>2
  <2>4. resource[o].handle # 0
    BY <1>0, <2>1, <2>2, <2>3 DEF DisposalRows
  <2>5. Owns("row", o, h)'
    BY <2>1, <2>3, <2>4 DEF Owns, SameName
  <2>6. Taken(o, h)'
    BY <2>1, <2>3, <2>5, OwnersStayOne DEF Taken, OneOwner, Kinds
  <2> QED BY <2>1, <2>3, <2>6
<1>6. CASE /\ sweep[w].pc \in {"dismantling", "emptying"} /\ sweep'[w].pc \in {"emptying", "forgetting"}
           /\ sweep'[w].owner = sweep[w].owner /\ sweep'[w].handle = sweep[w].handle
           /\ sweep[w].pc = "dismantling" => ~Live(sweep[w].handle)'
  BY <1>1, <1>2, <1>6 DEF Live, Disposing
<1> QED BY <1>3, <1>4, <1>5, <1>6, DisposalsMove DEF DisposalOn

-----------------------------------------------------------------------------
(* Tags *)

\* A launch that has taken a handle over, or made it, records it, or its run
\* is over, or on its way to its end.
LEMMA PastStaysTagged ==
  ASSUME HandInv, [HandoverNext]_handoverVars, NEW t \in RunIds, NEW h \in Handles,
         launch[t].pc \in Past, launch[t].handle = h
  PROVE  TagHeld(h, t)'
<1>0. HandoverTypes /\ RunsFit
  BY DEF HandInv
<1>1. launch[t] # Free /\ run[t].handle = 0 /\ run[t].st \in {"launching", "ended"}
  BY LaunchingIs DEF Free, Past
<1>2. run[t].st = "ended" => TagHeld(h, t)'
  BY MadeStays DEF TagHeld
<1>3. CASE launch'[t] = launch[t]
  BY <1>3 DEF TagHeld
<1>4. ASSUME LaunchSteps(t), launch'[t] # launch[t]
      PROVE  TagHeld(h, t)'
  <2>1. LaunchOnRuns(t)
    BY <1>0, <1>4, LaunchRuns
  <2>2. ReleasesPredecessor(t) \/ RecordsLaunch(t) \/ LaunchThrows(t) \/ LaunchDies(t)
    BY <1>1, <1>4
       DEF LaunchSteps, LaunchGoesOn, LaunchBegins, FindsPredecessor, FindsResource,
             ClaimsResource, RotatesKey, Retags, MarksSending, AbandonsTransfer, Sends, Delivered,
             AcceptsTransfer, DropsResource, MakesVault, MakesSession, EndsUnlaunched, At, Past
  <2>3. CASE ReleasesPredecessor(t)
    <3>1. Hop(t, {"releasing"}, "recording")
      BY <1>0, <2>3, Hops DEF ReleasesPredecessor, At, Past
    <3> QED BY <3>1 DEF Hop, TagHeld, Past
  <2>4. CASE launch'[t] = Free
    BY <1>1, <1>2, <2>1, <2>4 DEF LaunchOnRuns, TagHeld, Free
  <2> QED BY <1>0, <2>2, <2>3, <2>4 DEF RecordsLaunch, LaunchThrows, LaunchDies, HandoverTypes
<1> QED BY <1>0, <1>3, <1>4, EverySteps, StandsApart, RowsOnRuns, EndRuns, LaunchRuns
        DEF handoverVars, Apart, EndOnRuns, LaunchOnRuns

\* A run whose launch is over before it ends goes on launching until it ends.
LEMMA DeadStaysTagged ==
  ASSUME HandInv, [HandoverNext]_handoverVars, NEW t \in RunIds, NEW h \in Handles,
         launch[t] = Free, run[t].st = "launching"
  PROVE  TagHeld(h, t)'
<1>0. HandoverTypes /\ RunsFit
  BY DEF HandInv
<1>1. launch'[t] = Free
  BY FreeStays
<1>2. run'[t].st \in {"launching", "ended"}
  <2>1. ASSUME NEW r \in RunIds, LaunchSteps(r)
        PROVE  run'[t].st \in {"launching", "ended"}
    BY <1>0, <2>1, LaunchRuns DEF LaunchOnRuns, Free
  <2>2. ASSUME NEW r \in RunIds, EndSteps(r)
        PROVE  run'[t].st \in {"launching", "ended"}
    BY <1>0, <2>2, EndRuns DEF EndOnRuns
  <2> QED BY <1>0, <2>1, <2>2, EverySteps, StandsApart, RowsOnRuns DEF handoverVars, Apart
<1> QED BY <1>1, <1>2 DEF TagHeld

\* The row a run claimed and has not accepted, or is about to drop.
TagRow(o, h, t) ==
  /\ resource[o].handle = h /\ resource[o].by = t
  /\ resource[o].st \in {"claimed", "disposing"}
  /\ \/ resource[o].phase # "accepted"
     \/ launch[t].pc = "dropping" /\ launch[t].pred = o

\* A row with its claimer's tag stays, or its claimer takes the handle over,
\* or is over.
LEMMA RowStaysTagged ==
  ASSUME HandInv, [HandoverNext]_handoverVars, NEW t \in RunIds, NEW h \in Handles, NEW o \in RunIds,
         TagRow(o, h, t), Live(h)
  PROVE  TagHeld(h, t)'
<1>0. /\ HandoverTypes /\ RowsFit /\ RunsFit /\ TransfersFit /\ OneOwner /\ DisposalsFit
      /\ 0 \notin Handles
  BY HandoverAssumption DEF HandInv, Handles, RunIds
<1>1. TagRow(o, h, t)' => TagHeld(h, t)'
  BY DEF TagRow, TagHeld
<1>2. CASE resource'[o] = resource[o] /\ launch'[t] = launch[t]
  BY <1>1, <1>2 DEF TagRow
<1>3. CASE UNCHANGED handoverVars \/ ApartSteps
  BY <1>0, <1>2, <1>3, StandsApart DEF handoverVars, Apart
<1>4. CASE RowSteps
  <2>0. UNCHANGED launch
    BY <1>4, RowsOnRuns
  <2>1. ASSUME NEW p \in RunIds, ExpiresRow(p)
        PROVE  TagRow(o, h, t)'
    BY <2>0, <2>1 DEF ExpiresRow, Others, SameName, TagRow
  <2>2. ASSUME NEW w \in Sweeps, TakesRow(w)
        PROVE  TagRow(o, h, t)'
    BY <2>0, <2>2 DEF TakesRow, Others, SameName, TagRow
  <2>3. ASSUME NEW w \in Sweeps, ForgetsRow(w)
        PROVE  resource'[o] = resource[o]
    <3>1. CASE sweep[w].owner = o
      <4>1. resource[o].handle \in {0, sweep[w].handle} /\ ~Live(sweep[w].handle)
        BY <1>0, <2>3, <3>1 DEF ForgetsRow, DisposalsFit, Disposing
      <4> QED BY <1>0, <4>1 DEF TagRow
    <3>2. CASE sweep[w].owner # o
      BY <2>3, <3>2 DEF ForgetsRow, Others
    <3> QED BY <3>1, <3>2
  <2> QED BY <1>0, <1>1, <1>2, <1>4, <2>0, <2>1, <2>2, <2>3, RowsMove
<1>5. ASSUME NEW r \in RunIds, EndSteps(r)
      PROVE  resource'[o] = resource[o] /\ launch'[t] = launch[t]
  <2>1. EndOnRows(r) /\ UNCHANGED launch
    BY <1>0, <1>5, EndRowsMove, EndRuns DEF EndOnRuns
  <2>2. resource[o].st # "none" /\ Made(o)
    BY <1>0 DEF TagRow, RowsFit
  <2>3. CASE ender[r].pc = "superseding"
    <3>1. run[r].handle = h => Owns("end", r, h) /\ Owns("row", o, h)
      BY <2>3 DEF Owns, Owed, TagRow
    <3>2. run[r].handle # h
      BY <1>0, <3>1 DEF OneOwner, Kinds
    <3> QED BY <2>1, <2>3, <3>2 DEF EndOnRows, TagRow
  <2>4. CASE ender[r].pc = "retaining"
    BY <2>1, <2>2, <2>4 DEF EndOnRows, Others, Made, Owed
  <2> QED BY <2>1, <2>3, <2>4 DEF EndOnRows
<1>6. ASSUME NEW r \in RunIds, LaunchSteps(r), r # t
      PROVE  resource'[o] = resource[o] /\ launch'[t] = launch[t]
  <2>1. launch'[t] = launch[t] /\ LaunchOnRows(r)
    BY <1>0, <1>6, LaunchRuns, HoldingHasRow, LaunchRowsMove DEF LaunchOnRuns
  <2>2. launch[r].pc \in Holding => launch[r].pred # o
    BY <1>0, <1>6 DEF TransfersFit, TagRow
  <2> QED BY <2>1, <2>2, SMTT(30)
          DEF LaunchOnRows, LeavesRows, FindsRow, ClaimsRow, HoldsRow, MarksRow, DropsRow, GoesPast,
              Others, Hop, Steps, Holding, Untold, TagRow
<1>7. ASSUME LaunchSteps(t), launch[t].pc # "dropping"
      PROVE  TagHeld(h, t)'
  <2>1. LaunchOnRows(t)
    BY <1>0, <1>7, HoldingHasRow, LaunchRowsMove
  <2>2. resource[o].phase # "accepted"
    BY <1>7 DEF TagRow
  <2>3. CASE resource'[o] = resource[o]
    BY <1>1, <2>2, <2>3 DEF TagRow
  <2>4. CASE LeavesRows(t) \/ FindsRow(t) \/ GoesPast(t)
    BY <2>3, <2>4 DEF LeavesRows, FindsRow, GoesPast
  <2>5. CASE ClaimsRow(t)
    BY <2>3, <2>5 DEF ClaimsRow, Others, TagRow
  <2>6. CASE HoldsRow(t)
    <3>1. CASE launch[t].pred # o
      BY <2>3, <2>6, <3>1 DEF HoldsRow, Others
    <3>2. CASE launch[t].pred = o
      <4>1. SameName(o) /\ resource'[o].st = resource[o].st
        BY <2>6, <3>2 DEF HoldsRow
      <4>2. resource'[o].phase # "accepted" \/ (launch'[t].pc = "dropping" /\ launch'[t].pred = o)
        BY <2>2, <2>6, <3>2 DEF HoldsRow, Hop
      <4> QED BY <1>1, <4>1, <4>2 DEF TagRow, SameName
    <3> QED BY <3>1, <3>2
  <2>7. CASE MarksRow(t)
    <3>1. CASE launch[t].pred # o
      BY <2>3, <2>7, <3>1 DEF MarksRow, Others
    <3>2. CASE launch[t].pred = o
      BY <1>1, <2>2, <2>7, <3>2 DEF MarksRow, SameName, TagRow
    <3> QED BY <3>1, <3>2
  <2> QED BY <1>7, <2>1, <2>4, <2>5, <2>6, <2>7 DEF LaunchOnRows, DropsRow, Hop
<1>8. ASSUME LaunchSteps(t), launch[t].pc = "dropping"
      PROVE  TagHeld(h, t)'
  <2>1. LaunchOnRuns(t) /\ LaunchOnRows(t)
    BY <1>0, <1>8, LaunchRuns, HoldingHasRow, LaunchRowsMove DEF Holding
  <2>2. launch[t] # Free /\ run[t].handle = 0 /\ run[t].st \in {"launching", "ended"}
    BY <1>8, LaunchingIs DEF Free
  <2>3. DropsResource(t) \/ LaunchThrows(t) \/ LaunchDies(t) \/ EndsUnlaunched(t)
    BY <1>8, <2>2
       DEF LaunchSteps, LaunchGoesOn, LaunchBegins, FindsPredecessor, FindsResource,
             ClaimsResource, RotatesKey, Retags, MarksSending, AbandonsTransfer, Sends, Delivered,
             AcceptsTransfer, ReleasesPredecessor, RecordsLaunch, MakesVault, MakesSession, At
  <2>4. CASE DropsResource(t)
    <3>1. Hop(t, {"dropping"}, "releasing")
      BY <1>0, <2>4, Hops DEF DropsResource, At, Holding, Past
    <3>2. CASE launch[t].pred = o
      <4>1. launch[t].handle = h
        BY <1>0, <1>8, <3>2 DEF TransfersFit, Holding, TagRow
      <4> QED BY <3>1, <4>1 DEF Hop, TagHeld, Past
    <3>3. CASE launch[t].pred # o
      <4>1. resource'[o] = resource[o]
        BY <1>0, <2>4, <3>3 DEF DropsResource, HandoverTypes
      <4> QED BY <1>1, <3>3, <4>1 DEF TagRow
    <3> QED BY <3>2, <3>3
  <2>5. CASE launch'[t] = Free
    <3>1. run'[t].st \in {"launching", "ended"}
      BY <1>8, <2>1, <2>2, <2>5 DEF LaunchOnRuns
    <3> QED BY <2>5, <3>1 DEF TagHeld
  <2>6. CASE EndsUnlaunched(t)
    BY <1>2, <2>6 DEF EndsUnlaunched
  <2> QED BY <1>0, <2>3, <2>4, <2>5, <2>6 DEF LaunchThrows, LaunchDies, HandoverTypes
<1> QED BY <1>2, <1>3, <1>4, <1>5, <1>6, <1>7, <1>8, EverySteps

\* Tags stay accounted for.
LEMMA TagsStayFit ==
  ASSUME HandInv, [HandoverNext]_handoverVars
  PROVE  TagsFit'
<1>0. HandoverTypes /\ TagsFit
  BY DEF HandInv
<1> SUFFICES ASSUME NEW h \in Handles, session'[h].st = "live"
             PROVE  TagHeld(h, session[h].tag)'
  BY DEF TagsFit, Live
<1> PICK t : t = session'[h].tag
  OBVIOUS
<1> SUFFICES TagHeld(h, t)'
  BY DEF TagHeld
<1>1. ASSUME Live(h), session[h].tag = t
      PROVE  TagHeld(h, t)'
  <2>1. t \in RunIds
    BY <1>0, <1>1 DEF HandoverTypes, SessionRows
  <2>2. TagHeld(h, t)
    BY <1>0, <1>1 DEF TagsFit
  <2>3. CASE run[t].st = "ended" \/ run[t].handle = h
    <3>1. h # 0
      BY HandoverAssumption DEF Handles, RunIds
    <3> QED BY <2>1, <2>3, <3>1, MadeStays DEF TagHeld
  <2>4. CASE launch[t].pc \in Past /\ launch[t].handle = h
    BY <2>1, <2>4, PastStaysTagged
  <2>5. CASE launch[t] = Free /\ run[t].st = "launching"
    BY <2>1, <2>5, DeadStaysTagged
  <2>6. ASSUME NEW o \in RunIds, TagRow(o, h, t)
        PROVE  TagHeld(h, t)'
    BY <1>1, <2>1, <2>6, RowStaysTagged
  <2> QED BY <2>2, <2>3, <2>4, <2>5, <2>6 DEF TagHeld, TagRow
<1>2. CASE Wane
  BY <1>1, <1>2 DEF Wane, Live
<1>3. ASSUME NEW r \in RunIds, LaunchOnProvider(r)
      PROVE  TagHeld(h, t)'
  <2>1. CASE Tags(r) /\ launch[r].handle = h
    <3>1. /\ launch'[r].pc = "marking" /\ launch'[r].handle = h /\ launch'[r].pred \in RunIds
          /\ t = r
      BY <2>1 DEF Tags, Hop
    <3>2. TransfersFit'
      BY TransfersStayFit
    <3>3. PICK o \in RunIds : o = launch'[r].pred
      BY <3>1
    <3>4. /\ resource'[o].st = "claimed" /\ resource'[o].by = t /\ resource'[o].handle = h
          /\ resource'[o].phase = "preparing"
      BY <3>1, <3>2, <3>3 DEF TransfersFit, Holding, Untold
    <3> QED BY <3>4 DEF TagHeld
  <2>2. CASE BearsSession(r) /\ r = h
    BY <2>2 DEF BearsSession, TagHeld, Past
  <2>3. CASE \/ TurnsKey(r) \/ BearsVault(r) \/ Speaks(r)
             \/ Tags(r) /\ launch[r].handle # h
             \/ BearsSession(r) /\ r # h
    BY <1>1, <2>3 DEF TurnsKey, BearsVault, Speaks, Tags, BearsSession, OtherSessions, Live
  <2> QED BY <1>2, <1>3, <2>1, <2>2, <2>3 DEF LaunchOnProvider
<1> QED BY <1>2, <1>3, EveryProvider

-----------------------------------------------------------------------------
(* The theorems *)

\* The invariant holds at first.
LEMMA HandInit ==
  ASSUME HandoverInit
  PROVE  HandInv
<1>1. /\ HandoverTypes /\ RunsFit
  BY DEF HandoverInit, HandoverTypes, RunsFit, NewRun, NoRow, NoSession, NoVault, Free, RunRows,
         ResourceRows, SessionRows, VaultRows, LaunchRows, EnderRows, SweepRows, Live
<1>2. RowsFit /\ TransfersFit /\ KeysFit /\ DisposalsFit
  BY DEF HandoverInit, RowsFit, TransfersFit, KeysFit, DisposalsFit, NoRow, Free, Holding, Untold,
         Disposing
<1>3. \A k \in Kinds, r \in RunIds, h \in Handles : ~Owns(k, r, h)
  BY HandoverAssumption DEF HandoverInit, Owns, NewRun, NoRow, Free, Owed, Past, Handles, RunIds
<1>4. OneOwner /\ OwnedExist
  BY <1>3 DEF OneOwner, OwnedExist
<1>5. BirthsFit /\ TagsFit
  BY DEF HandoverInit, BirthsFit, TagsFit, NoSession, NoVault, Live, Free, Handles
<1> QED BY <1>1, <1>2, <1>4, <1>5 DEF HandInv

\* Hand-overs from any state in which the invariant holds, as from the first.
FitSpec == HandInv /\ [][HandoverNext]_handoverVars

LEMMA HandoversFit == HandoverSpec => FitSpec
BY HandInit, PTL DEF HandoverSpec, FitSpec

\* The invariant holds in every reachable state.
LEMMA HandInvariant == FitSpec => []HandInv
<1>1. ASSUME HandInv, [HandoverNext]_handoverVars
      PROVE  HandInv'
  BY <1>1, NextTypes, RunsStayFit, RowsStayFit, TransfersStayFit, OwnersStayOne, BirthsStayFit,
     KeysStayFit, DisposalsStayFit, TagsStayFit DEF HandInv
<1> QED BY <1>1, PTL DEF FitSpec

LEMMA FitTypes == FitSpec => []HandoverTypeOK
<1>1. HandInv => HandoverTypeOK
  BY DEF HandInv, HandoverTypes, RunsFit, HandoverTypeOK, RunRows, ResourceRows, SessionRows, VaultRows
<1> QED BY <1>1, HandInvariant, PTL

\* Runs, rows, sessions and vaults keep to the shapes of their columns, and a
\* run that is running has recorded its handle.
THEOREM HandoverTypeCorrect == HandoverSpec => []HandoverTypeOK
BY HandoversFit, FitTypes, PTL

LEMMA FitExclusive == FitSpec => HandoverIsExclusive
<1> DEFINE Exclusive ==
      \A r \in RunIds, h \in Handles :
         At(r, "sending") /\ session[h].speaker # r /\ session'[h].speaker = r =>
             /\ There(h) => vault[h].key = r
             /\ Users(h) = {}
             /\ \A w \in Sweeps : sweep[w].pc \in {"dismantling", "emptying", "forgetting"}
                                    => sweep[w].handle # h
<1>1. ASSUME HandInv, HandoverNext
      PROVE  Exclusive
  <2> SUFFICES ASSUME NEW r \in RunIds, NEW h \in Handles, At(r, "sending"),
                      session[h].speaker # r, session'[h].speaker = r
               PROVE  /\ vault[h].key = r
                      /\ Users(h) = {}
                      /\ \A w \in Sweeps : sweep[w].pc \in Disposing => sweep[w].handle # h
    BY DEF Disposing
  <2>0. /\ HandoverTypes /\ KeysFit /\ OneOwner /\ DisposalsFit /\ RunsFit /\ TransfersFit
        /\ 0 \notin Handles
    BY <1>1, HandoverAssumption DEF HandInv, Handles, RunIds
  <2>1. launch[r].pc = "sending"
    BY DEF At
  <2>2. Speaks(r) /\ launch[r].handle = h
    <3>1. ~Wane
      BY DEF Wane
    <3>2. PICK q \in RunIds : LaunchOnProvider(q)
      BY <1>1, <3>1, EveryProvider
    <3>3. (Speaks(q) /\ launch[q].handle = h /\ q = r) \/ (BearsSession(q) /\ q = h /\ q = r)
      BY <3>1, <3>2 DEF LaunchOnProvider, TurnsKey, Tags, Speaks, BearsVault, BearsSession, OtherSessions
    <3> QED BY <2>1, <3>3 DEF BearsSession
  <2>3. vault[h].key = r
    BY <2>0, <2>1, <2>2 DEF KeysFit
  <2>4. PICK p \in RunIds : p = launch[r].pred
    BY <1>1, <2>1, HeldIsAlone DEF Holding
  <2>5. Owns("row", p, h) /\ resource[p].st = "claimed"
    BY <2>0, <2>1, <2>2, <2>4 DEF TransfersFit, Holding, Owns
  <2>6. \A q \in RunIds : ~Owns("run", q, h)
    BY <2>0, <2>5 DEF OneOwner, Kinds
  <2>7. Users(h) = {}
    BY <2>0, <2>6 DEF Users, ActiveRun, Owns, RunsFit
  <2>8. ASSUME NEW w \in Sweeps, sweep[w].pc \in Disposing, sweep[w].handle = h
        PROVE  FALSE
    BY <2>0, <2>5, <2>8 DEF DisposalsFit, Kinds
  <2> QED BY <2>3, <2>7, <2>8
<1>2. ASSUME HandInv, UNCHANGED handoverVars
      PROVE  Exclusive
  BY <1>2 DEF handoverVars, provider
<1>3. HandInv /\ [HandoverNext]_handoverVars => [Exclusive]_handoverVars
  BY <1>1
<1>4. FitSpec => [][Exclusive]_handoverVars
  BY <1>3, HandInvariant, PTL DEF FitSpec
<1> QED BY <1>4 DEF HandoverIsExclusive

\* A session is continued by one run only, with that run's own key in its
\* vault, while no run is recorded on it and no sweep has won its disposal.
THEOREM HandoversAreExclusive == HandoverSpec => HandoverIsExclusive
BY HandoversFit, FitExclusive, PTL

LEMMA FitPinsNothing == FitSpec => []NothingIsPinned
<1>1. HandInv => NothingIsPinned
  <2> SUFFICES ASSUME HandInv, Quiet, NEW h \in Handles, Live(h) \/ There(h), Users(h) = {}, ~Kept(h)
               PROVE  \/ \E o \in RunIds : resource[o].handle = h /\ Disposable(o)
                      \/ /\ ~Retained(h)
                         /\ \/ NamedByEnded(h)
                            \/ /\ There(h) => ~ActiveRun(h)
                               /\ Live(h) => ~ActiveRun(session[h].tag)
    BY DEF NothingIsPinned
  <2>0. /\ HandoverTypes /\ RunsFit /\ RowsFit /\ BirthsFit /\ TagsFit
        /\ 0 \notin Handles /\ Handles = RunIds
    BY HandoverAssumption DEF HandInv, Handles, RunIds
  <2>q. \A r \in RunIds : launch[r] = Free /\ run[r].st # "launching" /\ launch[r].pc = "free"
    BY DEF Quiet, Free
\* A row no disposal lists is one whose disposal a sweep has won and left.
  <2>1. ASSUME NEW o \in RunIds, resource[o].handle = h, ~Disposable(o)
        PROVE  resource[o].st = "disposing" /\ resource[o].by = 0
    <3>1. /\ resource[o] \in ResourceRows /\ resource[o].st # "none"
          /\ resource[o].st = "claimed" => resource[o].by # 0
      BY <2>0, <2>1 DEF HandoverTypes, RowsFit
    <3>2. resource[o].st = "available" => resource[o].expired
      BY <2>1 DEF Kept
    <3>3. resource[o].phase # "accepted"
      BY <2>1 DEF Kept
    <3>4. resource[o].by # 0 => Stale(o)
      BY <2>q, <3>1 DEF Stale, ResourceRows
    <3> QED BY <2>1, <3>1, <3>2, <3>3, <3>4 DEF Disposable, ResourceRows
  <2>2. CASE \A o \in RunIds : resource[o].handle = h => ~Disposable(o)
    <3>1. ~Retained(h)
      BY <2>1, <2>2 DEF Retained
    <3>2. There(h) => ~ActiveRun(h)
      <4>1. ASSUME There(h), ActiveRun(h)
            PROVE  FALSE
        <5>1. MadeVault(h)
          BY <2>0, <4>1 DEF BirthsFit, There
        <5>2. run[h].st = "running" /\ launch[h].pc = "free" /\ run[h].handle # 0
          BY <2>0, <2>q, <4>1 DEF ActiveRun, RunsFit
        <5>3. run[h].handle = h
          BY <5>1, <5>2 DEF MadeVault
        <5> QED BY <2>0, <4>1, <5>3 DEF Users
      <4> QED BY <4>1
    <3>3. Live(h) => ~ActiveRun(session[h].tag)
      <4>1. ASSUME Live(h), ActiveRun(session[h].tag)
            PROVE  FALSE
        <5>1. PICK t \in RunIds : t = session[h].tag
          BY <2>0, <4>1 DEF HandoverTypes, SessionRows
        <5>2. TagHeld(h, t) /\ t # 0
          BY <2>0, <4>1, <5>1 DEF TagsFit
        <5>3. run[t].handle = h
          BY <2>1, <2>2, <2>q, <4>1, <5>1, <5>2 DEF TagHeld, ActiveRun, Past
        <5> QED BY <4>1, <5>1, <5>3 DEF Users
      <4> QED BY <4>1
    <3> QED BY <3>1, <3>2, <3>3
  <2> QED BY <2>2
<1> QED BY <1>1, HandInvariant, PTL

\* When nobody is launching or finalizing, a session or a vault that no run
\* uses and no row keeps is in reach of an arm of the sweep: its row is listed
\* for disposal, or a sweep has won that disposal and left it, and then no run
\* that is not over has the vault's name or the session's tag.
THEOREM NothingStaysPinned == HandoverSpec => []NothingIsPinned
BY HandoversFit, FitPinsNothing, PTL

\* What a sweep has protected, or is about to collect, none of the runs it
\* found recorded on the handle uses.
SweepFit(w) ==
  sweep[w].pc \in {"protecting", "listing"} \cup Collecting =>
    /\ \A r \in sweep[w].users : run[r].st \in {"running", "ended"}
    /\ \/ sweep[w].pc = "protecting" /\ "runs" \in sweep[w].left
       \/ sweep[w].pc \in {"protecting", "listing"} /\ sweep[w].keep
       \/ \A r \in sweep[w].users : ~(ActiveRun(r) /\ run[r].handle = sweep[w].handle)

SweepsFit == \A w \in Sweeps : SweepFit(w)

\* A run once recorded goes on with its handle or is over.
LEMMA RecordedStays ==
  ASSUME HandInv, [HandoverNext]_handoverVars, NEW r \in RunIds, run[r].st \in {"running", "ended"}
  PROVE  /\ run'[r].st \in {"running", "ended"}
         /\ run'[r].st \in {"launching", "running"} => ActiveRun(r) /\ run'[r].handle = run[r].handle
<1>0. HandoverTypes /\ RunsFit /\ 0 \notin Handles
  BY HandoverAssumption DEF HandInv, Handles, RunIds
<1>1. /\ run'[r].st \in {"running", "ended"}
      /\ run[r].st = "ended" => run'[r].st = "ended"
      /\ run'[r].handle = run[r].handle
  <2>1. ASSUME NEW q \in RunIds, LaunchSteps(q)
        PROVE  run'[r].st = run[r].st /\ run'[r].handle = run[r].handle
    BY <1>0, <2>1, LaunchRuns DEF LaunchOnRuns
  <2>2. ASSUME NEW q \in RunIds, EndSteps(q)
        PROVE  /\ run'[r].st \in {"running", "ended"}
               /\ run[r].st = "ended" => run'[r].st = "ended"
               /\ run'[r].handle = run[r].handle
    BY <1>0, <2>2, EndRuns DEF EndOnRuns
  <2> QED BY <1>0, <2>1, <2>2, EverySteps, StandsApart, RowsOnRuns DEF handoverVars, Apart
<1> QED BY <1>1 DEF ActiveRun

\* What a sweep has asked for stays true until it collects.
LEMMA SweepsStayFit ==
  ASSUME HandInv, SweepsFit, [HandoverNext]_handoverVars
  PROVE  SweepsFit'
<1> SUFFICES ASSUME NEW w \in Sweeps, sweep'[w].pc \in {"protecting", "listing"} \cup Collecting
             PROVE  /\ \A r \in sweep'[w].users : run'[r].st \in {"running", "ended"}
                    /\ \/ sweep'[w].pc = "protecting" /\ "runs" \in sweep'[w].left
                       \/ sweep'[w].pc \in {"protecting", "listing"} /\ sweep'[w].keep
                       \/ \A r \in sweep'[w].users :
                            ~(run'[r].st \in {"launching", "running"} /\ run'[r].handle = sweep'[w].handle)
  BY DEF SweepsFit, SweepFit, ActiveRun
<1>0. HandoverTypes /\ RunsFit /\ SweepFit(w)
  BY DEF HandInv, SweepsFit
<1> PICK h, users : h = sweep'[w].handle /\ users = sweep'[w].users
  OBVIOUS
<1> DEFINE Off == \A r \in users : ~(ActiveRun(r) /\ run[r].handle = h)
           OffNow == \A r \in users : ~(run'[r].st \in {"launching", "running"} /\ run'[r].handle = h)
<1>1. ASSUME sweep[w].pc \in {"protecting", "listing"} \cup Collecting,
             sweep[w].handle = h, sweep[w].users = users
      PROVE  /\ \A r \in users : run'[r].st \in {"running", "ended"}
             /\ Off => OffNow
             /\ \/ sweep[w].pc = "protecting" /\ "runs" \in sweep[w].left
                \/ sweep[w].pc \in {"protecting", "listing"} /\ sweep[w].keep
                \/ Off
             /\ Users(h) = {} => Off
  <2>1. sweep[w] \in CollectRows
    BY <1>0, <1>1, SweepTells DEF HandoverTypes
  <2>2. users \in SUBSET RunIds
    BY <1>1, <2>1 DEF CollectRows
  <2>3. \A r \in users : run[r].st \in {"running", "ended"}
    BY <1>0, <1>1 DEF SweepFit
  <2>4. \A r \in users :
          /\ run'[r].st \in {"running", "ended"}
          /\ run'[r].st \in {"launching", "running"} => ActiveRun(r) /\ run'[r].handle = run[r].handle
    BY <2>2, <2>3, RecordedStays
  <2>5. Users(h) = {} => Off
    BY <2>2 DEF Users
  <2> QED BY <1>0, <1>1, <2>4, <2>5 DEF SweepFit
<1> HIDE DEF Off
<1>2. CASE sweep'[w] = sweep[w]
  BY <1>1, <1>2
<1>3. CASE CollectOn(w)
  <2>1. sweep[w].handle = h /\ sweep[w].users = users
    BY <1>3 DEF CollectOn, Free, Collecting
  <2>2. CASE sweep[w].pc = "protecting" /\ sweep'[w].pc \in {"protecting", "listing"}
    BY <1>1, <1>3, <2>1, <2>2 DEF CollectOn, Free, Collecting
  <2>3. CASE sweep[w].pc = "listing" \/ sweep[w].pc \in Collecting
    BY <1>1, <1>3, <2>1, <2>3 DEF CollectOn, Free, Collecting
  <2> QED BY <1>3, <2>2, <2>3 DEF CollectOn, Free, Collecting
<1>4. ASSUME NEW kind \in {"run", "vault", "session"}, NEW g \in Handles, NEW r \in RunIds,
             Looks(w, kind, g, r)
      PROVE  /\ \A q \in users : run'[q].st \in {"running", "ended"}
             /\ sweep'[w].pc = "protecting" /\ "runs" \in sweep'[w].left
  <2>1. /\ users = Users(g) /\ sweep'[w].pc = "protecting" /\ "runs" \in sweep'[w].left
        /\ UNCHANGED run
    BY <1>0, <1>4 DEF Looks, HandoverTypes
  <2>2. \A q \in Users(g) : run[q].st = "running"
    <3>1. g # 0
      BY HandoverAssumption DEF Handles, RunIds
    <3> QED BY <1>0, <3>1 DEF Users, ActiveRun, RunsFit
  <2> QED BY <2>1, <2>2
<1>5. \/ CollectOn(w) \/ sweep'[w] = sweep[w]
      \/ \E kind \in {"run", "vault", "session"}, g \in Handles, r \in RunIds : Looks(w, kind, g, r)
  BY <1>0, EverySweep DEF SweepOwn, DisposalLists, HandoverTypes, TakesRow, ForgetsRow, Free, Collecting
<1> QED BY <1>2, <1>3, <1>4, <1>5

LEMMA FitIsSafe == SweepsFit /\ FitSpec => RecordedRunsAreSafe
<1> DEFINE Safe ==
      \A w \in Sweeps :
         sweep[w].pc \in {"deleting", "archiving"} /\ sweep'[w] # sweep[w] /\ provider' # provider
           => sweep[w].users \cap Users(sweep[w].handle) = {}
<1>1. SweepsFit /\ FitSpec => []SweepsFit
  BY SweepsStayFit, HandInvariant, PTL DEF FitSpec
<1>2. SweepsFit /\ [HandoverNext]_handoverVars => [Safe]_handoverVars
  BY DEF SweepsFit, SweepFit, Collecting, Users
<1>3. SweepsFit /\ FitSpec => [][Safe]_handoverVars
  BY <1>1, <1>2, PTL DEF FitSpec
<1> QED BY <1>3 DEF RecordedRunsAreSafe

\* No sweep that begins once a run is recorded on a handle takes the handle
\* while that run goes on: it has asked for the runs in use before it collects.
THEOREM RecordedHandlesAreSafe == HandoverSpec => RecordedRunsAreSafe
<1>1. HandoverInit => SweepsFit
  BY DEF HandoverInit, SweepsFit, SweepFit, Free, Collecting
<1> QED BY <1>1, HandoversFit, FitIsSafe, PTL DEF HandoverSpec
===============================================================================
