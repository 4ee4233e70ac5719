---------------------------- MODULE Runner_proofs ----------------------------
(***************************************************************************)
(* Theorems about RunnerPolicy, for any number of boots, polls at work,    *)
(* policies, revisions and tokens, about RunnerHolds, for any number of    *)
(* handlers, launches and incidents, and about the runner that MCRunner    *)
(* composes of both and of SessionHandover: what is proved of each part    *)
(* holds of the whole.                                                     *)
(***************************************************************************)
EXTENDS MCRunner, SessionHandover_proofs, TLAPS

-----------------------------------------------------------------------------
(* Types *)

SeenRows ==
  [token : 0..MaxTokens, mode : Modes, ceiling : 0..MaxCap, requested : 0..MaxCap, max : Caps,
   rev : Nat, conc : Lives \cup {None}, applied : Acks, appliedBy : Lives \cup {None}]

Reports == {"sent", "known", "admitted"}
SentPolls == [pc : {"sent"}, life : Lives, mode : Modes, ceiling : Caps, ack : Acks,
              token : Nat, tries : Nat]
KnownPolls == [pc : {"known"}, life : Lives, mode : Modes, ceiling : Caps, ack : Acks,
               tries : Nat]
AdmittedPolls == [pc : {"admitted"}, life : Lives, mode : Modes, ceiling : Caps, ack : Acks,
                  tries : Nat, row : SeenRows]
Instructions == [pc : {"instruct"}, available : BOOLEAN, rev : Nat, cap : Caps]
Refusals == [pc : {"conflict", "unauthorized"}]
Polls == SentPolls \cup KnownPolls \cup AdmittedPolls \cup Instructions \cup Refusals
         \cup {Idle, Absent}

UpDaemons == [st : {"up"}, mode : Modes, ceiling : Caps, token : Nat, eff : Caps, ack : Acks,
              awaits : Handlers \cup {0}]
Daemons == UpDaemons \cup [st : {"off", "gone"}]
Asks == [pc : {"ask"}, cap : 1..MaxCap + 1, rev : Nat, ceiling : 0..MaxCap]

Types ==
  /\ row \in RunnerRows
  /\ daemon \in [Lives -> Daemons]
  /\ handler \in [Handlers -> Polls]
  /\ operator \in Asks \cup {Idle}

\* The state of a poll or a daemon tells its fields.
LEMMA PcTells ==
  ASSUME NEW q \in Polls
  PROVE  /\ q.pc = "sent" => q \in SentPolls
         /\ q.pc = "known" => q \in KnownPolls
         /\ q.pc = "admitted" => q \in AdmittedPolls
         /\ q.pc = "instruct" => q \in Instructions
         /\ q.pc \in Reports => /\ q.life \in Lives /\ q.mode \in Modes /\ q.ceiling \in Caps
                                /\ q.ack \in Acks
BY DEF Polls, SentPolls, KnownPolls, AdmittedPolls, Instructions, Refusals, Idle, Absent,
       Reports

\* The state of a daemon tells its fields.
LEMMA StTells ==
  ASSUME NEW d \in Daemons
  PROVE  d.st = "up" => d \in UpDaemons
BY DEF Daemons, UpDaemons

\* One field of a record replaced.
LEMMA OneField ==
  ASSUME NEW r, NEW f \in DOMAIN r, NEW v, NEW x, x = [r EXCEPT ![f] = v]
  PROVE  DOMAIN x = DOMAIN r /\ x[f] = v /\ \A g \in DOMAIN r : g # f => x[g] = r[g]
OBVIOUS

\* The row a boot takes over.
TakenRow(r, l, p) == [r EXCEPT !.cur = l, !.fenced = p]

\* The columns of a row that is taken.
LEMMA TakenRowIs ==
  ASSUME NEW r \in RunnerRows, NEW l \in Lives, NEW p \in Lives \cup {None},
         NEW x, x = TakenRow(r, l, p)
  PROVE  /\ x \in RunnerRows
         /\ x.cur = l /\ x.fenced = p /\ Seen(x) = Seen(r)
<1> DEFINE y == [r EXCEPT !.cur = l]
<1>1. x = [y EXCEPT !.fenced = p]
  BY DEF TakenRow
<1>2. y \in RunnerRows /\ y.cur = l /\ Seen(y) = Seen(r)
  BY DEF RunnerRows, Seen
<1> HIDE DEF y
<1> QED BY <1>1, <1>2 DEF RunnerRows, Seen

\* The row after a change of the cap in the web.
CappedRow(r, c, n) == [r EXCEPT !.max = c, !.requested = c, !.rev = n]

\* The columns of a row whose cap is set.
LEMMA Capped ==
  ASSUME NEW r \in RunnerRows, NEW c \in Caps, NEW n \in Nat, NEW x, x = CappedRow(r, c, n)
  PROVE  /\ x \in RunnerRows
         /\ x.max = c /\ x.requested = c /\ x.rev = n
         /\ x.cur = r.cur /\ x.fenced = r.fenced /\ x.mode = r.mode /\ x.ceiling = r.ceiling
         /\ x.conc = r.conc /\ x.applied = r.applied /\ x.appliedBy = r.appliedBy
<1> DEFINE y == [r EXCEPT !.max = c]
           z == [y EXCEPT !.requested = c]
<1>0. c \in 0..MaxCap
  BY DEF Caps
<1>1. x = [z EXCEPT !.rev = n]
  BY DEF CappedRow
<1>2. y \in RunnerRows /\ y.max = c
      /\ y.cur = r.cur /\ y.fenced = r.fenced /\ y.mode = r.mode /\ y.ceiling = r.ceiling
      /\ y.conc = r.conc /\ y.applied = r.applied /\ y.appliedBy = r.appliedBy
  BY DEF RunnerRows
<1> HIDE DEF y
<1>3. z \in RunnerRows /\ z.max = c /\ z.requested = c
      /\ z.cur = r.cur /\ z.fenced = r.fenced /\ z.mode = r.mode /\ z.ceiling = r.ceiling
      /\ z.conc = r.conc /\ z.applied = r.applied /\ z.appliedBy = r.appliedBy
  BY <1>0, <1>2 DEF RunnerRows
<1> HIDE DEF z
<1> QED BY <1>1, <1>3 DEF RunnerRows

\* The row after a rotation of the token.
RotatedRow(r) == [r EXCEPT !.token = r.token + 1, !.conc = None, !.appliedBy = None]

\* The columns of a row whose token is rotated.
LEMMA Rotated ==
  ASSUME NEW r \in RunnerRows, r.token < MaxTokens, NEW x, x = RotatedRow(r)
  PROVE  /\ x \in RunnerRows
         /\ x.conc = None /\ x.appliedBy = None
         /\ x.cur = r.cur /\ x.fenced = r.fenced /\ x.mode = r.mode /\ x.ceiling = r.ceiling
         /\ x.requested = r.requested /\ x.max = r.max /\ x.rev = r.rev /\ x.applied = r.applied
<1> DEFINE y == [r EXCEPT !.token = r.token + 1]
           z == [y EXCEPT !.conc = None]
<1>1. x = [z EXCEPT !.appliedBy = None]
  BY DEF RotatedRow
<1>2. y \in RunnerRows
      /\ y.cur = r.cur /\ y.fenced = r.fenced /\ y.mode = r.mode /\ y.ceiling = r.ceiling
      /\ y.requested = r.requested /\ y.max = r.max /\ y.rev = r.rev /\ y.applied = r.applied
  BY PolicyAssumption DEF RunnerRows
<1> HIDE DEF y
<1>3. z \in RunnerRows /\ z.conc = None
      /\ z.cur = r.cur /\ z.fenced = r.fenced /\ z.mode = r.mode /\ z.ceiling = r.ceiling
      /\ z.requested = r.requested /\ z.max = r.max /\ z.rev = r.rev /\ z.applied = r.applied
  BY <1>2 DEF RunnerRows
<1> HIDE DEF z
<1> QED BY <1>1, <1>3 DEF RunnerRows

\* The daemon after an instruction it honours.
AppliedDaemon(d, a) == [d EXCEPT !.awaits = 0, !.eff = a.cap, !.ack = [rev |-> a.rev, cap |-> a.cap]]

\* The fields of a daemon that applied an answer.
LEMMA AppliedFields ==
  ASSUME NEW d \in UpDaemons, NEW a \in Instructions, NEW x, x = AppliedDaemon(d, a)
  PROVE  /\ x \in UpDaemons /\ x.mode = d.mode /\ x.ceiling = d.ceiling
         /\ x.eff = a.cap /\ x.ack = [rev |-> a.rev, cap |-> a.cap] /\ x.awaits = 0
<1> DEFINE y == [d EXCEPT !.awaits = 0]
           z == [y EXCEPT !.eff = a.cap]
<1>1. x = [z EXCEPT !.ack = [rev |-> a.rev, cap |-> a.cap]]
  BY DEF AppliedDaemon
<1>2. y \in UpDaemons /\ y.mode = d.mode /\ y.ceiling = d.ceiling /\ y.awaits = 0
  BY DEF UpDaemons
<1> HIDE DEF y
<1>3. z \in UpDaemons /\ z.mode = d.mode /\ z.ceiling = d.ceiling /\ z.eff = a.cap
      /\ z.awaits = 0
  BY <1>2 DEF UpDaemons, Instructions
<1> HIDE DEF z
<1>4. [rev |-> a.rev, cap |-> a.cap] \in Acks
  BY PolicyAssumption DEF Acks, Instructions, Caps
<1> QED BY <1>1, <1>3, <1>4 DEF UpDaemons

\* What a heartbeat computes from a report it may use.
LEMMA NextPolicy ==
  ASSUME NEW q \in AdmittedPolls
  PROVE  /\ NextRequested(q) \in Caps /\ NextRequested(q) <= q.ceiling
         /\ NextRequested(q) \in 0..MaxCap
         /\ NextCeiling(q) \in 0..MaxCap /\ (q.mode = "remote" => NextCeiling(q) = q.ceiling)
         /\ NextRevision(q) \in Nat /\ NextRevision(q) >= q.row.rev
         /\ NextRevision(q) = q.row.rev => ~PolicyChanged(q)
<1>1. /\ q.ceiling \in Caps /\ q.row \in SeenRows /\ q.mode \in {"remote", "local", "legacy"}
  BY DEF AdmittedPolls, Modes
<1>2. q.row.max \in Caps /\ q.row.requested \in 0..MaxCap /\ q.row.rev \in Nat
  BY <1>1 DEF SeenRows
<1>3. NextRequested(q) \in Caps /\ NextRequested(q) <= q.ceiling
  BY <1>1, <1>2, PolicyAssumption DEF NextRequested, Lesser, Caps
<1>4. NextCeiling(q) \in 0..MaxCap /\ (q.mode = "remote" => NextCeiling(q) = q.ceiling)
  BY <1>1, PolicyAssumption DEF NextCeiling, Caps
<1>5. /\ NextRevision(q) \in Nat /\ NextRevision(q) >= q.row.rev
      /\ NextRevision(q) = q.row.rev => ~PolicyChanged(q)
  BY <1>2 DEF NextRevision
<1> QED BY <1>3, <1>4, <1>5, PolicyAssumption DEF Caps

\* The compare-and-swap of a heartbeat speaks of the row as it is.
LEMMA UnchangedRow ==
  ASSUME Types, NEW q \in AdmittedPolls, Unchanged(q)
  PROVE  /\ q.row.mode = row.mode /\ q.row.ceiling = row.ceiling
         /\ q.row.requested = row.requested /\ q.row.rev = row.rev
         /\ q.row.applied = row.applied /\ q.row.appliedBy = row.appliedBy
         /\ q.mode # "legacy" => row.cur = q.life
<1>1. q.row \in SeenRows /\ row \in RunnerRows
  BY DEF AdmittedPolls, Types
<1> DEFINE a == [Seen(row) EXCEPT !.max = 0]
           b == [q.row EXCEPT !.max = 0]
<1>2. a = b
  BY DEF Unchanged
<1>3. /\ a.mode = row.mode /\ a.ceiling = row.ceiling /\ a.requested = row.requested
      /\ a.rev = row.rev /\ a.applied = row.applied /\ a.appliedBy = row.appliedBy
  BY DEF Seen
<1>4. /\ b.mode = q.row.mode /\ b.ceiling = q.row.ceiling /\ b.requested = q.row.requested
      /\ b.rev = q.row.rev /\ b.applied = q.row.applied /\ b.appliedBy = q.row.appliedBy
  BY <1>1 DEF SeenRows
<1> HIDE DEF a, b
<1>5. q.mode # "legacy" => row.cur = q.life
  BY DEF Unchanged
<1> QED BY <1>2, <1>3, <1>4, <1>5

-----------------------------------------------------------------------------
(* What holds between the row, the daemons and the polls at work *)

\* What a poll carries of its daemon, and what an answer says of the row.
PollFits(q) ==
  /\ q.pc \in Reports =>
       /\ daemon[q.life].st # "off"
       /\ Up(q.life) => /\ q.mode = daemon[q.life].mode
                        /\ q.ceiling = daemon[q.life].ceiling
                        /\ q.ack.rev <= daemon[q.life].ack.rev
  /\ q.pc = "instruct" => q.rev <= row.rev /\ (q.rev = row.rev => q.cap = row.requested)

PollsFit == \A h \in Handlers : PollFits(handler[h])

\* A daemon schedules by what it acknowledges, which is no newer than the row.
DaemonFits(l) ==
  Up(l) => /\ daemon[l].ack.rev <= row.rev
           /\ daemon[l].ack.rev = row.rev => daemon[l].ack.cap = row.requested
           /\ daemon[l].ack.cap # 0 => daemon[l].eff = daemon[l].ack.cap

DaemonsFit == \A l \in Lives : DaemonFits(l)

\* An answer that is awaited is no older than what the daemon acknowledges.
AnswersFit ==
  \A l \in Lives :
    LET h == daemon[l].awaits IN
    Up(l) /\ h \in Handlers /\ handler[h].pc = "instruct" => daemon[l].ack.rev <= handler[h].rev

RowFits ==
  /\ row.rev = 0 => row.requested = 0
  /\ row.mode = "remote" => row.max = row.requested /\ row.requested \in 1..row.ceiling
  /\ row.cur # None => ~Fenced(row.cur)

\* The policy in the row is that of the boot that reported it, and what it is
\* said to have applied is nothing it has not acknowledged.
ReportFits ==
  /\ row.conc # None =>
       /\ daemon[row.conc].st # "off"
       /\ Up(row.conc) => row.mode = daemon[row.conc].mode /\ row.ceiling = daemon[row.conc].ceiling
  /\ row.appliedBy # None =>
       /\ daemon[row.appliedBy].st # "off"
       /\ Up(row.appliedBy) => row.applied.rev <= daemon[row.appliedBy].ack.rev

AskFits == operator.pc = "ask" => operator.cap \in 1..operator.ceiling

PolicyInv ==
  /\ Types /\ PollsFit /\ DaemonsFit /\ AnswersFit /\ RowFits /\ ReportFits /\ AskFits

\* The invariant holds at first.
LEMMA TypeInit == PolicyInit => PolicyInv
<1> SUFFICES ASSUME PolicyInit PROVE PolicyInv
  OBVIOUS
<1>1. PICK c \in Caps, t \in 0..MaxTokens :
        row = [token |-> t, cur |-> None, fenced |-> None, mode |-> "legacy",
               ceiling |-> 0, requested |-> 0, max |-> c, rev |-> 0, conc |-> None,
               applied |-> NoAck, appliedBy |-> None]
  BY DEF PolicyInit
<1>2. NoAck \in Acks /\ 0 \in 0..MaxCap
  BY PolicyAssumption DEF NoAck, Acks
<1>3. row \in RunnerRows
  BY <1>1, <1>2 DEF RunnerRows, Modes
<1>4. daemon = [l \in Lives |-> [st |-> "off"]] /\ handler \in [Handlers -> {Idle, Absent}]
      /\ operator = Idle
  BY DEF PolicyInit
<1>5. Types
  BY <1>3, <1>4 DEF Types, Daemons, Polls
<1>6. DaemonsFit /\ AnswersFit
  BY <1>4 DEF DaemonsFit, DaemonFits, AnswersFit, Up
<1>7. PollsFit
  BY <1>4 DEF PollsFit, PollFits, Idle, Absent, Reports
<1>8. RowFits /\ ReportFits /\ AskFits
  BY <1>1, <1>4 DEF RowFits, ReportFits, AskFits, Idle
<1> QED BY <1>5, <1>6, <1>7, <1>8 DEF PolicyInv

\* The row and the daemons decide what fits: a step that changes neither keeps
\* every poll that stays and admits every poll that fits now.
LEMMA PollStays ==
  ASSUME NEW q, PollFits(q), row' = row, daemon' = daemon
  PROVE  PollFits(q)'
BY DEF PollFits, Up

\* A step of the server that only answers or moves one poll.
LEMMA HandlerStep ==
  ASSUME PolicyInv, row' = row, daemon' = daemon, operator' = operator,
         NEW h \in Handlers, NEW x \in Polls, handler' = [handler EXCEPT ![h] = x],
         PollFits(x), x.pc # "instruct"
  PROVE  PolicyInv'
<1>1. Types'
  BY DEF PolicyInv, Types
<1>2. handler \in [Handlers -> Polls]
  BY DEF PolicyInv, Types
<1>3. PollsFit'
  <2> SUFFICES ASSUME NEW g \in Handlers PROVE PollFits(handler[g])'
    BY DEF PollsFit
  <2>1. PICK y : y = handler'[g] /\ PollFits(y)
    BY <1>2 DEF PolicyInv, PollsFit
  <2>2. PollFits(y)'
    BY <2>1, PollStays
  <2> QED BY <2>1, <2>2 DEF PollFits
<1>4. DaemonsFit' /\ RowFits' /\ ReportFits' /\ AskFits'
  BY DEF PolicyInv, DaemonsFit, DaemonFits, RowFits, ReportFits, AskFits, Up, Fenced
<1>5. AnswersFit'
  BY <1>2 DEF PolicyInv, AnswersFit, Up
<1> QED BY <1>1, <1>3, <1>4, <1>5 DEF PolicyInv

\* A step of one daemon: it keeps its policy, and what it acknowledges only moves on.
LEMMA DaemonStep ==
  ASSUME PolicyInv, row' = row, operator' = operator,
         NEW l \in Lives, NEW d \in Daemons, daemon' = [daemon EXCEPT ![l] = d], d.st # "off",
         d.st = "up" =>
           /\ Up(l) => /\ d.mode = daemon[l].mode /\ d.ceiling = daemon[l].ceiling
                       /\ daemon[l].ack.rev <= d.ack.rev
           /\ ~Up(l) => daemon[l].st = "off"
           /\ d.ack.rev <= row.rev
           /\ d.ack.rev = row.rev => d.ack.cap = row.requested
           /\ d.ack.cap # 0 => d.eff = d.ack.cap,
         handler' \in [Handlers -> Polls],
         \A g \in Handlers : /\ \/ handler'[g] = handler[g]
                                \/ handler'[g].pc = "idle"
                                \/ PollFits(handler[g])'
                             /\ handler'[g].pc = "instruct" => handler'[g] = handler[g],
         d.st = "up" /\ d.awaits \in Handlers /\ handler'[d.awaits].pc = "instruct"
           => d.ack.rev <= handler'[d.awaits].rev
  PROVE  PolicyInv'
<1>0. daemon \in [Lives -> Daemons] /\ handler \in [Handlers -> Polls] /\ row \in RunnerRows
  BY DEF PolicyInv, Types
<1>1. Types'
  BY DEF PolicyInv, Types
<1>2. RowFits' /\ AskFits'
  BY DEF PolicyInv, RowFits, AskFits, Fenced
<1>3. /\ daemon'[l] = d /\ \A k \in Lives : k # l => daemon'[k] = daemon[k]
      /\ \A k \in Lives : daemon'[k] \in Daemons
  BY <1>0
<1>4. \A k \in Lives : /\ daemon[k].st = "up" =>
                            daemon[k] \in UpDaemons /\ daemon[k].ack.rev \in Nat
                       /\ daemon'[k].st = "up" =>
                            daemon'[k] \in UpDaemons /\ daemon'[k].ack.rev \in Nat
  BY <1>0, <1>3, StTells DEF UpDaemons, Acks
<1>5. DaemonsFit'
  <2> SUFFICES ASSUME NEW k \in Lives PROVE DaemonFits(k)'
    BY DEF DaemonsFit
  <2>1. CASE k = l
    BY <1>3, <2>1 DEF DaemonFits, Up
  <2>2. CASE k # l
    BY <1>3, <2>2 DEF PolicyInv, DaemonsFit, DaemonFits, Up
  <2> QED BY <2>1, <2>2
<1>6. AnswersFit'
  <2> SUFFICES ASSUME NEW k \in Lives, Up(k)', daemon'[k].awaits \in Handlers,
                      handler'[daemon'[k].awaits].pc = "instruct"
               PROVE  daemon'[k].ack.rev <= handler'[daemon'[k].awaits].rev
    BY DEF AnswersFit
  <2>1. CASE k = l
    BY <1>3, <2>1 DEF Up
  <2>2. CASE k # l
    <3>1. daemon'[k] = daemon[k] /\ Up(k)
      BY <1>3, <2>2 DEF Up
    <3>2. handler'[daemon'[k].awaits] = handler[daemon'[k].awaits]
      OBVIOUS
    <3> QED BY <3>1, <3>2 DEF PolicyInv, AnswersFit
  <2> QED BY <2>1, <2>2
<1>7. PollsFit'
  <2> SUFFICES ASSUME NEW g \in Handlers PROVE PollFits(handler[g])'
    BY DEF PollsFit
  <2>1. CASE handler'[g].pc = "idle"
    BY <2>1 DEF PollFits, Reports
  <2>2. CASE handler'[g] = handler[g]
    <3> DEFINE q == handler[g]
    <3>1. PollFits(q) /\ q \in Polls
      BY <1>0 DEF PolicyInv, PollsFit
    <3>2. q.pc \in Reports => q.life \in Lives /\ q.ack.rev \in Nat
      BY <3>1, PcTells DEF Acks
    <3>3. q.pc \in Reports => daemon'[q.life].st # "off"
      BY <1>3, <3>1, <3>2 DEF PollFits
    <3>4. ASSUME q.pc \in Reports, daemon'[q.life].st = "up"
          PROVE  /\ q.mode = daemon'[q.life].mode /\ q.ceiling = daemon'[q.life].ceiling
                 /\ q.ack.rev <= daemon'[q.life].ack.rev
      <4>1. CASE q.life = l
        <5>1. Up(l)
          BY <1>3, <3>1, <3>4, <4>1 DEF PollFits
        <5>2. /\ q.mode = daemon[l].mode /\ q.ceiling = daemon[l].ceiling
              /\ q.ack.rev <= daemon[l].ack.rev
          BY <3>1, <3>4, <4>1, <5>1 DEF PollFits
        <5>3. /\ d.mode = daemon[l].mode /\ d.ceiling = daemon[l].ceiling
              /\ daemon[l].ack.rev <= d.ack.rev
          BY <1>3, <3>4, <4>1, <5>1
        <5> QED BY <1>3, <1>4, <3>2, <3>4, <4>1, <5>1, <5>2, <5>3 DEF Up
      <4>2. CASE q.life # l
        BY <1>3, <3>1, <3>2, <3>4, <4>2 DEF PollFits, Up
      <4> QED BY <4>1, <4>2
    <3>5. q.pc = "instruct" => q.rev <= row'.rev /\ (q.rev = row'.rev => q.cap = row'.requested)
      BY <3>1 DEF PollFits
    <3>6. handler'[g] = q
      BY <2>2
    <3> HIDE DEF q
    <3> QED BY <3>3, <3>4, <3>5, <3>6 DEF PollFits, Up
  <2> QED BY <2>1, <2>2
<1>8. ReportFits'
  <2>1. row.conc \in Lives \cup {None} /\ row.appliedBy \in Lives \cup {None}
        /\ row.applied.rev \in Nat
    BY <1>0 DEF RunnerRows, Acks
  <2>2. row.conc # None =>
          /\ daemon'[row.conc].st # "off"
          /\ daemon'[row.conc].st = "up" =>
               row.mode = daemon'[row.conc].mode /\ row.ceiling = daemon'[row.conc].ceiling
    <3>1. CASE row.conc = l /\ row.conc # None
      BY <1>3, <3>1 DEF PolicyInv, ReportFits
    <3>2. CASE row.conc # l /\ row.conc # None
      BY <1>3, <2>1, <3>2 DEF PolicyInv, ReportFits, Up
    <3> QED BY <3>1, <3>2
  <2>3. row.appliedBy # None =>
          /\ daemon'[row.appliedBy].st # "off"
          /\ daemon'[row.appliedBy].st = "up" => row.applied.rev <= daemon'[row.appliedBy].ack.rev
    <3>1. CASE row.appliedBy = l /\ row.appliedBy # None
      <4>1. daemon[l].st # "off" /\ (Up(l) => row.applied.rev <= daemon[l].ack.rev)
        BY <3>1 DEF PolicyInv, ReportFits
      <4>2. d.st = "up" => Up(l) /\ daemon[l].ack.rev <= d.ack.rev
        BY <4>1
      <4> QED BY <1>3, <1>4, <2>1, <3>1, <4>1, <4>2 DEF Up
    <3>2. CASE row.appliedBy # l /\ row.appliedBy # None
      BY <1>3, <2>1, <3>2 DEF PolicyInv, ReportFits, Up
    <3> QED BY <3>1, <3>2
  <2> QED BY <2>2, <2>3 DEF ReportFits, Up
<1> QED BY <1>1, <1>2, <1>5, <1>6, <1>7, <1>8 DEF PolicyInv

\* A step that changes the row: a new revision, or the same policy.
LEMMA RowStep ==
  ASSUME PolicyInv, row' \in RunnerRows, daemon' = daemon, operator' \in Asks \cup {Idle},
         handler' \in [Handlers -> Polls],
         RowFits', ReportFits', AskFits',
         \/ row'.rev > row.rev
         \/ row'.rev = row.rev /\ row'.requested = row.requested,
         \A g \in Handlers :
           \/ handler'[g] = handler[g]
           \/ PollFits(handler[g])' /\ (handler'[g].pc = "instruct" => handler'[g].rev = row'.rev)
  PROVE  PolicyInv'
<1>0. /\ daemon \in [Lives -> Daemons] /\ handler \in [Handlers -> Polls]
      /\ row.rev \in Nat /\ row'.rev \in Nat
  BY DEF PolicyInv, Types, RunnerRows
<1>1. Types'
  BY DEF PolicyInv, Types
<1>2. \A k \in Lives : daemon[k].st = "up" => daemon[k].ack.rev \in Nat
  BY <1>0, StTells DEF UpDaemons, Acks
<1>3. DaemonsFit'
  BY <1>0, <1>2 DEF PolicyInv, DaemonsFit, DaemonFits, Up
<1>4. PollsFit'
  <2> SUFFICES ASSUME NEW g \in Handlers, handler'[g] = handler[g] PROVE PollFits(handler[g])'
    BY DEF PollsFit
  <2> DEFINE q == handler[g]
  <2>1. PollFits(q) /\ (q.pc = "instruct" => q.rev \in Nat)
    BY <1>0, PcTells DEF PolicyInv, PollsFit, Instructions
  <2>2. handler'[g] = q
    OBVIOUS
  <2> HIDE DEF q
  <2> QED BY <1>0, <2>1, <2>2 DEF PollFits, Up
<1>5. AnswersFit'
  <2> SUFFICES ASSUME NEW k \in Lives, Up(k), daemon[k].awaits \in Handlers,
                      handler'[daemon[k].awaits].pc = "instruct"
               PROVE  daemon[k].ack.rev <= handler'[daemon[k].awaits].rev
    BY DEF AnswersFit, Up
  <2> DEFINE g == daemon[k].awaits
  <2>1. CASE handler'[g] = handler[g]
    BY <2>1 DEF PolicyInv, AnswersFit
  <2>2. CASE handler'[g].rev = row'.rev
    <3>1. daemon[k].ack.rev <= row.rev /\ daemon[k].ack.rev \in Nat
      BY <1>2 DEF PolicyInv, DaemonsFit, DaemonFits, Up
    <3> QED BY <1>0, <2>2, <3>1
  <2> QED BY <2>1, <2>2
<1> QED BY <1>1, <1>3, <1>4, <1>5 DEF PolicyInv

-----------------------------------------------------------------------------
(* The steps *)

\* Every handler but one keeps its poll.
LEMMA Answers ==
  ASSUME PolicyInv, NEW h \in Handlers, NEW a \in Instructions \cup Refusals, Answer(h, a)
  PROVE  /\ handler' \in [Handlers -> Polls]
         /\ \A g \in Handlers : g # h => handler'[g] = handler[g]
         /\ handler'[h] = a \/ handler'[h] = Idle
<1>1. a \in Polls /\ Idle \in Polls /\ handler \in [Handlers -> Polls]
  BY DEF Polls, PolicyInv, Types
<1>2. PICK x \in {a, Idle} : handler' = [handler EXCEPT ![h] = x]
  BY DEF Answer
<1> QED BY <1>1, <1>2

\* The polls of a boot that hears nothing any more go idle; the others stay.
LEMMA Unhearing ==
  ASSUME PolicyInv, NEW l \in Lives, handler' = Unheard(l)
  PROVE  /\ handler' \in [Handlers -> Polls]
         /\ \A g \in Handlers : handler'[g] = handler[g] \/ handler'[g].pc = "idle"
         /\ \A g \in Handlers : handler'[g].pc = "instruct" => handler'[g] = handler[g]
<1>1. Idle \in Polls /\ handler \in [Handlers -> Polls] /\ Idle.pc = "idle"
  BY DEF Polls, PolicyInv, Types, Idle
<1>2. CASE handler' = handler
  BY <1>1, <1>2
<1>3. CASE handler' = [handler EXCEPT ![daemon[l].awaits] = Idle]
  BY <1>1, <1>3
<1> QED BY <1>2, <1>3 DEF Unheard

\* A boot keeps the invariant.
LEMMA BootStep ==
  ASSUME PolicyInv, NEW l \in Lives, NEW p \in Policies, Boot(l, p)
  PROVE  PolicyInv'
<1> DEFINE d == [st |-> "up", mode |-> p.mode, ceiling |-> p.ceiling, token |-> row.token,
                 eff |-> IF p.mode = "remote" THEN 1 ELSE p.ceiling, ack |-> NoAck, awaits |-> 0]
<1>1. row \in RunnerRows /\ handler \in [Handlers -> Polls]
  BY DEF PolicyInv, Types
<1>2. p.mode \in Modes /\ p.ceiling \in Caps /\ row.token \in Nat /\ row.rev \in Nat
  BY <1>1, PolicyAssumption DEF RunnerRows
<1>3. d \in UpDaemons
  BY <1>2, PolicyAssumption DEF UpDaemons, Acks, NoAck, Caps
<1>4. /\ daemon' = [daemon EXCEPT ![l] = d] /\ daemon[l].st = "off"
      /\ row' = row /\ handler' = handler /\ operator' = operator
  BY DEF Boot
<1>5. d \in Daemons /\ d.st = "up" /\ d.ack.rev = 0 /\ d.ack.cap = 0 /\ d.awaits \notin Handlers
  BY <1>3 DEF Daemons, NoAck, Handlers
<1> HIDE DEF d
<1>6. /\ ~Up(l) /\ d.st # "off"
      /\ d.ack.rev <= row.rev /\ (d.ack.rev = row.rev => d.ack.cap = row.requested)
  BY <1>2, <1>4, <1>5 DEF PolicyInv, RowFits, Up
<1> QED BY <1>1, <1>4, <1>5, <1>6, DaemonStep

\* A poll that is sent keeps it.
LEMMA PollStep ==
  ASSUME PolicyInv, NEW l \in Lives, NEW h \in Handlers, Poll(l, h)
  PROVE  PolicyInv'
<1> DEFINE d == [daemon[l] EXCEPT !.awaits = h]
           x == [pc |-> "sent", life |-> l, mode |-> daemon[l].mode,
                 ceiling |-> daemon[l].ceiling, ack |-> daemon[l].ack,
                 token |-> daemon[l].token, tries |-> 0]
<1>1. handler \in [Handlers -> Polls] /\ daemon \in [Lives -> Daemons] /\ h \in Nat
  BY DEF PolicyInv, Types, Handlers
<1>2. Up(l) /\ daemon[l] \in UpDaemons
  BY <1>1, StTells DEF Poll, Up
<1>3. /\ d \in UpDaemons /\ d.mode = daemon[l].mode /\ d.ceiling = daemon[l].ceiling
      /\ d.ack = daemon[l].ack /\ d.eff = daemon[l].eff /\ d.awaits = h /\ d.st = "up"
      /\ d.ack.rev \in Nat
  BY <1>1, <1>2 DEF UpDaemons, Acks
<1>4. x \in SentPolls
  BY <1>2 DEF SentPolls, UpDaemons
<1>5. /\ daemon' = [daemon EXCEPT ![l] = d] /\ handler' = [handler EXCEPT ![h] = x]
      /\ row' = row /\ operator' = operator
  BY DEF Poll
<1>6. /\ handler' \in [Handlers -> Polls] /\ handler'[h] = x /\ x.pc = "sent"
      /\ \A g \in Handlers : g # h => handler'[g] = handler[g]
  BY <1>1, <1>4, <1>5 DEF Polls
<1>7. /\ x.life = l /\ x.mode = d.mode /\ x.ceiling = d.ceiling /\ x.ack = d.ack
      /\ daemon'[l] = d
  BY <1>1, <1>3, <1>5
<1> HIDE DEF d, x
<1>8. PollFits(handler[h])'
  BY <1>3, <1>6, <1>7 DEF PollFits, Reports, Up
<1>9. DaemonFits(l)
  BY DEF PolicyInv, DaemonsFit
<1>10. d \in Daemons /\ d.st # "off"
  BY <1>3 DEF Daemons
<1>11. /\ daemon[l].ack.rev <= d.ack.rev /\ d.ack.rev <= row.rev
       /\ d.ack.rev = row.rev => d.ack.cap = row.requested
       /\ d.ack.cap # 0 => d.eff = d.ack.cap
  BY <1>2, <1>3, <1>9 DEF DaemonFits
<1>12. handler'[d.awaits].pc # "instruct"
  BY <1>3, <1>6
<1>13. \A g \in Handlers : /\ handler'[g] = handler[g] \/ PollFits(handler[g])'
                           /\ handler'[g].pc = "instruct" => handler'[g] = handler[g]
  BY <1>6, <1>8
<1> QED BY <1>2, <1>3, <1>5, <1>6, <1>10, <1>11, <1>12, <1>13, DaemonStep

\* A poll that is cut keeps it.
LEMMA PollCutStep ==
  ASSUME PolicyInv, NEW l \in Lives, PollCut(l)
  PROVE  PolicyInv'
<1> DEFINE d == [daemon[l] EXCEPT !.awaits = 0]
<1>1. daemon \in [Lives -> Daemons] /\ Up(l) /\ daemon[l] \in UpDaemons
  BY StTells DEF PolicyInv, Types, PollCut, Up
<1>2. /\ d \in UpDaemons /\ d.mode = daemon[l].mode /\ d.ceiling = daemon[l].ceiling
      /\ d.ack = daemon[l].ack /\ d.eff = daemon[l].eff /\ d.awaits \notin Handlers
      /\ d.st = "up" /\ d.ack.rev \in Nat
  BY <1>1 DEF UpDaemons, Acks, Handlers
<1>3. /\ daemon' = [daemon EXCEPT ![l] = d] /\ handler' = Unheard(l)
      /\ row' = row /\ operator' = operator
  BY DEF PollCut
<1>4. d \in Daemons /\ DaemonFits(l)
  BY <1>2 DEF Daemons, PolicyInv, DaemonsFit
<1> HIDE DEF d
<1>5. /\ handler' \in [Handlers -> Polls]
      /\ \A g \in Handlers : handler'[g] = handler[g] \/ handler'[g].pc = "idle"
      /\ \A g \in Handlers : handler'[g].pc = "instruct" => handler'[g] = handler[g]
  BY <1>3, Unhearing
<1>6. /\ daemon[l].ack.rev <= d.ack.rev /\ d.ack.rev <= row.rev /\ d.st # "off"
      /\ d.ack.rev = row.rev => d.ack.cap = row.requested
      /\ d.ack.cap # 0 => d.eff = d.ack.cap
  BY <1>1, <1>2, <1>4 DEF DaemonFits
<1> QED BY <1>1, <1>2, <1>3, <1>4, <1>5, <1>6, DaemonStep

\* A crash keeps it.
LEMMA CrashStep ==
  ASSUME PolicyInv, NEW l \in Lives, Crash(l)
  PROVE  PolicyInv'
<1> DEFINE d == [st |-> "gone"]
<1>1. d \in Daemons /\ d.st = "gone"
  BY DEF Daemons
<1>2. /\ daemon' = [daemon EXCEPT ![l] = d] /\ handler' = Unheard(l)
      /\ row' = row /\ operator' = operator
  BY DEF Crash
<1> HIDE DEF d
<1>3. /\ handler' \in [Handlers -> Polls]
      /\ \A g \in Handlers : handler'[g] = handler[g] \/ handler'[g].pc = "idle"
      /\ \A g \in Handlers : handler'[g].pc = "instruct" => handler'[g] = handler[g]
  BY <1>2, Unhearing
<1> QED BY <1>1, <1>2, <1>3, DaemonStep

\* An answer that is received keeps it.
LEMMA ReceiveStep ==
  ASSUME PolicyInv, NEW l \in Lives, Receive(l)
  PROVE  PolicyInv'
<1> DEFINE k == daemon[l].awaits
           a == handler[k]
           d == Received(daemon[l], a)
<1>1. daemon \in [Lives -> Daemons] /\ handler \in [Handlers -> Polls] /\ row \in RunnerRows
  BY DEF PolicyInv, Types
<1>2. Up(l) /\ daemon[l] \in UpDaemons /\ DaemonFits(l)
  BY <1>1, StTells DEF PolicyInv, DaemonsFit, Receive, Up
<1>3. /\ daemon' = [daemon EXCEPT ![l] = d] /\ handler' = [handler EXCEPT ![k] = Idle]
      /\ row' = row /\ operator' = operator
  BY <1>1 DEF Receive
<1>4. /\ handler' \in [Handlers -> Polls] /\ Idle.pc = "idle"
      /\ \A g \in Handlers : handler'[g] = handler[g] \/ handler'[g].pc = "idle"
      /\ \A g \in Handlers : handler'[g].pc = "instruct" => handler'[g] = handler[g]
  BY <1>1, <1>3 DEF Polls, Idle
<1>5. CASE d = [st |-> "gone"]
  <2>1. d \in Daemons /\ d.st = "gone"
    BY <1>5 DEF Daemons
  <2> HIDE DEF d
  <2> QED BY <1>3, <1>4, <2>1, DaemonStep
<1>6. CASE d = [daemon[l] EXCEPT !.awaits = 0]
  <2>1. /\ d \in UpDaemons /\ d.mode = daemon[l].mode /\ d.ceiling = daemon[l].ceiling
        /\ d.ack = daemon[l].ack /\ d.eff = daemon[l].eff /\ d.awaits \notin Handlers
        /\ d.st = "up" /\ d.ack.rev \in Nat
    BY <1>2, <1>6 DEF UpDaemons, Acks, Handlers
  <2>2. d \in Daemons
    BY <2>1 DEF Daemons
  <2> HIDE DEF d
  <2>3. /\ daemon[l].ack.rev <= d.ack.rev /\ d.ack.rev <= row.rev /\ d.st # "off"
        /\ d.ack.rev = row.rev => d.ack.cap = row.requested
        /\ d.ack.cap # 0 => d.eff = d.ack.cap
    BY <1>2, <2>1 DEF DaemonFits
  <2> QED BY <1>2, <1>3, <1>4, <2>1, <2>2, <2>3, DaemonStep
<1>7. CASE Applies(daemon[l], a) /\ d = AppliedDaemon(daemon[l], a)
  <2>1. k \in Handlers /\ a.pc = "instruct"
    BY <1>2, <1>7 DEF Applies, UpDaemons, Receive
  <2>2. a \in Instructions /\ PollFits(a)
    BY <1>1, <2>1, PcTells DEF PolicyInv, PollsFit
  <2>3. daemon[l].ack.rev <= a.rev
    BY <1>2, <2>1 DEF PolicyInv, AnswersFit
  <2>4. /\ d \in UpDaemons /\ d.mode = daemon[l].mode /\ d.ceiling = daemon[l].ceiling
        /\ d.eff = a.cap /\ d.ack.rev = a.rev /\ d.ack.cap = a.cap /\ d.st = "up"
        /\ d.awaits = 0
    <3> HIDE DEF d, a, k
    <3>1. d = AppliedDaemon(daemon[l], a) /\ daemon[l] \in UpDaemons /\ a \in Instructions
      BY <1>2, <1>7, <2>2
    <3>2. /\ d \in UpDaemons /\ d.mode = daemon[l].mode /\ d.ceiling = daemon[l].ceiling
          /\ d.eff = a.cap /\ d.ack = [rev |-> a.rev, cap |-> a.cap] /\ d.awaits = 0
      BY <3>1, AppliedFields
    <3> QED BY <3>2 DEF UpDaemons
  <2> HIDE DEF d
  <2>5. /\ daemon[l].ack.rev <= d.ack.rev /\ d.ack.rev <= row.rev /\ d.st # "off"
        /\ d.ack.rev = row.rev => d.ack.cap = row.requested
        /\ d.ack.cap # 0 => d.eff = d.ack.cap
        /\ d \in Daemons /\ d.awaits \notin Handlers
    BY <2>1, <2>2, <2>3, <2>4 DEF PollFits, Daemons, Handlers
  <2> QED BY <1>2, <1>3, <1>4, <2>4, <2>5, DaemonStep
<1> QED BY <1>5, <1>6, <1>7 DEF Received, AppliedDaemon

\* What a poll becomes when it is recognised, and when its row is read.
LEMMA Recognised ==
  ASSUME PolicyInv, NEW h \in Handlers, handler[h].pc \in Reports, Known(h),
         handler[h].tries \in Nat
  PROVE  \E x \in KnownPolls :
           /\ handler' = [handler EXCEPT ![h] = x]
           /\ x.life = handler[h].life /\ x.mode = handler[h].mode
           /\ x.ceiling = handler[h].ceiling /\ x.ack = handler[h].ack
<1> DEFINE x == [pc |-> "known", life |-> handler[h].life, mode |-> handler[h].mode,
                 ceiling |-> handler[h].ceiling, ack |-> handler[h].ack,
                 tries |-> handler[h].tries]
<1>1. handler[h] \in Polls
  BY DEF PolicyInv, Types
<1>2. x \in KnownPolls
  BY <1>1, PcTells DEF KnownPolls
<1>3. handler' = [handler EXCEPT ![h] = x]
  BY DEF Known
<1>4. /\ x.life = handler[h].life /\ x.mode = handler[h].mode
      /\ x.ceiling = handler[h].ceiling /\ x.ack = handler[h].ack
  OBVIOUS
<1> HIDE DEF x
<1> QED BY <1>2, <1>3, <1>4

\* A handler that reads the row keeps the poll it answers.
LEMMA Read ==
  ASSUME PolicyInv, NEW h \in Handlers, handler[h].pc \in Reports,
         handler[h].tries \in Nat, NEW r \in RunnerRows, Reading(h, r)
  PROVE  \E x \in AdmittedPolls :
           /\ handler' = [handler EXCEPT ![h] = x]
           /\ x.life = handler[h].life /\ x.mode = handler[h].mode
           /\ x.ceiling = handler[h].ceiling /\ x.ack = handler[h].ack
<1> DEFINE x == [pc |-> "admitted", life |-> handler[h].life, mode |-> handler[h].mode,
                 ceiling |-> handler[h].ceiling, ack |-> handler[h].ack,
                 tries |-> handler[h].tries, row |-> Seen(r)]
<1>1. handler[h] \in Polls
  BY DEF PolicyInv, Types
<1>2. Seen(r) \in SeenRows
  BY DEF Seen, SeenRows, RunnerRows
<1>3. x \in AdmittedPolls
  BY <1>1, <1>2, PcTells DEF AdmittedPolls
<1>4. handler' = [handler EXCEPT ![h] = x]
  BY DEF Reading
<1>5. /\ x.life = handler[h].life /\ x.mode = handler[h].mode
      /\ x.ceiling = handler[h].ceiling /\ x.ack = handler[h].ack
  OBVIOUS
<1> HIDE DEF x
<1> QED BY <1>3, <1>4, <1>5

\* A poll that reports what another one reports fits as well.
LEMMA SameReport ==
  ASSUME NEW q, PollFits(q), q.pc \in Reports, NEW x,
         x.pc \in Reports, x.life = q.life, x.mode = q.mode, x.ceiling = q.ceiling, x.ack = q.ack
  PROVE  PollFits(x)
BY DEF PollFits, Reports

\* A step that refuses a poll.
LEMMA RefusalStep ==
  ASSUME PolicyInv, row' = row, daemon' = daemon, operator' = operator,
         NEW h \in Handlers, NEW a \in Refusals, Answer(h, a)
  PROVE  PolicyInv'
<1>1. PICK x \in {a, Idle} : handler' = [handler EXCEPT ![h] = x]
  BY DEF Answer
<1>2. x \in Polls /\ PollFits(x) /\ x.pc # "instruct"
  BY <1>1 DEF Polls, Refusals, Idle, PollFits, Reports
<1> QED BY <1>1, <1>2, HandlerStep

\* Authentication keeps the invariant.
LEMMA AuthenticateStep ==
  ASSUME PolicyInv, NEW h \in Handlers, Authenticate(h)
  PROVE  PolicyInv'
<1>1. /\ row' = row /\ daemon' = daemon /\ operator' = operator
      /\ handler[h].pc \in Reports /\ handler[h].pc = "sent"
  BY DEF Authenticate, Reports
<1>2. handler[h] \in SentPolls /\ handler[h].tries \in Nat /\ row \in RunnerRows
  <2>1. handler[h] \in Polls
    BY DEF PolicyInv, Types
  <2> QED BY <1>1, <2>1, PcTells DEF SentPolls, PolicyInv, Types
<1>3. PollFits(handler[h])
  BY DEF PolicyInv, PollsFit
<1>4. CASE Answer(h, [pc |-> "unauthorized"])
  <2>1. [pc |-> "unauthorized"] \in Refusals
    BY DEF Refusals
  <2> QED BY <1>1, <1>4, <2>1, RefusalStep
<1>5. CASE Reading(h, row)
  <2>1. PICK x \in AdmittedPolls :
          /\ handler' = [handler EXCEPT ![h] = x]
          /\ x.life = handler[h].life /\ x.mode = handler[h].mode
          /\ x.ceiling = handler[h].ceiling /\ x.ack = handler[h].ack
    BY <1>1, <1>2, <1>5, Read
  <2>2. x \in Polls /\ x.pc = "admitted" /\ x.pc \in Reports
    BY <2>1 DEF AdmittedPolls, Polls, Reports
  <2>3. PollFits(x)
    BY <1>1, <1>3, <2>1, <2>2, SameReport
  <2> QED BY <1>1, <2>1, <2>2, <2>3, HandlerStep
<1>6. CASE Known(h)
  <2>1. PICK x \in KnownPolls :
          /\ handler' = [handler EXCEPT ![h] = x]
          /\ x.life = handler[h].life /\ x.mode = handler[h].mode
          /\ x.ceiling = handler[h].ceiling /\ x.ack = handler[h].ack
    BY <1>1, <1>2, <1>6, Recognised
  <2>2. x \in Polls /\ x.pc = "known" /\ x.pc \in Reports
    BY <2>1 DEF KnownPolls, Polls, Reports
  <2>3. PollFits(x)
    BY <1>1, <1>3, <2>1, <2>2, SameReport
  <2> QED BY <1>1, <2>1, <2>2, <2>3, HandlerStep
<1> QED BY <1>4, <1>5, <1>6 DEF Authenticate

\* Admission keeps it.
LEMMA AdmitStep ==
  ASSUME PolicyInv, NEW h \in Handlers, Admit(h)
  PROVE  PolicyInv'
<1>1. /\ daemon' = daemon /\ operator' = operator
      /\ handler[h].pc \in Reports /\ handler[h].pc = "known"
  BY DEF Admit, Reports
<1>2. /\ handler[h] \in KnownPolls /\ handler[h].tries \in Nat /\ handler[h].life \in Lives
      /\ row \in RunnerRows
  <2>1. handler[h] \in Polls
    BY DEF PolicyInv, Types
  <2> QED BY <1>1, <2>1, PcTells DEF KnownPolls, PolicyInv, Types
<1>3. PollFits(handler[h])
  BY DEF PolicyInv, PollsFit
<1>4. CASE Fenced(handler[h].life)
  <2>1. [pc |-> "conflict"] \in Refusals
    BY DEF Refusals
  <2> QED BY <1>1, <1>4, <2>1, RefusalStep DEF Admit
<1>5. CASE ~Fenced(handler[h].life)
  <2> DEFINE l == handler[h].life
             p == Predecessor(l)
  <2>1. row' = TakenRow(row, l, p) /\ Reading(h, row')
    BY <1>5 DEF Admit, TakenRow
  <2>2. p \in Lives \cup {None} /\ p # l
    BY <1>2, <1>5, PolicyAssumption DEF Predecessor, Fenced, RunnerRows
  <2> HIDE DEF p, l
  <2>3. /\ row' \in RunnerRows /\ row'.cur = l /\ row'.fenced = p /\ Seen(row') = Seen(row)
    BY <1>2, <2>1, <2>2, TakenRowIs DEF l
  <2>4. /\ row'.rev = row.rev /\ row'.requested = row.requested /\ row'.mode = row.mode
        /\ row'.ceiling = row.ceiling /\ row'.max = row.max /\ row'.conc = row.conc
        /\ row'.applied = row.applied /\ row'.appliedBy = row.appliedBy
    BY <2>3 DEF Seen
  <2>5. RowFits' /\ ReportFits' /\ AskFits'
    BY <1>1, <2>2, <2>3, <2>4
       DEF PolicyInv, RowFits, ReportFits, AskFits, Fenced, Up
  <2>6. PICK x \in AdmittedPolls :
          /\ handler' = [handler EXCEPT ![h] = x]
          /\ x.life = handler[h].life /\ x.mode = handler[h].mode
          /\ x.ceiling = handler[h].ceiling /\ x.ack = handler[h].ack
    BY <1>1, <1>2, <2>1, <2>3, Read
  <2>7. x \in Polls /\ x.pc = "admitted" /\ x.pc \in Reports
    BY <2>6 DEF AdmittedPolls, Polls, Reports
  <2>8. PollFits(x)
    BY <1>1, <1>3, <2>6, <2>7, SameReport
  <2>9. handler' \in [Handlers -> Polls] /\ handler'[h] = x
        /\ \A g \in Handlers : g # h => handler'[g] = handler[g]
    BY <2>6, <2>7 DEF PolicyInv, Types
  <2>10. PollFits(handler[h])'
    BY <1>1, <2>7, <2>8, <2>9 DEF PollFits, Up
  <2>11. operator' \in Asks \cup {Idle}
    BY <1>1 DEF PolicyInv, Types
  <2> QED BY <1>1, <2>3, <2>4, <2>5, <2>7, <2>9, <2>10, <2>11, RowStep
<1> QED BY <1>4, <1>5

\* A heartbeat that lands writes the report of its boot, or a new revision.
LEMMA HeartbeatStep ==
  ASSUME PolicyInv, NEW h \in Handlers, Heartbeat(h)
  PROVE  /\ PolicyInv'
         /\ row'.rev >= row.rev
         /\ row'.rev = row.rev => /\ row'.mode = row.mode /\ row'.ceiling = row.ceiling
                                  /\ row'.requested = row.requested
         /\ handler[h].mode # "legacy" => row.cur = handler[h].life
<1> DEFINE q == handler[h]
           n == NextRequested(q)
           v == NextRevision(q)
           c == NextCeiling(q)
<1>1. /\ daemon' = daemon /\ operator' = operator /\ q.pc = "admitted" /\ q.pc \in Reports
      /\ Unchanged(q) /\ row' = Reported(q) /\ Answer(h, Instruction(q))
  BY DEF Heartbeat, Reports
<1>2. q \in AdmittedPolls /\ q \in Polls /\ row \in RunnerRows
  <2>1. q \in Polls
    BY DEF PolicyInv, Types
  <2> QED BY <1>1, <2>1, PcTells DEF PolicyInv, Types
<1>3. /\ q.life \in Lives /\ q.mode \in Modes /\ q.ceiling \in Caps /\ q.ack \in Acks
      /\ q.row \in SeenRows
  BY <1>2 DEF AdmittedPolls
<1>4. PollFits(q)
  BY DEF PolicyInv, PollsFit
<1>5. /\ n \in Caps /\ n <= q.ceiling /\ n \in 0..MaxCap /\ c \in 0..MaxCap
      /\ q.mode = "remote" => c = q.ceiling
      /\ v \in Nat /\ v >= q.row.rev /\ (v = q.row.rev => ~PolicyChanged(q))
  BY <1>2, NextPolicy
<1>6. /\ q.row.mode = row.mode /\ q.row.ceiling = row.ceiling
      /\ q.row.requested = row.requested /\ q.row.rev = row.rev
      /\ q.row.applied = row.applied /\ q.row.appliedBy = row.appliedBy
      /\ q.mode # "legacy" => row.cur = q.life
  BY <1>1, <1>2, UnchangedRow DEF PolicyInv
<1>7. /\ row.rev \in Nat /\ row'.rev = v /\ row'.mode = q.mode /\ row'.ceiling = c
      /\ row'.requested = n /\ row'.max = n /\ row'.cur = row.cur /\ row'.fenced = row.fenced
      /\ row'.token = row.token
      /\ row'.conc = IF q.mode = "legacy" THEN None ELSE q.life
      /\ row'.applied = IF q.mode = "legacy" THEN NoAck
                        ELSE IF Acknowledges(q) THEN q.ack ELSE row.applied
      /\ row'.appliedBy = IF q.mode = "legacy" THEN None
                          ELSE IF Acknowledges(q) THEN q.life ELSE row.appliedBy
  BY <1>1, <1>2, <1>6 DEF Reported, RunnerRows
<1>8. v = row.rev => q.mode = row.mode /\ c = row.ceiling /\ n = row.requested
  BY <1>5, <1>6 DEF PolicyChanged
<1>9. row' \in RunnerRows
  <2>1. NoAck \in Acks
    BY PolicyAssumption DEF NoAck, Acks
  <2>2. row'.applied \in Acks /\ row'.appliedBy \in Lives \cup {None}
        /\ row'.conc \in Lives \cup {None}
    BY <1>2, <1>3, <1>7, <2>1 DEF RunnerRows
  <2> HIDE DEF n, v, c, q
  <2> QED BY <1>1, <1>2, <1>3, <1>5, <1>7, <2>2 DEF Reported, RunnerRows
<1>10. row'.rev # 0
  <2>1. CASE row.rev = 0
    <3>1. row.requested = 0
      BY <2>1 DEF PolicyInv, RowFits
    <3> QED BY <1>5, <1>7, <1>8, <2>1, <3>1 DEF Caps
  <2>2. CASE row.rev # 0
    BY <1>5, <1>6, <1>7, <2>2
  <2> QED BY <2>1, <2>2
<1>11. RowFits'
  <2>1. q.mode = "remote" => n \in 1..c
    BY <1>3, <1>5 DEF Caps
  <2>2. row.cur # None => ~Fenced(row.cur)
    BY DEF PolicyInv, RowFits
  <2> QED BY <1>7, <1>10, <2>1, <2>2 DEF RowFits, Fenced
<1>12. ReportFits'
  <2>1. CASE q.mode = "legacy"
    BY <1>7, <2>1 DEF ReportFits
  <2>2. CASE q.mode # "legacy"
    <3>1. /\ daemon[q.life].st # "off"
          /\ Up(q.life) => /\ q.mode = daemon[q.life].mode /\ q.ceiling = daemon[q.life].ceiling
                           /\ q.ack.rev <= daemon[q.life].ack.rev
      BY <1>1, <1>4 DEF PollFits
    <3>2. c = q.ceiling
      BY <2>2 DEF NextCeiling
    <3>3. row'.conc = q.life
      BY <1>7, <2>2
    <3>4. CASE Acknowledges(q)
      <4>1. row'.appliedBy = q.life /\ row'.applied = q.ack
        BY <1>7, <2>2, <3>4
      <4> QED BY <1>1, <1>7, <3>1, <3>2, <3>3, <4>1 DEF ReportFits, Up
    <3>5. CASE ~Acknowledges(q)
      <4>1. row'.appliedBy = row.appliedBy /\ row'.applied = row.applied
        BY <1>7, <2>2, <3>5
      <4> QED BY <1>1, <1>7, <3>1, <3>2, <3>3, <4>1 DEF PolicyInv, ReportFits, Up
    <3> QED BY <3>4, <3>5
  <2> QED BY <2>1, <2>2
<1> DEFINE a == Instruction(q)
<1>13. a.pc = "instruct" /\ a.rev = row'.rev /\ a.cap = row'.requested /\ a \in Instructions
  BY <1>5, <1>7 DEF Instruction, Instructions
<1> HIDE DEF a
<1>14. /\ handler' \in [Handlers -> Polls] /\ \A g \in Handlers : g # h => handler'[g] = handler[g]
       /\ handler'[h] = a \/ handler'[h] = Idle
  BY <1>1, <1>13, Answers DEF a
<1>15. /\ PollFits(handler[h])' /\ (handler'[h].pc = "instruct" => handler'[h].rev = row'.rev)
  BY <1>7, <1>5, <1>13, <1>14 DEF PollFits, Reports, Idle
<1>16. operator' \in Asks \cup {Idle} /\ AskFits'
  BY <1>1 DEF PolicyInv, Types, AskFits
<1>17. \/ row'.rev > row.rev
       \/ row'.rev = row.rev /\ row'.requested = row.requested
  BY <1>5, <1>6, <1>7, <1>8
<1>18. PolicyInv'
  BY <1>1, <1>9, <1>11, <1>12, <1>14, <1>15, <1>16, <1>17, RowStep
<1> QED BY <1>5, <1>6, <1>7, <1>8, <1>18

\* Reconciling the policy keeps it.
LEMMA ReconcileStep ==
  ASSUME PolicyInv, NEW h \in Handlers, Reconcile(h)
  PROVE  PolicyInv'
<1> DEFINE q == handler[h]
<1>1. /\ row' = row /\ daemon' = daemon /\ operator' = operator
      /\ q.pc = "admitted" /\ q.pc \in Reports
  BY DEF Reconcile, Reports
<1>2. q \in AdmittedPolls /\ q \in Polls /\ row \in RunnerRows /\ PollFits(q)
  <2>1. q \in Polls
    BY DEF PolicyInv, Types
  <2> QED BY <1>1, <2>1, PcTells DEF PolicyInv, Types, PollsFit
<1>3. CASE Answer(h, [pc |-> "conflict"])
  <2>1. [pc |-> "conflict"] \in Refusals
    BY DEF Refusals
  <2> QED BY <1>1, <1>3, <2>1, RefusalStep
<1>4. CASE q.mode = "legacy" /\ handler' = [handler EXCEPT ![h] =
                                 [q EXCEPT !.row = Seen(row), !.tries = q.tries + 1]]
  <2> DEFINE y == [q EXCEPT !.row = Seen(row)]
             x == [y EXCEPT !.tries = q.tries + 1]
  <2>1. Seen(row) \in SeenRows
    BY <1>2 DEF Seen, SeenRows, RunnerRows
  <2>2. y \in AdmittedPolls /\ y.life = q.life /\ y.mode = q.mode /\ y.ceiling = q.ceiling
        /\ y.ack = q.ack /\ q.tries \in Nat
    BY <1>2, <2>1 DEF AdmittedPolls
  <2> HIDE DEF y
  <2>3. x \in AdmittedPolls /\ x.life = q.life /\ x.mode = q.mode /\ x.ceiling = q.ceiling
        /\ x.ack = q.ack
    BY <2>2 DEF AdmittedPolls
  <2>4. handler' = [handler EXCEPT ![h] = x]
    BY <1>4 DEF y
  <2> HIDE DEF x, q
  <2>5. x \in Polls /\ x.pc = "admitted" /\ x.pc \in Reports
    BY <2>3 DEF AdmittedPolls, Polls, Reports
  <2>6. PollFits(x)
    BY <1>1, <1>2, <2>3, <2>5, SameReport
  <2> QED BY <1>1, <2>4, <2>5, <2>6, HandlerStep
<1>5. CASE handler' = [handler EXCEPT ![h] =
                        [pc |-> "known", life |-> q.life, mode |-> q.mode,
                         ceiling |-> q.ceiling, ack |-> q.ack, tries |-> q.tries + 1]]
  <2> DEFINE x == [pc |-> "known", life |-> q.life, mode |-> q.mode,
                   ceiling |-> q.ceiling, ack |-> q.ack, tries |-> q.tries + 1]
  <2>1. x \in KnownPolls /\ x.life = q.life /\ x.mode = q.mode /\ x.ceiling = q.ceiling
        /\ x.ack = q.ack
    BY <1>2 DEF KnownPolls, AdmittedPolls
  <2>2. handler' = [handler EXCEPT ![h] = x]
    BY <1>5
  <2> HIDE DEF x, q
  <2>3. x \in Polls /\ x.pc = "known" /\ x.pc \in Reports
    BY <2>1 DEF KnownPolls, Polls, Reports
  <2>4. PollFits(x)
    BY <1>1, <1>2, <2>1, <2>3, SameReport
  <2> QED BY <1>1, <2>2, <2>3, <2>4, HandlerStep
<1> QED BY <1>3, <1>4, <1>5 DEF Reconcile

\* A step of the person who changes the cap, or of the token, leaves the polls.
LEMMA RequestCapStep ==
  ASSUME PolicyInv, NEW cap \in 1..MaxCap + 1, RequestCap(cap)
  PROVE  PolicyInv'
<1> DEFINE o == [pc |-> "ask", cap |-> cap, rev |-> row.rev, ceiling |-> row.ceiling]
<1>1. /\ operator' = o /\ row' = row /\ daemon' = daemon /\ handler' = handler
      /\ cap <= row.ceiling
  BY DEF RequestCap, WithinCeiling
<1>2. row \in RunnerRows /\ row.rev \in Nat /\ row.ceiling \in 0..MaxCap
  BY DEF PolicyInv, Types, RunnerRows
<1>3. o \in Asks /\ o.cap \in 1..o.ceiling
  BY <1>1, <1>2, PolicyAssumption DEF Asks
<1> HIDE DEF o
<1>4. AskFits' /\ RowFits' /\ ReportFits'
  BY <1>1, <1>3 DEF PolicyInv, AskFits, RowFits, ReportFits, Fenced, Up
<1>5. handler' \in [Handlers -> Polls]
  BY <1>1 DEF PolicyInv, Types
<1> QED BY <1>1, <1>2, <1>3, <1>4, <1>5, RowStep

\* Committing a cap keeps it.
LEMMA CommitCapStep ==
  ASSUME PolicyInv, CommitCap
  PROVE  /\ PolicyInv'
         /\ row' = row \/ row'.rev > row.rev
<1>1. operator.pc = "ask" /\ operator' = Idle /\ daemon' = daemon /\ handler' = handler
  BY DEF CommitCap
<1>2. /\ operator \in Asks /\ row \in RunnerRows /\ handler \in [Handlers -> Polls]
      /\ operator.cap \in 1..operator.ceiling
  BY <1>1 DEF PolicyInv, Types, AskFits, Idle
<1>3. AskFits' /\ operator' \in Asks \cup {Idle} /\ handler' \in [Handlers -> Polls]
  BY <1>1, <1>2 DEF AskFits, Idle
<1>4. CASE row' = row
  <2>1. RowFits' /\ ReportFits'
    BY <1>1, <1>4 DEF PolicyInv, RowFits, ReportFits, Fenced, Up
  <2> QED BY <1>1, <1>2, <1>3, <1>4, <2>1, RowStep
<1>5. CASE Adjustable /\ row.rev = operator.rev /\ row.ceiling = operator.ceiling
           /\ row' = CappedRow(row, operator.cap, operator.rev + 1)
  <2> DEFINE c == operator.cap
             n == operator.rev + 1
  <2>1. c \in Caps /\ n \in Nat /\ n > row.rev /\ c \in 1..row.ceiling /\ row.mode = "remote"
        /\ n # 0
    BY <1>2, <1>5, PolicyAssumption DEF Asks, Caps, RunnerRows, Adjustable
  <2>2. row' = CappedRow(row, c, n)
    BY <1>5
  <2> HIDE DEF c, n
  <2>3. /\ row' \in RunnerRows /\ row'.max = c /\ row'.requested = c /\ row'.rev = n
        /\ row'.cur = row.cur /\ row'.fenced = row.fenced /\ row'.mode = row.mode
        /\ row'.ceiling = row.ceiling /\ row'.conc = row.conc
        /\ row'.applied = row.applied /\ row'.appliedBy = row.appliedBy
    BY <1>2, <2>1, <2>2, Capped, SMTT(30)
  <2>4. RowFits' /\ ReportFits'
    BY <1>1, <2>1, <2>3 DEF PolicyInv, RowFits, ReportFits, Fenced, Up
  <2>5. row'.rev > row.rev
    BY <2>1, <2>3
  <2> QED BY <1>1, <1>3, <2>3, <2>4, <2>5, RowStep
<1> QED BY <1>4, <1>5 DEF CommitCap, CappedRow

\* Rotating the token keeps it.
LEMMA RotateStep ==
  ASSUME PolicyInv, RotateToken
  PROVE  /\ PolicyInv'
         /\ row'.rev = row.rev /\ row'.mode = row.mode /\ row'.ceiling = row.ceiling
         /\ row'.requested = row.requested
<1>1. /\ daemon' = daemon /\ operator' = operator /\ handler' = handler
      /\ row.token < MaxTokens /\ row' = RotatedRow(row)
  BY DEF RotateToken, RotatedRow
<1>2. row \in RunnerRows /\ handler \in [Handlers -> Polls] /\ operator \in Asks \cup {Idle}
  BY DEF PolicyInv, Types
<1>3. /\ row' \in RunnerRows /\ row'.conc = None /\ row'.appliedBy = None
      /\ row'.cur = row.cur /\ row'.fenced = row.fenced /\ row'.mode = row.mode
      /\ row'.ceiling = row.ceiling /\ row'.requested = row.requested /\ row'.max = row.max
      /\ row'.rev = row.rev /\ row'.applied = row.applied
  BY <1>1, <1>2, Rotated
<1>4. RowFits' /\ ReportFits' /\ AskFits'
  BY <1>1, <1>3 DEF PolicyInv, RowFits, ReportFits, AskFits, Fenced
<1> QED BY <1>1, <1>2, <1>3, <1>4, RowStep

\* A stutter keeps it.
LEMMA StutterStep ==
  ASSUME PolicyInv, UNCHANGED policyVars
  PROVE  PolicyInv'
<1>1. row' = row /\ daemon' = daemon /\ handler' = handler /\ operator' = operator
  BY DEF policyVars
<1>2. /\ RowFits' /\ ReportFits' /\ AskFits' /\ row' \in RunnerRows
      /\ handler' \in [Handlers -> Polls] /\ operator' \in Asks \cup {Idle}
  BY <1>1 DEF PolicyInv, RowFits, ReportFits, AskFits, Fenced, Up, Types
<1> QED BY <1>1, <1>2, RowStep

\* Every step keeps it.
LEMMA PolicyStep == PolicyInv /\ [PolicyNext]_policyVars => PolicyInv'
BY BootStep, PollStep, PollCutStep, CrashStep, ReceiveStep, AuthenticateStep, AdmitStep,
   HeartbeatStep, ReconcileStep, RequestCapStep, CommitCapStep, RotateStep, StutterStep
   DEF PolicyNext, ServerStep

-----------------------------------------------------------------------------
(* Theorems *)

\* The row is well formed, and the boot that serves is never the fenced one: of two
\* daemons that share a token one always goes on (admitDaemonInstance).
THEOREM PolicyTypeCorrect == PolicySpec => []PolicyTypeOK
<1>1. PolicyInv => PolicyTypeOK
  <2> SUFFICES ASSUME PolicyInv PROVE PolicyTypeOK
    OBVIOUS
  <2>1. ASSUME NEW l \in Lives, Up(l) PROVE daemon[l] \in UpDaemons
    BY <2>1, StTells DEF PolicyInv, Types, Up
  <2>2. row \in RunnerRows /\ (row.cur # None => ~Fenced(row.cur))
    BY DEF PolicyInv, Types, RowFits
  <2> QED BY <2>1, <2>2 DEF PolicyTypeOK, UpDaemons
<1> QED BY <1>1, TypeInit, PolicyStep, PTL DEF PolicySpec

\* What the web shows as applied is what the serving daemon schedules by and within
\* its ceiling, however reports, acknowledgements and requests cross each other.
THEOREM ShownIsTrue == PolicySpec => []AppliedIsTrue
<1>1. PolicyInv => AppliedIsTrue
  <2> SUFFICES ASSUME PolicyInv, ShownApplied, Up(row.cur)
               PROVE  /\ daemon[row.cur].eff = row.requested
                      /\ row.max <= daemon[row.cur].ceiling
    BY DEF AppliedIsTrue
  <2> DEFINE l == row.cur
  <2>1. /\ row \in RunnerRows /\ row.mode = "remote" /\ row.conc = l /\ row.appliedBy = l
        /\ l # None /\ row.applied.rev = row.rev
    BY DEF PolicyInv, Types, ShownApplied, Adjustable
  <2>2. l \in Lives /\ row.rev \in Nat
    BY <2>1 DEF RunnerRows
  <2>3. daemon[l] \in UpDaemons /\ daemon[l].ack.rev \in Nat
    BY <2>2, StTells DEF PolicyInv, Types, Up, UpDaemons, Acks
  <2>4. row.rev <= daemon[l].ack.rev /\ row.ceiling = daemon[l].ceiling
    BY <2>1 DEF PolicyInv, ReportFits
  <2>5. row.max = row.requested /\ row.requested \in 1..row.ceiling
    BY <2>1 DEF PolicyInv, RowFits
  <2>6. DaemonFits(l)
    BY <2>2 DEF PolicyInv, DaemonsFit
  <2>7. daemon[l].ack.rev = row.rev /\ daemon[l].ack.cap = row.requested
    BY <2>2, <2>3, <2>4, <2>6 DEF DaemonFits
  <2>8. daemon[l].eff = row.requested
    BY <2>5, <2>6, <2>7 DEF DaemonFits
  <2> QED BY <2>4, <2>5, <2>8
<1> QED BY <1>1, TypeInit, PolicyStep, PTL DEF PolicySpec

\* No two policies of a runner ever share a revision (reconciliationGuard and the
\* revision check of updateRunner).
THEOREM RevisionsNamePolicies == PolicySpec => RevisionNamesPolicy
<1> DEFINE Named == /\ row'.rev >= row.rev
                    /\ row'.rev = row.rev => /\ row'.mode = row.mode
                                             /\ row'.ceiling = row.ceiling
                                             /\ row'.requested = row.requested
<1>1. ASSUME PolicyInv, [PolicyNext]_policyVars PROVE Named
  <2>1. row.rev \in Nat /\ row \in RunnerRows
    BY <1>1 DEF PolicyInv, Types, RunnerRows
  <2>2. ASSUME row' = row PROVE Named
    BY <2>1, <2>2
  <2>3. ASSUME NEW h \in Handlers, Heartbeat(h) PROVE Named
    BY <1>1, <2>3, HeartbeatStep
  <2>4. ASSUME NEW h \in Handlers, Admit(h) PROVE Named
    <3>1. row' = row \/ row' = TakenRow(row, handler[h].life, Predecessor(handler[h].life))
      BY <2>4 DEF Admit, TakenRow
    <3>2. CASE row' = TakenRow(row, handler[h].life, Predecessor(handler[h].life))
      <4> DEFINE y == [row EXCEPT !.cur = handler[h].life]
      <4>1. row' = [y EXCEPT !.fenced = Predecessor(handler[h].life)]
        BY <3>2 DEF TakenRow
      <4>2. /\ y.rev = row.rev /\ y.mode = row.mode /\ y.ceiling = row.ceiling
            /\ y.requested = row.requested
            /\ DOMAIN y = {"token", "cur", "fenced", "mode", "ceiling", "requested", "max",
                           "rev", "conc", "applied", "appliedBy"}
        BY <2>1 DEF RunnerRows
      <4> HIDE DEF y
      <4> QED BY <2>1, <4>1, <4>2
    <3> QED BY <2>2, <3>1, <3>2
  <2>5. ASSUME CommitCap PROVE Named
    BY <1>1, <2>1, <2>2, <2>5, CommitCapStep DEF PolicyInv, Types, RunnerRows
  <2>6. ASSUME RotateToken PROVE Named
    BY <1>1, <2>1, <2>6, RotateStep
  <2>7. ASSUME NEW l \in Lives,
               \/ \E p \in Policies : Boot(l, p)
               \/ \E h \in Handlers : Poll(l, h)
               \/ PollCut(l) \/ Crash(l) \/ Receive(l)
        PROVE  row' = row
    BY <2>7 DEF Boot, Poll, PollCut, Crash, Receive
  <2>8. ASSUME NEW h \in Handlers, Authenticate(h) \/ Reconcile(h) PROVE row' = row
    BY <2>8 DEF Authenticate, Reconcile
  <2>9. ASSUME (\E cap \in 1..MaxCap + 1 : RequestCap(cap)) \/ UNCHANGED policyVars
        PROVE  row' = row
    BY <2>9 DEF RequestCap, policyVars
  <2> QED BY <1>1, <2>2, <2>3, <2>4, <2>5, <2>6, <2>7, <2>8, <2>9 DEF PolicyNext, ServerStep
<1>2. PolicyInv /\ [PolicyNext]_policyVars => [Named]_policyVars
  BY <1>1
<1> QED BY <1>2, TypeInit, PolicyStep, PTL DEF PolicySpec, RevisionNamesPolicy

\* A boot that has been superseded changes nothing any more, wherever its poll was
\* when it lost the runner (admitDaemonInstance, the guard of the heartbeat).
THEOREM SupersededIsSilent == PolicySpec => FencedIsSilent
<1> DEFINE Silent == \A h \in Handlers :
             handler[h].pc \in {"known", "admitted"} /\ handler[h].mode # "legacy"
               /\ Fenced(handler[h].life) /\ handler'[h] # handler[h] => row' = row
<1>1. ASSUME PolicyInv, [PolicyNext]_policyVars PROVE Silent
  <2> SUFFICES ASSUME NEW h \in Handlers, handler[h].pc \in {"known", "admitted"},
                      handler[h].mode # "legacy", Fenced(handler[h].life),
                      handler'[h] # handler[h]
               PROVE  row' = row
    OBVIOUS
  <2>0. row.cur # None => ~Fenced(row.cur)
    BY <1>1 DEF PolicyInv, RowFits
  <2>1. handler[h].life \in Lives
    <3>1. handler[h] \in Polls /\ handler[h].pc \in Reports
      BY <1>1 DEF PolicyInv, Types, Reports
    <3> QED BY <3>1, PcTells
  <2>2. ASSUME NEW g \in Handlers, Heartbeat(g) PROVE row' = row
    <3>1. CASE g = h
      BY <1>1, <2>0, <2>1, <2>2, <3>1, HeartbeatStep, PolicyAssumption
    <3>2. CASE g # h
      <4>1. handler' = [handler EXCEPT ![g] = handler'[g]]
        BY <1>1, <2>2 DEF Heartbeat, Answer, PolicyInv, Types
      <4> QED BY <1>1, <3>2, <4>1 DEF PolicyInv, Types
    <3> QED BY <3>1, <3>2
  <2>3. ASSUME NEW g \in Handlers, Admit(g) PROVE row' = row
    <3>1. CASE g = h
      BY <2>3, <3>1 DEF Admit
    <3>2. CASE g # h
      <4>1. handler'[h] = handler[h]
        BY <1>1, <2>3, <3>2 DEF Admit, Answer, Reading, PolicyInv, Types
      <4> QED BY <4>1
    <3> QED BY <3>1, <3>2
  <2>4. ASSUME CommitCap \/ RotateToken PROVE row' = row
    BY <2>4 DEF CommitCap, RotateToken
  <2>5. ASSUME NEW l \in Lives,
               \/ \E p \in Policies : Boot(l, p)
               \/ \E g \in Handlers : Poll(l, g)
               \/ PollCut(l) \/ Crash(l) \/ Receive(l)
        PROVE  row' = row
    BY <2>5 DEF Boot, Poll, PollCut, Crash, Receive
  <2>6. ASSUME NEW g \in Handlers, Authenticate(g) \/ Reconcile(g) PROVE row' = row
    BY <2>6 DEF Authenticate, Reconcile
  <2>7. ASSUME (\E cap \in 1..MaxCap + 1 : RequestCap(cap)) \/ UNCHANGED policyVars
        PROVE  row' = row
    BY <2>7 DEF RequestCap, policyVars
  <2> QED BY <1>1, <2>2, <2>3, <2>4, <2>5, <2>6, <2>7 DEF PolicyNext, ServerStep
<1>2. PolicyInv /\ [PolicyNext]_policyVars => [Silent]_policyVars
  BY <1>1
<1> QED BY <1>2, TypeInit, PolicyStep, PTL DEF PolicySpec, FencedIsSilent

-----------------------------------------------------------------------------
(* The holds: types, and what a handler in flight may still write.          *)

Reasons == {"none", "rate_limit"}
HoldRows == [until : Nat, reason : Reasons, failures : 0..MaxFailures]
NoteKinds == {"interruption", "limit"}
BegunNotes == [pc : {"begun"}, kind : NoteKinds, now : Nat, until : Nat]
ReadNotes == [pc : {"read"}, kind : NoteKinds, now : Nat, until : Nat, failures : 0..MaxFailures]
ReadPasses == [pc : {"read"}, now : Nat, until : Nat, failures : 0..MaxFailures]

HoldTypes ==
  /\ hclock \in Nat /\ hold \in HoldRows /\ counted \subseteq Nat
  /\ note \in [Notes -> BegunNotes \cup ReadNotes \cup {Resting}]
  /\ pass \in [Passes -> ReadPasses \cup {Resting}]

\* A handler in flight began at most MaxAge ago.
Young(h) == h.pc # "idle" => h.now <= hclock /\ hclock <= h.now + MaxAge

\* A usage limit that is being noted holds past the life of its handler, and not
\* past the daily probe.
LimitFits(h) == h.pc # "idle" => h.now + MaxAge <= h.until /\ h.until <= h.now + LongestHold

HoldsInv ==
  /\ HoldTypes
  /\ hold.until <= hclock + LongestHold
  /\ \A n \in Notes : Young(note[n]) /\ LimitFits(note[n])
  /\ \A p \in Passes : Young(pass[p])
  /\ \A t \in counted : t <= hclock /\ t <= hold.until

\* The smaller of two numbers.
LEMMA LesserOfTwo ==
  ASSUME NEW m \in Nat, NEW n \in Nat
  PROVE  Min({m, n}) = IF m <= n THEN m ELSE n
BY DEF Min

\* A reported reset holds a runner past the life of the handler that notes it,
\* and never past the daily probe (rateLimitHoldUntil).
LEMMA LimitHolds ==
  ASSUME NEW resumeAt \in Nat, NEW now \in Nat
  PROVE  /\ HoldUntil(resumeAt, now) \in Nat
         /\ now + MaxAge <= HoldUntil(resumeAt, now)
         /\ HoldUntil(resumeAt, now) <= now + LongestHold
<1>1. CASE resumeAt <= now
  BY <1>1, HoldAssumption, AgeAssumption DEF HoldUntil
<1>2. CASE ~(resumeAt <= now)
  <2>1. resumeAt + Grace \in Nat /\ now + LongestHold \in Nat
    BY HoldAssumption
  <2>2. HoldUntil(resumeAt, now) = Min({resumeAt + Grace, now + LongestHold})
    BY <1>2 DEF HoldUntil
  <2>3. HoldUntil(resumeAt, now) = IF resumeAt + Grace <= now + LongestHold
                                   THEN resumeAt + Grace ELSE now + LongestHold
    BY <2>1, <2>2, LesserOfTwo
  <2> QED BY <1>2, <2>3, HoldAssumption, AgeAssumption
<1> QED BY <1>1, <1>2

\* The backoff of a counted failure lasts at least the life of the handler that
\* writes it, and never past the daily probe (launchBackoffMs).
LEMMA BackoffHolds ==
  ASSUME NEW k \in 0..MaxFailures
  PROVE  /\ LaunchBackoff(k + 1) \in Nat
         /\ MaxAge <= LaunchBackoff(k + 1) /\ LaunchBackoff(k + 1) <= LongestHold
<1> DEFINE m == 2 ^ k
<1>1. m \in Nat \ {0} /\ (k + 1) - 1 = k /\ k + 1 # 0
  BY PowerAssumption, HoldAssumption
<1>2. LaunchBackoff(k + 1) = Min({Base * m, MaxBackoff})
  BY <1>1 DEF LaunchBackoff
<1> HIDE DEF m
<1>3. Base * m \in Nat /\ Base <= Base * m
  BY <1>1, HoldAssumption
<1>4. LaunchBackoff(k + 1) = IF Base * m <= MaxBackoff THEN Base * m ELSE MaxBackoff
  BY <1>2, <1>3, LesserOfTwo, HoldAssumption
<1> QED BY <1>3, <1>4, HoldAssumption, AgeAssumption

\* A failed launch counts once more, and holds as long as its count asks for.
LEMMA FailureHolds ==
  ASSUME HoldTypes, hold.failures < MaxFailures, NEW c \in ReadPasses
  PROVE  /\ Failed(c) \in HoldRows
         /\ Failed(c).until = c.now + LaunchBackoff(c.failures + 1)
<1>1. LaunchBackoff(c.failures + 1) \in Nat /\ c.now \in Nat
  BY BackoffHolds DEF ReadPasses
<1>2. Failed(c) = [until |-> c.now + LaunchBackoff(c.failures + 1), reason |-> "none",
                   failures |-> hold.failures + 1]
  <2> DEFINE u == c.now + LaunchBackoff(c.failures + 1)
             f == hold.failures + 1
             x == [hold EXCEPT !.failures = f]
             y == [x EXCEPT !.reason = "none"]
  <2>1. Failed(c) = [y EXCEPT !.until = u]
    BY DEF Failed
  <2>2. hold = [until |-> hold.until, reason |-> hold.reason, failures |-> hold.failures]
    BY DEF HoldTypes, HoldRows
  <2> HIDE DEF u, f
  <2>3. x = [until |-> hold.until, reason |-> hold.reason, failures |-> f]
    BY <2>2
  <2> HIDE DEF x
  <2>4. y = [until |-> hold.until, reason |-> "none", failures |-> f]
    BY <2>3
  <2> HIDE DEF y
  <2>5. Failed(c) = [until |-> u, reason |-> "none", failures |-> f]
    BY <2>1, <2>4
  <2> QED BY <2>5 DEF u, f
<1> QED BY <1>1, <1>2, HoldAssumption DEF HoldTypes, HoldRows, Reasons

\* What was counted is covered by any hold that a young handler writes.
LEMMA NewHoldCovers ==
  ASSUME HoldsInv, NEW now \in Nat, hclock <= now + MaxAge, now <= hclock, NEW u \in Nat,
         now + MaxAge <= u, u <= now + LongestHold
  PROVE  u <= hclock + LongestHold /\ \A t \in counted : t <= hclock /\ t <= u
BY HoldAssumption DEF HoldsInv, HoldTypes

\* Nothing is held at first.
LEMMA HoldsStart == HoldsInit => HoldsInv
<1> SUFFICES ASSUME HoldsInit PROVE HoldsInv
  OBVIOUS
<1>1. HoldTypes
  BY HoldAssumption DEF HoldsInit, HoldTypes, HoldRows, Unheld, Reasons
<1> QED BY <1>1, HoldAssumption DEF HoldsInit, HoldsInv, Unheld, Resting, Young, LimitFits

\* A step of a note's handler that leaves the hold alone.
LEMMA NoteMoves ==
  ASSUME HoldsInv, NEW n \in Notes, NEW x \in BegunNotes \cup ReadNotes \cup {Resting},
         note' = [note EXCEPT ![n] = x], Young(x), LimitFits(x),
         UNCHANGED <<hclock, hold, pass, counted>>
  PROVE  HoldsInv'
<1>1. note' \in [Notes -> BegunNotes \cup ReadNotes \cup {Resting}]
  BY DEF HoldsInv, HoldTypes
<1>2. HoldTypes'
  BY <1>1 DEF HoldsInv, HoldTypes
<1>3. \A m \in Notes : Young(note[m])' /\ LimitFits(note[m])'
  BY DEF HoldsInv, HoldTypes, Young, LimitFits
<1>4. \A p \in Passes : Young(pass[p])'
  BY DEF HoldsInv, Young
<1> QED BY <1>2, <1>3, <1>4 DEF HoldsInv

\* A step of a pass that leaves the hold alone.
LEMMA PassMoves ==
  ASSUME HoldsInv, NEW p \in Passes, NEW x \in ReadPasses \cup {Resting},
         pass' = [pass EXCEPT ![p] = x], Young(x), UNCHANGED <<hclock, hold, note, counted>>
  PROVE  HoldsInv'
<1>1. pass' \in [Passes -> ReadPasses \cup {Resting}]
  BY DEF HoldsInv, HoldTypes
<1>2. HoldTypes'
  BY <1>1 DEF HoldsInv, HoldTypes
<1>3. \A m \in Notes : Young(note[m])' /\ LimitFits(note[m])'
  BY DEF HoldsInv, Young, LimitFits
<1>4. \A q \in Passes : Young(pass[q])'
  BY DEF HoldsInv, HoldTypes, Young
<1> QED BY <1>2, <1>3, <1>4 DEF HoldsInv

\* A new hold, written by a young handler that counts at most its own instant.
LEMMA HoldMoves ==
  ASSUME HoldsInv, NEW now \in Nat, now <= hclock, hclock <= now + MaxAge,
         hold' \in HoldRows, now + MaxAge <= hold'.until, hold'.until <= now + LongestHold,
         counted' \in {counted, counted \cup {now}}, UNCHANGED hclock,
         note' \in [Notes -> BegunNotes \cup ReadNotes \cup {Resting}],
         \A m \in Notes : note'[m] \in {note[m], Resting},
         pass' \in [Passes -> ReadPasses \cup {Resting}],
         \A q \in Passes : \/ pass'[q] \in {pass[q], Resting}
                          \/ (pass[q].pc # "idle" /\ pass'[q].now = pass[q].now)
  PROVE  HoldsInv'
<1>1. HoldTypes'
  BY DEF HoldsInv, HoldTypes
<1>2. hold'.until <= hclock + LongestHold /\ \A t \in counted : t <= hclock /\ t <= hold'.until
  <2>1. PICK u \in Nat : u = hold'.until
    BY DEF HoldRows
  <2> QED BY <2>1, NewHoldCovers
<1>3. \A t \in counted' : t <= hclock /\ t <= hold'.until
  BY <1>2, HoldAssumption DEF HoldRows
<1>4. \A m \in Notes : Young(note[m])' /\ LimitFits(note[m])'
  BY DEF HoldsInv, Young, LimitFits, Resting
<1>5. \A q \in Passes : Young(pass[q])'
  BY DEF HoldsInv, Young, Resting
<1> QED BY <1>1, <1>2, <1>3, <1>4, <1>5 DEF HoldsInv

\* A note being taken, read and written keeps the invariant.
LEMMA NoteSteps ==
  ASSUME HoldsInv, NEW n \in Notes
  PROVE  /\ \A kind \in NoteKinds, at \in Nat : NoteBegins(n, kind, at) => HoldsInv'
         /\ NoteRead(n) \/ NoteInterruption(n) \/ NoteRateLimit(n) \/ NoteEvicted(n) => HoldsInv'
<1>0. Young(Resting) /\ LimitFits(Resting) /\ Resting.pc = "idle" /\ hclock \in Nat
  BY DEF Young, LimitFits, Resting, HoldsInv, HoldTypes
<1>1. ASSUME NEW kind \in NoteKinds, NEW at \in Nat, NoteBegins(n, kind, at)
      PROVE  HoldsInv'
  <2>1. PICK u \in Nat : /\ u = HoldUntil(at, hclock)
                         /\ hclock + MaxAge <= u /\ u <= hclock + LongestHold
    BY <1>0, LimitHolds
  <2> DEFINE x == [pc |-> "begun", kind |-> kind, now |-> hclock, until |-> u]
  <2>2. note' = [note EXCEPT ![n] = x] /\ UNCHANGED <<hclock, hold, pass, counted>>
    BY <1>1, <2>1 DEF NoteBegins
  <2>3. x \in BegunNotes /\ Young(x) /\ LimitFits(x)
    BY <1>0, <2>1, HoldAssumption DEF BegunNotes, Young, LimitFits
  <2> HIDE DEF x
  <2> QED BY <2>2, <2>3, NoteMoves
<1>2. CASE NoteEvicted(n)
  BY <1>0, <1>2, NoteMoves DEF NoteEvicted
<1>3. CASE NoteRead(n)
  <2> DEFINE c == note[n]
             x == [pc |-> "read", kind |-> c.kind, now |-> c.now, until |-> c.until,
                   failures |-> hold.failures]
  <2>1. c \in BegunNotes /\ Young(c) /\ LimitFits(c)
    BY <1>3 DEF NoteRead, HoldsInv, HoldTypes, ReadNotes, Resting
  <2>2. x \in ReadNotes /\ Young(x) /\ LimitFits(x)
    BY <2>1 DEF HoldsInv, HoldTypes, HoldRows, BegunNotes, ReadNotes, Young, LimitFits
  <2>3. UNCHANGED <<hclock, hold, pass, counted>>
        /\ (note' = [note EXCEPT ![n] = x] \/ note' = [note EXCEPT ![n] = Resting])
    BY <1>3 DEF NoteRead
  <2> HIDE DEF x
  <2> QED BY <1>0, <2>2, <2>3, NoteMoves
<1>4. ASSUME NoteInterruption(n) \/ NoteRateLimit(n)
      PROVE  HoldsInv'
  <2> DEFINE c == note[n]
  <2>1. /\ c \in ReadNotes /\ c.now \in Nat /\ c.now <= hclock /\ hclock <= c.now + MaxAge
        /\ c.until \in Nat /\ c.now + MaxAge <= c.until /\ c.until <= c.now + LongestHold
    BY <1>4
    DEF NoteInterruption, NoteRateLimit, HoldsInv, HoldTypes, BegunNotes, ReadNotes, Resting,
        Young, LimitFits
  <2>2. note' = [note EXCEPT ![n] = Resting] /\ UNCHANGED <<hclock, pass>>
    BY <1>4 DEF NoteInterruption, NoteRateLimit
  <2>3. /\ note' \in [Notes -> BegunNotes \cup ReadNotes \cup {Resting}]
        /\ \A m \in Notes : note'[m] \in {note[m], Resting}
        /\ pass' \in [Passes -> ReadPasses \cup {Resting}]
    BY <2>2 DEF HoldsInv, HoldTypes
  <2>4. CASE UNCHANGED <<hold, counted>>
    BY <2>2, <2>4, NoteMoves, <1>0
  <2>5. CASE NoteInterruption(n) /\ ~UNCHANGED <<hold, counted>>
    <3>1. PICK f \in 0..MaxFailures : f = c.failures
      BY <2>1 DEF ReadNotes
    <3>2. PICK b \in Nat : b = LaunchBackoff(f + 1) /\ MaxAge <= b /\ b <= LongestHold
      BY BackoffHolds
    <3>3. /\ hold.failures < MaxFailures
          /\ hold' = [until |-> c.now + b, reason |-> "none", failures |-> hold.failures + 1]
          /\ counted' = counted \cup {c.now}
      BY <2>5, <3>1, <3>2 DEF NoteInterruption
    <3>4. hold' \in HoldRows /\ hold'.until = c.now + b
      BY <2>1, <3>3, HoldAssumption DEF HoldsInv, HoldTypes, HoldRows, Reasons
    <3>5. c.now + MaxAge <= hold'.until /\ hold'.until <= c.now + LongestHold
      BY <2>1, <3>2, <3>4, HoldAssumption
    <3> QED BY <2>1, <2>2, <2>3, <3>3, <3>4, <3>5, HoldMoves
  <2>6. CASE NoteRateLimit(n) /\ hold' # hold
    <3>1. hold' = [hold EXCEPT !.until = c.until, !.reason = "rate_limit"] /\ counted' = counted
      BY <2>6 DEF NoteRateLimit
    <3>2. hold' \in HoldRows /\ hold'.until = c.until
      BY <2>1, <3>1 DEF HoldsInv, HoldTypes, HoldRows, Reasons
    <3> QED BY <2>1, <2>2, <2>3, <3>1, <3>2, HoldMoves
  <2>7. CASE NoteRateLimit(n) /\ hold' = hold
    BY <2>4, <2>7 DEF NoteRateLimit
  <2> QED BY <1>4, <2>4, <2>5, <2>6, <2>7
<1> QED BY <1>1, <1>2, <1>3, <1>4

\* So does a pass that launches, fails or ends, and a sweep.
LEMMA PassSteps ==
  ASSUME HoldsInv, NEW p \in Passes,
         \/ PassReads(p) \/ LaunchSucceeds(p) \/ LaunchFails(p)
         \/ StalledLaunchFails(p) \/ PassEnds(p)
  PROVE  HoldsInv'
<1>0. Young(Resting) /\ Resting.pc = "idle" /\ hclock \in Nat
  BY DEF Young, Resting, HoldsInv, HoldTypes
<1>1. CASE PassReads(p)
  <2> DEFINE x == [pc |-> "read", now |-> hclock, until |-> hold.until, failures |-> hold.failures]
  <2>1. x \in ReadPasses /\ Young(x)
    BY HoldAssumption DEF HoldsInv, HoldTypes, HoldRows, ReadPasses, Young
  <2>2. pass' = [pass EXCEPT ![p] = x] /\ UNCHANGED <<hclock, hold, note, counted>>
    BY <1>1 DEF PassReads
  <2> HIDE DEF x
  <2> QED BY <2>1, <2>2, PassMoves
<1>2. CASE PassEnds(p)
  BY <1>0, <1>2, PassMoves DEF PassEnds
<1>3. CASE LaunchSucceeds(p)
  <2>1. hold' = Unheld /\ counted' = {} /\ UNCHANGED <<hclock, note, pass>>
    BY <1>3 DEF LaunchSucceeds
  <2>2. HoldTypes'
    BY <2>1, HoldAssumption DEF HoldsInv, HoldTypes, HoldRows, Unheld, Reasons
  <2>3. hold'.until <= hclock + LongestHold
    BY <1>0, <2>1, HoldAssumption DEF Unheld
  <2> QED BY <2>1, <2>2, <2>3 DEF HoldsInv, Young, LimitFits
<1>4. ASSUME LaunchFails(p) \/ StalledLaunchFails(p)
      PROVE  HoldsInv'
  <2> DEFINE c == pass[p]
  <2>1. c \in ReadPasses /\ c.now \in Nat /\ c.now <= hclock /\ hclock <= c.now + MaxAge
    BY <1>4 DEF LaunchFails, StalledLaunchFails, HoldsInv, HoldTypes, ReadPasses, Resting, Young
  <2>2. PICK f \in 0..MaxFailures : f = c.failures
    BY <2>1 DEF ReadPasses
  <2>3. PICK b \in Nat : b = LaunchBackoff(f + 1) /\ MaxAge <= b /\ b <= LongestHold
    BY BackoffHolds
  <2>4. hold' = Failed(c) /\ hold.failures < MaxFailures /\ UNCHANGED <<hclock, note, counted>>
    BY <1>4 DEF LaunchFails, StalledLaunchFails
  <2>5. hold' \in HoldRows /\ hold'.until = c.now + b
    BY <2>1, <2>2, <2>3, <2>4, FailureHolds DEF HoldsInv
  <2>6. c.now + MaxAge <= hold'.until /\ hold'.until <= c.now + LongestHold
    BY <2>1, <2>3, <2>5, HoldAssumption
  <2>7. CASE StalledLaunchFails(p)
    <3>1. pass' = [pass EXCEPT ![p] = Resting]
      BY <2>7 DEF StalledLaunchFails
    <3>2. /\ pass' \in [Passes -> ReadPasses \cup {Resting}]
          /\ \A q \in Passes : pass'[q] \in {pass[q], Resting}
      BY <3>1 DEF HoldsInv, HoldTypes
    <3>3. note \in [Notes -> BegunNotes \cup ReadNotes \cup {Resting}]
      BY DEF HoldsInv, HoldTypes
    <3> QED BY <2>1, <2>4, <2>5, <2>6, <3>2, <3>3, HoldMoves
  <2>8. CASE LaunchFails(p)
    <3>1. c.failures < MaxFailures
          /\ pass' = [pass EXCEPT ![p].failures = @ + 1, ![p].until = c.now + b]
      BY <2>2, <2>3, <2>8 DEF LaunchFails
    <3> DEFINE x == [c EXCEPT !.failures = f + 1]
               y == [x EXCEPT !.until = c.now + b]
    <3>2. c = [pc |-> "read", now |-> c.now, until |-> c.until, failures |-> f] /\ f + 1 \in 0..MaxFailures
      BY <2>1, <2>2, <3>1, HoldAssumption DEF ReadPasses
    <3>3. x = [pc |-> "read", now |-> c.now, until |-> c.until, failures |-> f + 1]
      BY <3>2
    <3>4. pass' = [pass EXCEPT ![p] = y]
      BY <2>2, <3>1 DEF HoldsInv, HoldTypes
    <3> HIDE DEF x
    <3>5. y = [pc |-> "read", now |-> c.now, until |-> c.now + b, failures |-> f + 1]
      BY <3>3
    <3> HIDE DEF y
    <3>6. y \in ReadPasses /\ y.now = c.now /\ c.pc # "idle"
      BY <2>1, <2>3, <3>2, <3>5 DEF ReadPasses
    <3>7. /\ pass' \in [Passes -> ReadPasses \cup {Resting}]
          /\ \A q \in Passes : pass'[q] = pass[q] \/ (q = p /\ pass'[q] = y)
      BY <3>4, <3>6 DEF HoldsInv, HoldTypes
    <3>8. note \in [Notes -> BegunNotes \cup ReadNotes \cup {Resting}]
      BY DEF HoldsInv, HoldTypes
    <3> QED BY <2>1, <2>4, <2>5, <2>6, <3>6, <3>7, <3>8, HoldMoves
  <2> QED BY <1>4, <2>7, <2>8
<1> QED BY <1>1, <1>2, <1>3, <1>4

\* Time passes no handler in flight by.
LEMMA TickStep ==
  ASSUME HoldsInv, HoldTick
  PROVE  HoldsInv'
<1>1. hclock' = hclock + 1 /\ UNCHANGED <<hold, note, pass, counted>>
  BY DEF HoldTick
<1>2. HoldTypes' /\ hclock \in Nat /\ hold.until \in Nat
  BY <1>1 DEF HoldsInv, HoldTypes, HoldRows
<1>3. ASSUME NEW m \in Notes
      PROVE  Young(note[m])' /\ LimitFits(note[m])'
  <2>1. note[m].pc = "idle" \/ note[m].now \in Nat
    BY DEF HoldsInv, HoldTypes, BegunNotes, ReadNotes, Resting
  <2> QED BY <1>1, <1>2, <2>1, HoldAssumption DEF HoldsInv, Young, LimitFits, HoldTick, Alive
<1>4. ASSUME NEW q \in Passes
      PROVE  Young(pass[q])'
  <2>1. pass[q].pc = "idle" \/ pass[q].now \in Nat
    BY DEF HoldsInv, HoldTypes, ReadPasses, Resting
  <2> QED BY <1>1, <1>2, <2>1, HoldAssumption DEF HoldsInv, Young, HoldTick, Alive
<1>5. \A t \in counted : t <= hclock + 1 /\ t <= hold.until
  BY <1>2 DEF HoldsInv, HoldTypes
<1> QED BY <1>1, <1>2, <1>3, <1>4, <1>5, HoldAssumption DEF HoldsInv

\* The invariant of the holds, and with it the bound of every hold: none
\* outlasts the daily probe, however they replace each other.
THEOREM HoldsAlwaysFit == HoldsSpec => []HoldsInv
<1>1. HoldsInv /\ [HoldsNext]_holdVars => HoldsInv'
  <2> SUFFICES ASSUME HoldsInv, [HoldsNext]_holdVars PROVE HoldsInv'
    OBVIOUS
  <2>1. CASE HoldTick
    BY <2>1, TickStep
  <2>2. ASSUME NEW n \in Notes, NEW kind \in NoteKinds, NEW at \in 0..MaxInstant,
               NoteBegins(n, kind, at)
        PROVE  HoldsInv'
    BY <2>2, NoteSteps, HoldAssumption
  <2>3. ASSUME NEW n \in Notes,
               NoteRead(n) \/ NoteInterruption(n) \/ NoteRateLimit(n) \/ NoteEvicted(n)
        PROVE  HoldsInv'
    BY <2>3, NoteSteps
  <2>4. ASSUME NEW p \in Passes,
               \/ PassReads(p) \/ LaunchSucceeds(p) \/ LaunchFails(p)
               \/ StalledLaunchFails(p) \/ PassEnds(p)
        PROVE  HoldsInv'
    BY <2>4, PassSteps
  <2>5. CASE UNCHANGED holdVars
    BY <2>5 DEF holdVars, HoldsInv, HoldTypes, Young, LimitFits
  <2> QED BY <2>1, <2>2, <2>3, <2>4, <2>5 DEF HoldsNext, NoteKinds
<1> QED BY <1>1, HoldsStart, PTL DEF HoldsSpec

\* No hold outlasts the daily probe (rateLimitHoldUntil, launchBackoffMs).
THEOREM HoldsTypeCorrect == HoldsSpec => []HoldsTypeOK
<1>1. HoldsInv => HoldsTypeOK
  BY DEF HoldsInv, HoldTypes, HoldRows, Reasons, HoldsTypeOK
<1> QED BY <1>1, HoldsAlwaysFit, PTL

\* Interruptions that carry one instant are counted once, for any number of
\* handlers that read the row before one of them wrote it: whatever the row held
\* since, what was counted is within the hold (noteInterruption's guard).
THEOREM IncidentsCountOnce == HoldsSpec => OneCountPerIncident
<1>1. HoldsInv /\ [HoldsNext]_holdVars =>
        [\A n \in Notes :
           note[n].pc = "read" /\ note[n].kind = "interruption" /\ note'[n] # note[n]
             /\ hold'.failures > hold.failures => note[n].now \notin counted]_holdVars
  <2> SUFFICES ASSUME HoldsInv, HoldsNext, NEW n \in Notes,
                      note[n].pc = "read", note[n].kind = "interruption", note'[n] # note[n],
                      hold'.failures > hold.failures
               PROVE  note[n].now \notin counted
    OBVIOUS
  <2>1. hold.failures \in Nat /\ note \in [Notes -> BegunNotes \cup ReadNotes \cup {Resting}]
    BY HoldAssumption DEF HoldsInv, HoldTypes, HoldRows
  <2>2. NoteInterruption(n) /\ MayCount(note[n].now)
    <3>1. hold'.failures # hold.failures
      BY <2>1
    <3>2. \A m \in Notes : (NoteInterruption(m) \/ NoteRateLimit(m) \/ NoteRead(m)
             \/ NoteEvicted(m) \/ \E kind \in NoteKinds, at \in 0..MaxInstant : NoteBegins(m, kind, at))
             => m = n
      BY <2>1 DEF NoteInterruption, NoteRateLimit, NoteRead, NoteEvicted, NoteBegins
    <3>3. NoteInterruption(n) \/ NoteRateLimit(n)
      BY <3>1, <3>2
      DEF HoldsNext, HoldTick, NoteRead, NoteEvicted, NoteBegins, PassReads, LaunchSucceeds,
          LaunchFails, StalledLaunchFails, PassEnds, NoteKinds
    <3>4. NoteInterruption(n)
      BY <3>3 DEF NoteRateLimit
    <3>5. MayCount(note[n].now)
      BY <3>1, <3>4 DEF NoteInterruption
    <3> QED BY <3>4, <3>5
  <2>3. ~InWindow(note[n].now)
    BY <2>2 DEF MayCount
  <2>4. \A t \in counted : t <= hold.until
    BY DEF HoldsInv
  <2> QED BY <2>3, <2>4 DEF InWindow, HoldsInv, HoldTypes, HoldRows
<1> QED BY <1>1, HoldsAlwaysFit, PTL DEF HoldsSpec, OneCountPerIncident

-----------------------------------------------------------------------------
(* The runner                                                               *)

runnerVars == <<policyVars, holdVars, handoverVars, family>>

\* A session that its ended run has left for the next is a state hand-overs
\* fit: the row alone has a say over it.
LEMMA KeptFits == KeptInit => HandInv /\ SweepsFit
<1> SUFFICES ASSUME KeptInit PROVE HandInv /\ SweepsFit
  OBVIOUS
<1>0. /\ 1 \in RunIds /\ Handles = RunIds /\ 0 \notin RunIds
      /\ \A r \in RunIds : launch[r] = Free /\ ender[r] = Free
      /\ \A w \in Sweeps : sweep[w] = Free
      /\ Free.pc = "free"
  BY HandoverAssumption DEF KeptInit, RunIds, Handles, Free
<1>1. /\ run[1] = [st |-> "ended", handle |-> 1, collected |-> FALSE]
      /\ resource[1] = [st |-> "available", handle |-> 1, expired |-> FALSE, by |-> 0,
                        phase |-> "none"]
      /\ session[1] = [st |-> "live", tag |-> 1, speaker |-> 1]
      /\ vault[1] = [st |-> "there", key |-> 1]
      /\ \A r \in RunIds \ {1} : /\ run[r] = NewRun /\ resource[r] = NoRow
                                 /\ session[r] = NoSession /\ vault[r] = NoVault
  BY <1>0 DEF KeptInit, NoRow
<1>2. HandoverTypes
  BY <1>0, <1>1
  DEF KeptInit, HandoverTypes, NewRun, NoRow, NoSession, NoVault, RunRows, ResourceRows,
      SessionRows, VaultRows, LaunchRows, EnderRows, SweepRows, Live
<1>3. RunsFit
  BY <1>0, <1>1 DEF RunsFit, NewRun
<1>4. RowsFit
  BY <1>0, <1>1 DEF RowsFit, Made, Owed, NoRow
<1>5. TransfersFit /\ KeysFit
  BY <1>0 DEF TransfersFit, KeysFit, Holding, Untold
<1>6. DisposalsFit
  BY <1>0 DEF DisposalsFit, Disposing
<1>7. ASSUME NEW h \in Handles, NEW k \in Kinds, NEW r \in RunIds, Owns(k, r, h)
      PROVE  k = "row" /\ r = 1 /\ h = 1
  BY <1>0, <1>1, <1>7 DEF Owns, NewRun, NoRow, Owed, Past
<1>8. OneOwner
  BY <1>7 DEF OneOwner
<1>9. OwnedExist
  BY <1>1, <1>7 DEF OwnedExist
<1>10. BirthsFit
  BY <1>0, <1>1 DEF BirthsFit, MadeVault, NoSession, NoVault
<1>11. TagsFit
  BY <1>0, <1>1 DEF TagsFit, TagHeld, Live, NoSession
<1>12. SweepsFit
  BY <1>0 DEF SweepsFit, SweepFit, Collecting
<1> QED BY <1>2, <1>3, <1>4, <1>5, <1>6, <1>8, <1>9, <1>10, <1>11, <1>12 DEF HandInv

\* What the families of the run leave out only narrows a part: the policy and the
\* holds start as they may by themselves, hand-overs where a session is kept, and
\* each takes steps of its own or none.
THEOREM RunnerComposes == MCSpec => PolicySpec /\ HoldsSpec /\ SweepsFit /\ FitSpec
<1>1. MCInit => PolicyInit /\ HoldsInit /\ HandInv /\ SweepsFit
  BY KeptFits DEF MCInit
<1>2. [MCNext]_runnerVars
        => [PolicyNext]_policyVars /\ [HoldsNext]_holdVars /\ [HandoverNext]_handoverVars
  BY DEF MCNext, runnerVars
<1> QED BY <1>1, <1>2, PTL DEF MCSpec, runnerVars, PolicySpec, HoldsSpec, FitSpec

\* The columns of a runner, of its holds and of what its runs leave are well typed.
THEOREM RunnerTypeCorrect == MCSpec => []TypesOK
<1>1. PolicyTypeOK /\ HoldsTypeOK /\ HandoverTypeOK => TypesOK
  BY DEF TypesOK
<1> QED BY <1>1, RunnerComposes, PolicyTypeCorrect, HoldsTypeCorrect, FitTypes, PTL

\* Whatever else goes on at the runner, what a person is shown is true, a boot that
\* is superseded stays silent, an incident counts once, no session is pinned, and
\* none is continued by two or collected under a run that is recorded on it.
THEOREM RunnerIsSafe ==
  MCSpec => /\ [](AppliedIsTrue /\ NothingIsPinned)
            /\ FencedIsSilent /\ OneCountPerIncident
            /\ HandoverIsExclusive /\ RecordedRunsAreSafe
BY RunnerComposes, ShownIsTrue, FitPinsNothing, SupersededIsSilent, IncidentsCountOnce,
   FitExclusive, FitIsSafe, PTL
=============================================================================
