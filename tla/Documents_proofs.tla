--------------------------- MODULE Documents_proofs ---------------------------
(***************************************************************************)
(* Theorems about ContextItems and Artifacts, for any number of requests,  *)
(* writers and movers that overlap, any patches and any bounds.            *)
(*                                                                         *)
(* Both rest on numbers that are never used twice: the version of an item  *)
(* says that its columns are those that were read; the id an upload mints  *)
(* says whose objects are in the bucket; the revisions of visit and graph  *)
(* say that what a mover checked still holds.                              *)
(* The bounds of the types are more than shapes: they say that names stay  *)
(* unique in a scope and that no artifact holds more versions than allowed.*)
(***************************************************************************)
EXTENDS ContextItems, Artifacts, SequenceTheorems, TLAPS

-----------------------------------------------------------------------------
(* Context items: shapes *)

LiveRow(name, scope, content, version) ==
    [st |-> "live", name |-> name, scope |-> scope, content |-> content, version |-> version]

Shaped(x) == x = LiveRow(x.name, x.scope, x.content, x.version) /\ x.version \in Nat

WriteRow(pc, id, patch, expects, tries, row) ==
    [pc |-> pc, id |-> id, patch |-> patch, expects |-> expects, tries |-> tries, row |-> row]

Creating(q) == q.pc = "create" /\ q.id \in Items

Writing(q) ==
    /\ q.pc \in {"read", "ready"}
    /\ q = WriteRow(q.pc, q.id, q.patch, q.expects, q.tries, q.row)
    /\ q.id \in Items /\ Suits(q.id, q.patch) /\ Shaped(q.row)

(* A create has its id for itself. *)
Reserves(q, rows) == q.pc = "create" /\ q.id \in Items /\ rows[q.id] = Unused

(* A row that was read and whose version still stands is the item's, but   *)
(* for the scope, which a transfer changes, and the files of a skill.      *)
RequestFits(q, rows) ==
    /\ Writing(q)
    /\ rows[q.id] # Unused
    /\ rows[q.id].st = "live" =>
         /\ q.row.version <= rows[q.id].version
         /\ q.row.version = rows[q.id].version =>
              /\ q.row.name = rows[q.id].name
              /\ q.id \in Prompts => q.row.content = rows[q.id].content

ItemRows(rows) == rows = [i \in Items |-> rows[i]]
RowOK(x) == x \in {Unused, Deleted} \/ Shaped(x)

ContextInv ==
    /\ ItemRows(item) /\ \A i \in Items : RowOK(item[i])
    /\ request = [r \in Requests |-> request[r]]
    /\ \A r \in Requests :
         request[r] = Waiting \/ Reserves(request[r], item) \/ RequestFits(request[r], item)
    /\ \A r, s \in Requests :
         r # s /\ request[r].pc = "create" /\ request[s] # Waiting
           => request[r].id # request[s].id

(* What a step may do to an item. *)
Advances(x, y) ==
    \/ y = x
    \/ x # Unused /\ y = Deleted
    \/ Shaped(x) /\ Shaped(y) /\ x.version < y.version
    \/ Shaped(x) /\ Shaped(y) /\ y.version = x.version /\ y.name = x.name /\ y.content = x.content

\* Deleted and unused ids are not live, and a live row is shaped.
LEMMA NotLive ==
  /\ Unused # Deleted /\ Unused.st # "live" /\ Deleted.st # "live"
  /\ Waiting.pc = "waiting"
  /\ \A x : Shaped(x) => x.st = "live" /\ x # Unused /\ x # Deleted
  /\ \A x : RowOK(x) /\ x.st = "live" => Shaped(x)
BY DEF Unused, Deleted, Waiting, Shaped, LiveRow, RowOK

\* A read that fits still fits when its item advances.
LEMMA FitsKept ==
  ASSUME NEW q, NEW rows, NEW more, RequestFits(q, rows), RowOK(rows[q.id]),
         Advances(rows[q.id], more[q.id]) \/ (q.id \in Skills /\ q.id \notin Prompts
           /\ Shaped(rows[q.id]) /\ Shaped(more[q.id]) /\ more[q.id].name = rows[q.id].name
           /\ more[q.id].version = rows[q.id].version)
  PROVE  RequestFits(q, more)
<1> DEFINE x == rows[q.id]
           y == more[q.id]
<1>1. q.row.version \in Nat
  BY DEF RequestFits, Writing, Shaped
<1>2. CASE y = x
  BY <1>2 DEF RequestFits
<1>3. CASE y = Deleted
  BY <1>3, NotLive DEF RequestFits
<1>4. CASE Shaped(x) /\ Shaped(y) /\ x.version < y.version
  <2>1. x.version \in Nat /\ y.version \in Nat /\ q.row.version <= x.version
    BY <1>4, NotLive DEF RequestFits, Shaped
  <2>2. q.row.version <= y.version /\ q.row.version # y.version
    BY <1>1, <1>4, <2>1
  <2> QED BY <1>4, <2>2, NotLive DEF RequestFits
<1>5. CASE /\ Shaped(x) /\ Shaped(y) /\ y.version = x.version /\ y.name = x.name
           /\ q.id \in Prompts => y.content = x.content
  BY <1>5, NotLive DEF RequestFits
<1> QED BY <1>2, <1>3, <1>4, <1>5 DEF Advances

\* A step of one request at most, under which every item advances or comes to
\* exist for that request, and its new record is in order.
LEMMA ContextStep ==
  ASSUME ContextInv, ItemRows(item'), \A i \in Items : RowOK(item'[i]),
         NEW r \in Requests, NEW x, request' = [request EXCEPT ![r] = x],
         x = Waiting \/ Reserves(x, item') \/ RequestFits(x, item'),
         \A s \in Requests : s # r /\ request[s] # Waiting =>
             /\ x.pc = "create" => x.id # request[s].id
             /\ request[s].pc = "create" /\ x # Waiting => request[s].id # x.id
             /\ Reserves(request[s], item) => item'[request[s].id] = Unused
             /\ RequestFits(request[s], item) => RequestFits(request[s], item')
  PROVE  ContextInv'
<1>1. request' = [s \in Requests |-> request'[s]]
  BY DEF ContextInv
<1>2. \A s \in Requests : request'[s] = IF s = r THEN x ELSE request[s]
  BY DEF ContextInv
<1>3. ASSUME NEW s \in Requests
      PROVE  \/ request'[s] = Waiting \/ Reserves(request'[s], item')
             \/ RequestFits(request'[s], item')
  <2>1. CASE s = r
    BY <1>2, <2>1
  <2>2. CASE s # r /\ request[s] = Waiting
    BY <1>2, <2>2
  <2>3. CASE s # r /\ request[s] # Waiting /\ Reserves(request[s], item)
    BY <1>2, <2>3 DEF Reserves
  <2>4. CASE s # r /\ request[s] # Waiting /\ RequestFits(request[s], item)
    BY <1>2, <2>4
  <2> QED BY <2>1, <2>2, <2>3, <2>4 DEF ContextInv
<1>4. ASSUME NEW a \in Requests, NEW b \in Requests,
             a # b, request'[a].pc = "create", request'[b] # Waiting
      PROVE  request'[a].id # request'[b].id
  <2>1. CASE a # r /\ b # r
    BY <1>2, <1>4, <2>1 DEF ContextInv
  <2>2. CASE a = r
    BY <1>2, <1>4, <2>2
  <2>3. CASE b = r
    <3>1. request[a] # Waiting
      BY <1>2, <1>4, <2>3, NotLive
    <3> QED BY <1>2, <1>4, <2>3, <3>1
  <2> QED BY <2>1, <2>2, <2>3
<1>5. ContextInv' <=>
        /\ ItemRows(item') /\ \A i \in Items : RowOK(item'[i])
        /\ request' = [s \in Requests |-> request'[s]]
        /\ \A s \in Requests :
             request'[s] = Waiting \/ Reserves(request'[s], item') \/ RequestFits(request'[s], item')
        /\ \A a, b \in Requests :
             a # b /\ request'[a].pc = "create" /\ request'[b] # Waiting
               => request'[a].id # request'[b].id
  BY DEF ContextInv, Reserves, RequestFits, ItemRows, RowOK
<1> QED BY <1>1, <1>3, <1>4, <1>5

\* A step that leaves every request alone.
LEMMA ItemStep ==
  ASSUME ContextInv, ItemRows(item'), \A i \in Items : RowOK(item'[i]), request' = request,
         \A s \in Requests : request[s] # Waiting =>
             /\ Reserves(request[s], item) => item'[request[s].id] = Unused
             /\ RequestFits(request[s], item) => RequestFits(request[s], item')
  PROVE  ContextInv'
<1>1. ASSUME NEW s \in Requests
      PROVE  request[s] = Waiting \/ Reserves(request[s], item') \/ RequestFits(request[s], item')
  BY DEF ContextInv, Reserves
<1>2. ContextInv' <=>
        /\ ItemRows(item') /\ \A i \in Items : RowOK(item'[i])
        /\ request' = [s \in Requests |-> request'[s]]
        /\ \A s \in Requests :
             request'[s] = Waiting \/ Reserves(request'[s], item') \/ RequestFits(request'[s], item')
        /\ \A a, b \in Requests :
             a # b /\ request'[a].pc = "create" /\ request'[b] # Waiting
               => request'[a].id # request'[b].id
  BY DEF ContextInv, Reserves, RequestFits, ItemRows, RowOK
<1> QED BY <1>1, <1>2 DEF ContextInv

-----------------------------------------------------------------------------
(* Context items: one lemma per action *)

\* Initially no request is in flight.
LEMMA Context_Init == ContextInit => ContextInv
BY DEF ContextInit, ContextInv, ItemRows, RowOK, Waiting

\* A step that leaves the items alone changes no one else's read.
LEMMA RequestStep ==
  ASSUME ContextInv, item' = item,
         NEW r \in Requests, NEW x, request' = [request EXCEPT ![r] = x],
         x = Waiting \/ Reserves(x, item) \/ RequestFits(x, item),
         \A s \in Requests : s # r /\ request[s] # Waiting =>
             /\ x.pc = "create" => x.id # request[s].id
             /\ request[s].pc = "create" /\ x # Waiting => request[s].id # x.id
  PROVE  ContextInv'
<1>1. ItemRows(item') /\ \A i \in Items : RowOK(item'[i])
  BY DEF ContextInv
<1>2. x = Waiting \/ Reserves(x, item') \/ RequestFits(x, item')
  OBVIOUS
<1>3. \A s \in Requests : s # r /\ request[s] # Waiting =>
             /\ x.pc = "create" => x.id # request[s].id
             /\ request[s].pc = "create" /\ x # Waiting => request[s].id # x.id
             /\ Reserves(request[s], item) => item'[request[s].id] = Unused
             /\ RequestFits(request[s], item) => RequestFits(request[s], item')
  BY DEF Reserves
<1> QED BY <1>1, <1>2, <1>3, ContextStep

\* A create takes an id nobody has, and keeps it for itself.
LEMMA CreateReads_Inv ==
  ASSUME ContextInv, NEW r \in Requests, NEW i \in Items, NEW name, NEW scope, NEW content,
         NeverUsed(i), CreateReads(r, i, name, scope, content)
  PROVE  ContextInv'
<1> DEFINE x == [pc |-> "create", id |-> i, name |-> name, scope |-> scope, content |-> content]
<1>1. item' = item /\ request' = [request EXCEPT ![r] = x]
  BY DEF CreateReads
<1>2. x.id = i /\ Reserves(x, item)
  BY DEF NeverUsed, Reserves
<1> HIDE DEF x
<1>3. \A s \in Requests : request[s] # Waiting => request[s].id # i
  BY DEF NeverUsed
<1> QED BY <1>1, <1>2, <1>3, RequestStep

\* The item comes to exist under the id the create kept.
LEMMA CreateCommits_Inv ==
  ASSUME ContextInv, NEW r \in Requests, CreateCommits(r)
  PROVE  ContextInv'
<1> DEFINE q == request[r]
           x == LiveRow(q.name, q.scope, q.content, 1)
<1>1. /\ q.pc = "create" /\ request' = [request EXCEPT ![r] = Waiting]
      /\ item' = item \/ item' = [item EXCEPT ![q.id] = x]
  BY DEF CreateCommits, LiveRow
<1>2. CASE item' = item
  BY <1>1, <1>2, RequestStep, NotLive
<1>3. CASE item' = [item EXCEPT ![q.id] = x]
  <2>1. Shaped(x)
    BY DEF Shaped, LiveRow
  <2>2. q.id \in Items /\ item[q.id] = Unused
    BY <1>1, NotLive DEF ContextInv, Reserves, RequestFits, Writing
  <2>3. ASSUME NEW s \in Requests, s # r, request[s] # Waiting
        PROVE  request[s].id # q.id
    BY <1>1, <2>3 DEF ContextInv
  <2> HIDE DEF x
  <2>4. ItemRows(item') /\ \A i \in Items : item'[i] = IF i = q.id THEN x ELSE item[i]
    BY <1>3 DEF ContextInv, ItemRows
  <2>5. \A i \in Items : RowOK(item'[i])
    BY <2>1, <2>4 DEF ContextInv, RowOK
  <2>6. ASSUME NEW s \in Requests, s # r, request[s] # Waiting
        PROVE  /\ Reserves(request[s], item) => item'[request[s].id] = Unused
               /\ RequestFits(request[s], item) => RequestFits(request[s], item')
    <3>1. request[s].id \in Items => item'[request[s].id] = item[request[s].id]
      BY <2>3, <2>4, <2>6
    <3> QED BY <3>1 DEF Reserves, RequestFits, Writing
  <2> QED BY <1>1, <2>4, <2>5, <2>6, ContextStep, NotLive
<1> QED BY <1>1, <1>2, <1>3

\* A write begins with the row as it is.
LEMMA WriteReads_Inv ==
  ASSUME ContextInv, NEW r \in Requests, NEW i \in Items, NEW patch, NEW expects,
         Suits(i, patch), WriteReads(r, i, patch, expects)
  PROVE  ContextInv'
<1> DEFINE x == WriteRow("read", i, patch, expects, 0, item[i])
<1>1. item' = item /\ request' = [request EXCEPT ![r] = x] /\ item[i].st = "live"
  BY DEF WriteReads, WriteRow, Live
<1>2. /\ x.pc = "read" /\ x.id = i /\ x.row = item[i] /\ x.patch = patch
      /\ x = WriteRow(x.pc, x.id, x.patch, x.expects, x.tries, x.row)
  BY DEF WriteRow
<1> HIDE DEF x
<1>3. Shaped(item[i])
  BY <1>1, NotLive DEF ContextInv
<1>4. RequestFits(x, item)
  BY <1>1, <1>2, <1>3, NotLive DEF RequestFits, Writing, Shaped
<1>5. \A s \in Requests : request[s] # Waiting /\ request[s].pc = "create" => request[s].id # i
  BY <1>1, NotLive DEF ContextInv, Reserves, RequestFits, Writing
<1> QED BY <1>1, <1>2, <1>4, <1>5, RequestStep

\* A write whose checks pass goes on with the row it read.
LEMMA WritePrepares_Inv ==
  ASSUME ContextInv, NEW r \in Requests, WritePrepares(r)
  PROVE  ContextInv'
<1> DEFINE q == request[r]
           x == WriteRow("ready", q.id, q.patch, q.expects, q.tries, q.row)
<1>1. q.pc = "read" /\ RequestFits(q, item)
  BY NotLive DEF WritePrepares, ContextInv, Reserves
<1>2. [q EXCEPT !.pc = "ready"] = x
  <2>1. q = WriteRow(q.pc, q.id, q.patch, q.expects, q.tries, q.row)
    BY <1>1 DEF RequestFits, Writing
  <2> QED BY <2>1 DEF WriteRow
<1>3. item' = item /\ \/ request' = [request EXCEPT ![r] = x]
                      \/ request' = [request EXCEPT ![r] = Waiting]
  BY <1>2 DEF WritePrepares
<1>4. /\ x.pc = "ready" /\ x.id = q.id /\ x.row = q.row /\ x.patch = q.patch
      /\ x = WriteRow(x.pc, x.id, x.patch, x.expects, x.tries, x.row)
  BY DEF WriteRow
<1> HIDE DEF x
<1>5. RequestFits(x, item)
  BY <1>1, <1>4 DEF RequestFits, Writing
<1>6. \A s \in Requests : s # r /\ request[s].pc = "create" => request[s].id # q.id
  BY <1>1, NotLive DEF ContextInv
<1> QED BY <1>3, <1>4, <1>5, <1>6, RequestStep, NotLive

\* A write that is ready is a well-formed one.
LEMMA ReadyFits ==
  ASSUME ContextInv, NEW r \in Requests, request[r].pc = "ready"
  PROVE  RequestFits(request[r], item) /\ Writing(request[r]) /\ request[r].id \in Items
BY NotLive DEF ContextInv, Reserves, RequestFits, Writing

\* What a patch makes of a row keeps the columns it does not name.
LEMMA AppliedRow ==
  ASSUME NEW patch, NEW x, Shaped(x),
         patch.field \in {"name", "scope", "body", "files", "append"}
  PROVE  LET y == Applied(patch, x)
             v == patch.value IN
         /\ Shaped(y) /\ y.version = x.version
         /\ y.name = IF patch.field = "name" THEN v ELSE x.name
         /\ y.scope = IF patch.field = "scope" THEN v ELSE x.scope
         /\ y.content = IF patch.field = "append" THEN Append(x.content, v)
                        ELSE IF patch.field \in {"body", "files"} THEN v ELSE x.content
<1>1. x = LiveRow(x.name, x.scope, x.content, x.version) /\ x.version \in Nat
  BY DEF Shaped
<1>2. CASE patch.field = "append"
  <2>1. Applied(patch, x) = LiveRow(x.name, x.scope, Append(x.content, patch.value), x.version)
    BY <1>1, <1>2 DEF Applied, LiveRow
  <2> QED BY <1>1, <1>2, <2>1 DEF Shaped, LiveRow
<1>3. CASE patch.field \in {"body", "files"}
  <2>1. Applied(patch, x) = LiveRow(x.name, x.scope, patch.value, x.version)
    BY <1>1, <1>3 DEF Applied, LiveRow
  <2> QED BY <1>1, <1>3, <2>1 DEF Shaped, LiveRow
<1>4. CASE patch.field = "name"
  <2>1. Applied(patch, x) = LiveRow(patch.value, x.scope, x.content, x.version)
    BY <1>1, <1>4 DEF Applied, LiveRow
  <2> QED BY <1>1, <1>4, <2>1 DEF Shaped, LiveRow
<1>5. CASE patch.field = "scope"
  <2>1. Applied(patch, x) = LiveRow(x.name, patch.value, x.content, x.version)
    BY <1>1, <1>5 DEF Applied, LiveRow
  <2> QED BY <1>1, <1>5, <2>1 DEF Shaped, LiveRow
<1> QED BY <1>2, <1>3, <1>4, <1>5

\* A write that lands makes a newer version of its item.
LEMMA WriteLands_Inv ==
  ASSUME ContextInv, NEW r \in Requests, WriteLands(r)
  PROVE  ContextInv'
<1> DEFINE q == request[r]
           x == Written(q)
<1>1. /\ q.pc = "ready" /\ Unchanged(q)
      /\ item' = [item EXCEPT ![q.id] = x] /\ request' = [request EXCEPT ![r] = Waiting]
  BY DEF WriteLands
<1>2. q.id \in Items /\ Writing(q)
  BY <1>1, ReadyFits
<1>3. Shaped(x) /\ x.version = q.row.version + 1
  BY <1>2 DEF Written, Writing, Shaped, LiveRow
<1> HIDE DEF x
<1>4. ItemRows(item') /\ \A i \in Items : item'[i] = IF i = q.id THEN x ELSE item[i]
  BY <1>1 DEF ContextInv, ItemRows
<1>5. Shaped(item[q.id]) /\ item[q.id].version < x.version
  <2>1. Shaped(item[q.id])
    BY <1>1, <1>2, NotLive DEF ContextInv, Unchanged, Live
  <2> QED BY <1>1, <1>3, <2>1 DEF Unchanged, Shaped
<1>6. \A i \in Items : RowOK(item'[i]) /\ Advances(item[i], item'[i])
  BY <1>3, <1>4, <1>5 DEF ContextInv, RowOK, Advances
<1>7. ASSUME NEW s \in Requests, s # r, request[s] # Waiting
      PROVE  /\ Reserves(request[s], item) => item'[request[s].id] = Unused
             /\ RequestFits(request[s], item) => RequestFits(request[s], item')
  <2>1. RequestFits(request[s], item) => request[s].id \in Items
    BY DEF RequestFits, Writing
  <2>2. Reserves(request[s], item) => request[s].id \in Items /\ request[s].id # q.id
    BY <1>5, NotLive DEF Reserves
  <2> QED BY <1>4, <1>6, <2>1, <2>2, FitsKept DEF Reserves, ContextInv
<1> QED BY <1>1, <1>4, <1>6, <1>7, ContextStep, NotLive

\* A write that lost its race may replace the files of a skill, which no read
\* row carries, and reads the row again.
LEMMA WriteLoses_Inv ==
  ASSUME ContextInv, NEW r \in Requests, WriteLoses(r)
  PROVE  ContextInv'
<1> DEFINE q == request[r]
           now == item[q.id]
           y == LiveRow(now.name, now.scope, q.patch.value, now.version)
           again == WriteRow("read", q.id, q.patch, q.expects, q.tries + 1, now)
<1>1. /\ q.pc = "ready"
      /\ item' = IF LooksLanded(q) /\ q.patch.field = "files"
                 THEN [item EXCEPT ![q.id].content = q.patch.value] ELSE item
      /\ request' = [request EXCEPT ![r] = Retried(q)]
  BY DEF WriteLoses
<1>2. q.id \in Items /\ Writing(q) /\ RequestFits(q, item)
  BY <1>1, ReadyFits
<1>3. Retried(q) = Waiting \/ (Retried(q) = again /\ now.st = "live")
  <2>1. CASE q.expects \/ q.tries = WriteRetries \/ ~Live(q.id)
    <3>1. Retried(q) = Waiting
      BY <2>1, Zenon DEF Retried
    <3> QED BY <3>1
  <2>2. CASE ~(q.expects \/ q.tries = WriteRetries \/ ~Live(q.id))
    <3>1. Retried(q) = again
      BY <2>2, Zenon DEF Retried, WriteRow
    <3> QED BY <2>2, <3>1 DEF Live
  <2> QED BY <2>1, <2>2
<1>4. \A i \in Items : /\ RowOK(item'[i]) /\ (item[i] = Unused => item'[i] = Unused)
                       /\ \/ item'[i] = item[i]
                          \/ /\ i \in Skills /\ i \notin Prompts
                             /\ Shaped(item[i]) /\ Shaped(item'[i])
                             /\ item'[i].name = item[i].name
                             /\ item'[i].version = item[i].version
  <2>1. CASE item' = item
    BY <2>1 DEF ContextInv
  <2>2. CASE /\ LooksLanded(q) /\ q.patch.field = "files"
             /\ item' = [item EXCEPT ![q.id].content = q.patch.value]
    <3>1. Shaped(now)
      BY <1>2, <2>2, NotLive DEF ContextInv, LooksLanded, Live
    <3>2. q.id \in Skills /\ q.id \notin Prompts
      BY <1>2, <2>2, ContextAssumption DEF Writing, Suits
    <3>3. [now EXCEPT !.content = q.patch.value] = y
      BY <3>1 DEF Shaped, LiveRow
    <3>4. item' = [item EXCEPT ![q.id] = y]
      BY <2>2, <3>3
    <3>5. Shaped(y) /\ y.name = now.name /\ y.version = now.version
      BY <3>1 DEF Shaped, LiveRow
    <3> HIDE DEF y
    <3>6. \A i \in Items : item'[i] = IF i = q.id THEN y ELSE item[i]
      BY <3>4 DEF ContextInv, ItemRows
    <3> QED BY <3>1, <3>2, <3>5, <3>6, NotLive DEF ContextInv, RowOK
  <2> QED BY <1>1, <2>1, <2>2
<1>5. ItemRows(item')
  BY <1>1 DEF ContextInv, ItemRows
<1>6. again.pc = "read" /\ again.id = q.id /\ again.row = now /\ again.patch = q.patch
      /\ again = WriteRow(again.pc, again.id, again.patch, again.expects, again.tries, again.row)
  BY DEF WriteRow
<1> HIDE DEF again, y
<1>7. now.st = "live" => RequestFits(again, item)
  <2>1. now.st = "live" => Shaped(now)
    BY <1>2, NotLive DEF ContextInv
  <2> QED BY <1>2, <1>6, <2>1, NotLive DEF RequestFits, Writing, Shaped
<1>8. ASSUME NEW z, RequestFits(z, item)
      PROVE  RequestFits(z, item')
  <2>1. z.id \in Items
    BY <1>8 DEF RequestFits, Writing
  <2>2. RowOK(item[z.id])
    BY <2>1 DEF ContextInv
  <2> QED BY <1>4, <1>8, <2>1, <2>2, FitsKept DEF Advances
<1>9. \A s \in Requests : s # r /\ request[s].pc = "create" => request[s].id # q.id
  BY <1>1, NotLive DEF ContextInv
<1>10. \A s \in Requests : Reserves(request[s], item) => item'[request[s].id] = Unused
  BY <1>4 DEF Reserves
<1>11. CASE Retried(q) = Waiting
  BY <1>1, <1>4, <1>5, <1>8, <1>10, <1>11, ContextStep, NotLive
<1>12. CASE Retried(q) = again /\ now.st = "live"
  <2>1. RequestFits(again, item')
    BY <1>7, <1>8, <1>12
  <2>2. /\ request' = [request EXCEPT ![r] = again] /\ \A i \in Items : RowOK(item'[i])
        /\ again = Waiting \/ Reserves(again, item') \/ RequestFits(again, item')
    BY <1>1, <1>4, <1>12, <2>1
  <2>3. \A s \in Requests : s # r /\ request[s] # Waiting =>
             /\ again.pc = "create" => again.id # request[s].id
             /\ request[s].pc = "create" /\ again # Waiting => request[s].id # again.id
             /\ Reserves(request[s], item) => item'[request[s].id] = Unused
             /\ RequestFits(request[s], item) => RequestFits(request[s], item')
    BY <1>6, <1>8, <1>9, <1>10
  <2> QED BY <1>5, <2>2, <2>3, ContextStep
<1> QED BY <1>3, <1>11, <1>12

\* A request ends without a trace.
LEMMA RequestEnds_Inv ==
  ASSUME ContextInv, NEW r \in Requests, RequestEnds(r)
  PROVE  ContextInv'
<1>1. item' = item /\ request' = [request EXCEPT ![r] = Waiting]
  BY DEF RequestEnds
<1> QED BY <1>1, RequestStep, NotLive

\* A deleted item is never live again.
LEMMA DeleteItem_Inv ==
  ASSUME ContextInv, NEW i \in Items, DeleteItem(i)
  PROVE  ContextInv'
<1>1. item[i].st = "live" /\ item' = [item EXCEPT ![i] = Deleted] /\ request' = request
  BY DEF DeleteItem, Live
<1>2. ItemRows(item') /\ \A j \in Items : item'[j] = IF j = i THEN Deleted ELSE item[j]
  BY <1>1 DEF ContextInv, ItemRows
<1>3. \A j \in Items : /\ RowOK(item'[j]) /\ Advances(item[j], item'[j])
                       /\ item[j] = Unused => item'[j] = Unused
  BY <1>1, <1>2, NotLive DEF ContextInv, RowOK, Advances
<1>4. ASSUME NEW z, RequestFits(z, item) PROVE RequestFits(z, item')
  <2>1. z.id \in Items
    BY <1>4 DEF RequestFits, Writing
  <2>2. RowOK(item[z.id])
    BY <2>1 DEF ContextInv
  <2> QED BY <1>3, <1>4, <2>1, <2>2, FitsKept
<1>5. \A s \in Requests : Reserves(request[s], item) => item'[request[s].id] = Unused
  BY <1>3 DEF Reserves
<1> QED BY <1>1, <1>2, <1>3, <1>4, <1>5, ItemStep

\* A transfer changes scopes only.
LEMMA IssueMoves_Inv ==
  ASSUME ContextInv, NEW p \in Homes, IssueMoves(p)
  PROVE  ContextInv'
<1>1. /\ request' = request
      /\ item' = [i \in Items |-> IF Live(i) /\ item[i].scope.ofIssue
                                  THEN [item[i] EXCEPT !.scope.project = p] ELSE item[i]]
  BY DEF IssueMoves
<1>2. ASSUME NEW i \in Items
      PROVE  /\ RowOK(item'[i]) /\ Advances(item[i], item'[i])
             /\ item[i] = Unused => item'[i] = Unused
  <2>1. CASE item'[i] = item[i]
    BY <2>1 DEF ContextInv, Advances
  <2>2. CASE Live(i) /\ item'[i] = [item[i] EXCEPT !.scope.project = p]
    <3> DEFINE x == item[i]
               y == LiveRow(x.name, [x.scope EXCEPT !.project = p], x.content, x.version)
    <3>1. Shaped(x)
      BY <2>2, NotLive DEF ContextInv, Live
    <3>2. item'[i] = y
      BY <2>2, <3>1 DEF Shaped, LiveRow
    <3>3. Shaped(y) /\ y.version = x.version /\ y.name = x.name /\ y.content = x.content
      BY <3>1 DEF Shaped, LiveRow
    <3> HIDE DEF y
    <3> QED BY <3>1, <3>2, <3>3, NotLive DEF RowOK, Advances
  <2> QED BY <1>1, <2>1, <2>2
<1>3. ASSUME NEW z, RequestFits(z, item) PROVE RequestFits(z, item')
  <2>1. z.id \in Items
    BY <1>3 DEF RequestFits, Writing
  <2>2. RowOK(item[z.id])
    BY <2>1 DEF ContextInv
  <2> QED BY <1>2, <1>3, <2>1, <2>2, FitsKept
<1>4. \A s \in Requests : Reserves(request[s], item) => item'[request[s].id] = Unused
  BY <1>2 DEF Reserves
<1>5. ItemRows(item')
  BY <1>1 DEF ItemRows
<1> QED BY <1>1, <1>2, <1>3, <1>4, <1>5, ItemStep

\* Every step keeps the invariant.
LEMMA Context_Next == ContextInv /\ [ContextNext]_contextVars => ContextInv'
<1> SUFFICES ASSUME ContextInv, [ContextNext]_contextVars PROVE ContextInv'
  OBVIOUS
<1>1. CASE UNCHANGED contextVars
  BY <1>1, ItemStep DEF contextVars, ContextInv, Reserves
<1>2. CASE ContextNext
  BY <1>2, CreateReads_Inv, CreateCommits_Inv, WriteReads_Inv, WritePrepares_Inv,
     WriteLands_Inv, WriteLoses_Inv, RequestEnds_Inv, DeleteItem_Inv, IssueMoves_Inv
     DEF ContextNext
<1> QED BY <1>1, <1>2

-----------------------------------------------------------------------------
(* Context items: theorem *)

\* A write that lands does to the item as it is what it was to do to the row it
\* read: the version that still stands says that the columns do, too.
LEMMA LandsAsAsked ==
  ASSUME ContextInv, NEW r \in Requests, WriteLands(r), request[r].patch.field # "files"
  PROVE  LET q == request[r] IN
         item'[q.id] = [Applied(q.patch, item[q.id]) EXCEPT !.version = @ + 1]
<1> DEFINE q == request[r]
           now == item[q.id]
           v == q.patch.value
           f == q.patch.field
           made == Applied(q.patch, now)
           new == Applied(q.patch, q.row)
<1>1. q.pc = "ready" /\ Unchanged(q) /\ item' = [item EXCEPT ![q.id] = Written(q)]
  BY DEF WriteLands
<1>2. q.id \in Items /\ Writing(q) /\ RequestFits(q, item)
  BY <1>1, ReadyFits
<1>3. Shaped(now) /\ Shaped(q.row) /\ now.st = "live" /\ now.version = q.row.version
  BY <1>1, <1>2, NotLive DEF ContextInv, Unchanged, Live, Writing
<1>4. /\ q.row.name = now.name
      /\ q.id \in Prompts => q.row.content = now.content
      /\ f # "append" => q.row.scope = now.scope
      /\ f \in {"name", "scope", "body", "append"}
      /\ f \in {"body", "append"} => q.id \in Prompts /\ q.id \notin Skills
      /\ q.id \notin Skills => q.id \in Prompts
  BY <1>1, <1>2, <1>3, ContextAssumption DEF RequestFits, Unchanged, Writing, Suits, Items
<1>5. item'[q.id] = Written(q)
  BY <1>1, <1>2 DEF ContextInv, ItemRows
<1>6. /\ Shaped(made) /\ made.version = now.version
      /\ made.name = IF f = "name" THEN v ELSE now.name
      /\ made.scope = IF f = "scope" THEN v ELSE now.scope
      /\ made.content = IF f = "append" THEN Append(now.content, v)
                        ELSE IF f \in {"body", "files"} THEN v ELSE now.content
  BY <1>3, <1>4, AppliedRow
<1>7. /\ new.name = IF f = "name" THEN v ELSE q.row.name
      /\ new.scope = IF f = "scope" THEN v ELSE q.row.scope
      /\ new.content = IF f = "append" THEN Append(q.row.content, v)
                       ELSE IF f \in {"body", "files"} THEN v ELSE q.row.content
  BY <1>3, <1>4, AppliedRow
<1> DEFINE keeps == f # "files" /\ q.id \in Skills
<1>8. Written(q) = LiveRow(IF f = "append" THEN now.name ELSE new.name,
                           IF f = "append" THEN now.scope ELSE new.scope,
                           IF keeps THEN now.content ELSE new.content,
                           q.row.version + 1)
  BY DEF Written, LiveRow
<1> HIDE DEF made, new
<1>9. /\ (IF f = "append" THEN now.name ELSE new.name) = made.name
      /\ (IF f = "append" THEN now.scope ELSE new.scope) = made.scope
      /\ (IF keeps THEN now.content ELSE new.content) = made.content
  BY <1>4, <1>6, <1>7
<1>10. Written(q) = LiveRow(made.name, made.scope, made.content, made.version + 1)
  BY <1>3, <1>6, <1>8, <1>9
<1>11. [made EXCEPT !.version = @ + 1]
         = LiveRow(made.name, made.scope, made.content, made.version + 1)
  <2>1. PICK n, s, c, k : made = LiveRow(n, s, c, k)
    BY <1>6, Zenon DEF Shaped
  <2>2. [LiveRow(n, s, c, k) EXCEPT !.version = k + 1] = LiveRow(n, s, c, k + 1)
    BY DEF LiveRow
  <2>3. made.name = n /\ made.scope = s /\ made.content = c /\ made.version = k
    BY <2>1 DEF LiveRow
  <2>4. [made EXCEPT !.version = @ + 1] = [made EXCEPT !.version = k + 1]
    BY <2>3
  <2> QED BY <2>1, <2>2, <2>3, <2>4
<1> QED BY <1>5, <1>10, <1>11 DEF made

\* A write of row columns changes an item by what it was asked for and nothing
\* else, however many writes, transfers and deletions come in between.
THEOREM NoUpdateIsLost == ContextSpec => NoLostUpdate
<1> DEFINE Kept(r) ==
      LET q == request[r] IN
      q.pc = "ready" /\ request'[r] # q /\ item'[q.id] # item[q.id]
        /\ q.patch.field # "files" =>
          item'[q.id] = [Applied(q.patch, item[q.id]) EXCEPT !.version = @ + 1]
<1>1. ASSUME ContextInv, ContextNext, NEW r \in Requests
      PROVE  Kept(r)
  <2> DEFINE q == request[r]
  <2> SUFFICES ASSUME q.pc = "ready", request'[r] # q, item'[q.id] # item[q.id],
                      q.patch.field # "files"
               PROVE  item'[q.id] = [Applied(q.patch, item[q.id]) EXCEPT !.version = @ + 1]
    OBVIOUS
  <2>1. WriteLands(r)
    <3>1. request' # request /\ item' # item
      OBVIOUS
    <3>2. \/ \E s \in Requests : CreateCommits(s) \/ WriteLands(s) \/ WriteLoses(s)
      BY <1>1, <3>1 DEF ContextNext, CreateReads, WriteReads, WritePrepares, RequestEnds,
                        DeleteItem, IssueMoves
    <3>3. PICK s \in Requests : CreateCommits(s) \/ WriteLands(s) \/ WriteLoses(s)
      BY <3>2
    <3>4. s = r
      BY <1>1, <3>3 DEF ContextInv, CreateCommits, WriteLands, WriteLoses
    <3>5. ~WriteLoses(r)
      BY DEF WriteLoses
    <3> QED BY <3>3, <3>4, <3>5 DEF CreateCommits
  <2> QED BY <1>1, <2>1, LandsAsAsked
<1>2. ContextInv /\ [ContextNext]_contextVars => [\A r \in Requests : Kept(r)]_contextVars
  BY <1>1
<1>3. ContextSpec => [][\A r \in Requests : Kept(r)]_contextVars
  BY <1>2, Context_Init, Context_Next, PTL DEF ContextSpec
<1> QED BY <1>3 DEF NoLostUpdate

-----------------------------------------------------------------------------
(* Context items: types.  A version is at most one more than the edits, and *)
(* what a request asks for or read has the columns of a row.                *)

ScopeRows == [project : Homes, ofIssue : BOOLEAN]

Columns(x, n) == x.name \in Names /\ x.scope \in ScopeRows /\ x.version \in 1..n

Belongs(scope, p) == scope.ofIssue => scope.project = p

Placed(rows, p, n) ==
    \A i \in Items : rows[i].st = "live" => Columns(rows[i], n) /\ Belongs(rows[i].scope, p)

\* No two live items of a kind have a name in the same scope.
NamesApart(rows) ==
    \A i, j \in Items :
        i # j /\ rows[i].st = "live" /\ rows[j].st = "live" /\ KindOf(i) = KindOf(j)
          => rows[i].name # rows[j].name \/ rows[i].scope # rows[j].scope

AskFits(patch) ==
    /\ patch.field = "name" => patch.value \in Names
    /\ patch.field = "scope" => patch.value \in ScopeRows

Typed(q, n) ==
    /\ q.pc = "create" => q.name \in Names /\ q.scope \in ScopeRows
    /\ q.pc \in {"read", "ready"} => Columns(q.row, n) /\ AskFits(q.patch)

EditRows == [id : Items, version : 2..MaxEdits + 1]

ContextTypes ==
    /\ home \in [project : Homes, moves : 0..MaxTransfers]
    /\ edits \in Seq(EditRows) /\ Len(edits) <= MaxEdits
    /\ Placed(item, home.project, Len(edits) + 1) /\ NamesApart(item)
    /\ \A r \in Requests : Typed(request[r], Len(edits) + 1)

\* There is always room for what there was room for.
LEMMA MoreEdits ==
  ASSUME NEW n \in Nat, NEW m \in Nat, n <= m
  PROVE  /\ \A x : Columns(x, n) => Columns(x, m)
         /\ \A q : Typed(q, n) => Typed(q, m)
         /\ \A rows, p : Placed(rows, p, n) => Placed(rows, p, m)
<1>1. \A x : Columns(x, n) => Columns(x, m)
  BY DEF Columns
<1>2. \A q : Typed(q, n) => Typed(q, m)
  BY <1>1 DEF Typed
<1>3. \A rows, p : Placed(rows, p, n) => Placed(rows, p, m)
  BY <1>1 DEF Placed
<1> QED BY <1>1, <1>2, <1>3

LEMMA NoRequestTyped == ASSUME NEW n PROVE Typed(Waiting, n)
  BY DEF Typed, Waiting

\* One more edit is recorded.
LEMMA EditRecorded ==
  ASSUME edits \in Seq(EditRows), Len(edits) < MaxEdits, NEW e \in EditRows
  PROVE  /\ Append(edits, e) \in Seq(EditRows)
         /\ Len(Append(edits, e)) = Len(edits) + 1 /\ Len(edits) + 1 <= MaxEdits
BY ContextAssumption

\* An item comes to have columns that no other has.
LEMMA RowPlaced ==
  ASSUME NEW rows, NEW more, NEW i \in Items, NEW p, NEW n,
         Placed(rows, p, n), NamesApart(rows),
         \A j \in Items : j # i => more[j] = rows[j],
         Columns(more[i], n), Belongs(more[i].scope, p),
         \A j \in Items : j # i /\ rows[j].st = "live" /\ KindOf(j) = KindOf(i)
           => rows[j].name # more[i].name \/ rows[j].scope # more[i].scope
  PROVE  Placed(more, p, n) /\ NamesApart(more)
<1>1. Placed(more, p, n)
  BY DEF Placed
<1>2. NamesApart(more)
  BY DEF NamesApart
<1> QED BY <1>1, <1>2

LEMMA Created_Types ==
  ASSUME ContextInv, ContextTypes, NEW r \in Requests, CreateCommits(r)
  PROVE  ContextTypes'
<1> DEFINE q == request[r]
           n == Len(edits) + 1
<1>1. q.pc = "create" /\ request' = [request EXCEPT ![r] = Waiting]
      /\ edits' = edits /\ home' = home
  BY DEF CreateCommits
<1>2. n \in Nat /\ 1 \in 1..n
  BY DEF ContextTypes
<1>3. \A s \in Requests : Typed(request'[s], n)
  BY <1>1, NoRequestTyped DEF ContextTypes, ContextInv
<1>4. Placed(item', home.project, n) /\ NamesApart(item')
  <2>1. CASE item' = item
    BY <2>1 DEF ContextTypes
  <2>2. CASE ~Taken(q.id, q.name, q.scope) /\ Coherent(q.scope)
             /\ item' = [item EXCEPT ![q.id] = LiveRow(q.name, q.scope, q.content, 1)]
    <3>1. q.id \in Items /\ q.name \in Names /\ q.scope \in ScopeRows
      BY <1>1, NotLive DEF ContextInv, ContextTypes, Reserves, RequestFits, Writing, Typed
    <3>2. item'[q.id] = LiveRow(q.name, q.scope, q.content, 1)
          /\ \A j \in Items : j # q.id => item'[j] = item[j]
      BY <2>2, <3>1 DEF ContextInv, ItemRows
    <3>3. Columns(item'[q.id], n) /\ Belongs(item'[q.id].scope, home.project)
      BY <1>2, <2>2, <3>1, <3>2 DEF Columns, Belongs, Coherent, LiveRow
    <3>4. \A j \in Items : j # q.id /\ item[j].st = "live" /\ KindOf(j) = KindOf(q.id)
            => item[j].name # item'[q.id].name \/ item[j].scope # item'[q.id].scope
      BY <2>2, <3>2 DEF Taken, Live, LiveRow
    <3> QED BY <3>1, <3>2, <3>3, <3>4, RowPlaced DEF ContextTypes
  <2> QED BY <2>1, <2>2 DEF CreateCommits, LiveRow
<1>5. ContextTypes' <=>
        /\ home' \in [project : Homes, moves : 0..MaxTransfers]
        /\ edits' \in Seq(EditRows) /\ Len(edits') <= MaxEdits
        /\ Placed(item', home'.project, Len(edits') + 1) /\ NamesApart(item')
        /\ \A s \in Requests : Typed(request'[s], Len(edits') + 1)
  BY DEF ContextTypes
<1> QED BY <1>1, <1>3, <1>4, <1>5 DEF ContextTypes

LEMMA Lands_Types ==
  ASSUME ContextInv, ContextTypes, NEW r \in Requests, WriteLands(r)
  PROVE  ContextTypes'
<1> DEFINE q == request[r]
           n == Len(edits) + 1
           now == item[q.id]
           new == Applied(q.patch, q.row)
           x == Written(q)
<1>1. /\ q.pc = "ready" /\ Unchanged(q) /\ ~Aborts(q) /\ Len(edits) < MaxEdits
      /\ item' = [item EXCEPT ![q.id] = x] /\ request' = [request EXCEPT ![r] = Waiting]
      /\ edits' = Append(edits, Updated(q)) /\ home' = home
  BY DEF WriteLands
<1>2. q.id \in Items /\ Writing(q) /\ Shaped(q.row)
  BY <1>1, ReadyFits DEF Writing
<1>3. Columns(q.row, n) /\ AskFits(q.patch) /\ n \in Nat
  BY <1>1 DEF ContextTypes, Typed
<1>4. now.st = "live" /\ Columns(now, n)
  BY <1>1, <1>2 DEF Unchanged, Live, ContextTypes, Placed
<1>5. q.patch.field \in {"name", "scope", "body", "files", "append"}
  BY <1>2 DEF Writing, Suits
<1>6. /\ new.name = IF q.patch.field = "name" THEN q.patch.value ELSE q.row.name
      /\ new.scope = IF q.patch.field = "scope" THEN q.patch.value ELSE q.row.scope
  BY <1>2, <1>5, AppliedRow
<1>7. new.name \in Names /\ new.scope \in ScopeRows
  BY <1>3, <1>6 DEF Columns, AskFits
<1> HIDE DEF new
<1>8. /\ x.name = IF q.patch.field = "append" THEN now.name ELSE new.name
      /\ x.scope = IF q.patch.field = "append" THEN now.scope ELSE new.scope
      /\ x.version = q.row.version + 1
  BY DEF Written, new
<1>9. q.row.version \in 1..n /\ q.row.version + 1 \in 1..(n + 1) /\ q.row.version + 1 \in 2..MaxEdits + 1
  BY <1>1, <1>3, ContextAssumption DEF Columns
<1>10. Columns(x, n + 1)
  BY <1>4, <1>7, <1>8, <1>9 DEF Columns
<1> HIDE DEF x
<1>11. ~Taken(q.id, x.name, x.scope) /\ Coherent(x.scope)
  BY <1>1 DEF Aborts, x
<1>12. item'[q.id] = x /\ \A j \in Items : j # q.id => item'[j] = item[j]
  BY <1>1, <1>2 DEF ContextInv, ItemRows
<1>13. Updated(q) \in EditRows
  BY <1>2, <1>9 DEF Updated, EditRows
<1>14. edits' \in Seq(EditRows) /\ Len(edits') = n /\ Len(edits') <= MaxEdits
  BY <1>1, <1>13, EditRecorded DEF ContextTypes
<1>15. Placed(item', home.project, n + 1) /\ NamesApart(item')
  <2>1. Placed(item, home.project, n + 1) /\ NamesApart(item)
    BY <1>3, MoreEdits DEF ContextTypes
  <2>2. Columns(item'[q.id], n + 1) /\ Belongs(item'[q.id].scope, home.project)
    BY <1>10, <1>11, <1>12 DEF Belongs, Coherent
  <2>3. \A j \in Items : j # q.id /\ item[j].st = "live" /\ KindOf(j) = KindOf(q.id)
          => item[j].name # item'[q.id].name \/ item[j].scope # item'[q.id].scope
    BY <1>11, <1>12 DEF Taken, Live
  <2> HIDE DEF n
  <2> QED BY <1>2, <1>12, <2>1, <2>2, <2>3, RowPlaced
<1>16. \A s \in Requests : Typed(request'[s], n + 1)
  <2>1. \A s \in Requests : Typed(request[s], n + 1)
    BY <1>3, MoreEdits DEF ContextTypes
  <2> QED BY <1>1, <2>1, NoRequestTyped DEF ContextInv
<1>17. ContextTypes' <=>
        /\ home' \in [project : Homes, moves : 0..MaxTransfers]
        /\ edits' \in Seq(EditRows) /\ Len(edits') <= MaxEdits
        /\ Placed(item', home'.project, Len(edits') + 1) /\ NamesApart(item')
        /\ \A s \in Requests : Typed(request'[s], Len(edits') + 1)
  BY DEF ContextTypes
<1> QED BY <1>1, <1>14, <1>15, <1>16, <1>17 DEF ContextTypes

LEMMA Loses_Types ==
  ASSUME ContextInv, ContextTypes, NEW r \in Requests, WriteLoses(r)
  PROVE  ContextTypes'
<1> DEFINE q == request[r]
           n == Len(edits) + 1
           now == item[q.id]
<1>1. /\ q.pc = "ready" /\ home' = home
      /\ item' = IF LooksLanded(q) /\ q.patch.field = "files"
                 THEN [item EXCEPT ![q.id].content = q.patch.value] ELSE item
      /\ edits' = IF LooksLanded(q) /\ Len(edits) < MaxEdits THEN Append(edits, Updated(q)) ELSE edits
      /\ request' = [request EXCEPT ![r] = Retried(q)]
  BY DEF WriteLoses
<1>2. q.id \in Items /\ Writing(q) /\ Shaped(q.row)
  BY <1>1, ReadyFits DEF Writing
<1>3. Columns(q.row, n) /\ AskFits(q.patch) /\ n \in Nat /\ n <= MaxEdits + 1
  BY <1>1, ContextAssumption DEF ContextTypes, Typed
<1>4. now.st = "live" => Columns(now, n)
  BY <1>2 DEF ContextTypes, Placed
<1>5. edits' \in Seq(EditRows) /\ Len(edits') <= MaxEdits /\ Len(edits') + 1 \in Nat
      /\ n <= Len(edits') + 1
  <2>1. CASE LooksLanded(q) /\ Len(edits) < MaxEdits
    <3>1. q.row.version + 1 \in 2..MaxEdits + 1
      BY <1>3, <1>4, <2>1, ContextAssumption DEF LooksLanded, Live, Columns
    <3>2. Updated(q) \in EditRows
      BY <1>2, <3>1 DEF Updated, EditRows
    <3> QED BY <1>1, <2>1, <3>2, EditRecorded DEF ContextTypes
  <2>2. CASE edits' = edits
    BY <2>2 DEF ContextTypes
  <2> QED BY <1>1, <2>1, <2>2
<1>6. \A i \in Items : /\ (item'[i].st = "live") = (item[i].st = "live")
                       /\ item[i].st = "live" =>
                            /\ item'[i].name = item[i].name /\ item'[i].scope = item[i].scope
                            /\ item'[i].version = item[i].version
  <2>1. CASE item' = item
    BY <2>1
  <2>2. CASE now.st = "live" /\ item' = [item EXCEPT ![q.id].content = q.patch.value]
    <3>1. Shaped(now)
      BY <1>2, <2>2, NotLive DEF ContextInv
    <3>2. [now EXCEPT !.content = q.patch.value]
            = LiveRow(now.name, now.scope, q.patch.value, now.version)
      BY <3>1 DEF Shaped, LiveRow
    <3>3. item'[q.id] = LiveRow(now.name, now.scope, q.patch.value, now.version)
      BY <1>2, <2>2, <3>2 DEF ContextInv, ItemRows
    <3>4. \A i \in Items : i # q.id => item'[i] = item[i]
      BY <2>2 DEF ContextInv, ItemRows
    <3> QED BY <2>2, <3>3, <3>4 DEF LiveRow
  <2> QED BY <1>1, <2>1, <2>2 DEF LooksLanded, Live
<1>7. Placed(item', home.project, n) /\ NamesApart(item')
  BY <1>6 DEF ContextTypes, Placed, NamesApart, Columns
<1>8. Typed(Retried(q), n)
  <2>1. CASE Retried(q) = Waiting
    BY <2>1, NoRequestTyped
  <2>2. CASE Live(q.id) /\ Retried(q) = WriteRow("read", q.id, q.patch, q.expects, q.tries + 1, now)
    BY <1>3, <1>4, <2>2 DEF Live, WriteRow, Typed
  <2> QED BY <2>1, <2>2 DEF Retried, WriteRow
<1>9. \A s \in Requests : Typed(request'[s], n)
  BY <1>1, <1>8 DEF ContextInv, ContextTypes
<1>10. Placed(item', home.project, Len(edits') + 1)
       /\ \A s \in Requests : Typed(request'[s], Len(edits') + 1)
  <2>1. PICK m : m = Len(edits') + 1
    OBVIOUS
  <2>2. m \in Nat /\ n <= m
    BY <1>5, <2>1
  <2> HIDE DEF n
  <2> QED BY <1>3, <1>7, <1>9, <2>1, <2>2, MoreEdits
<1>11. ContextTypes' <=>
        /\ home' \in [project : Homes, moves : 0..MaxTransfers]
        /\ edits' \in Seq(EditRows) /\ Len(edits') <= MaxEdits
        /\ Placed(item', home'.project, Len(edits') + 1) /\ NamesApart(item')
        /\ \A s \in Requests : Typed(request'[s], Len(edits') + 1)
  BY DEF ContextTypes
<1> QED BY <1>1, <1>5, <1>7, <1>10, <1>11 DEF ContextTypes

Elsewhere(scope, p) == [scope EXCEPT !.project = p]

LEMMA Rescoped ==
  ASSUME NEW scope \in ScopeRows, NEW p \in Homes
  PROVE  /\ Elsewhere(scope, p) \in ScopeRows
         /\ Elsewhere(scope, p).project = p /\ Elsewhere(scope, p).ofIssue = scope.ofIssue
BY DEF ScopeRows, Elsewhere

LEMMA Moves_Types ==
  ASSUME ContextInv, ContextTypes, NEW p \in Homes, IssueMoves(p)
  PROVE  ContextTypes'
<1> DEFINE n == Len(edits) + 1
<1>1. /\ home' = [project |-> p, moves |-> home.moves + 1] /\ home.moves < MaxTransfers
      /\ item' = [i \in Items |-> IF Live(i) /\ item[i].scope.ofIssue
                                  THEN [item[i] EXCEPT !.scope.project = p] ELSE item[i]]
      /\ edits' = edits /\ request' = request
  BY DEF IssueMoves
<1>2. home' \in [project : Homes, moves : 0..MaxTransfers] /\ home'.project = p
  <2>1. home.moves + 1 \in 0..MaxTransfers
    BY <1>1, ContextAssumption DEF ContextTypes
  <2> QED BY <1>1, <2>1
<1>3. ASSUME NEW i \in Items
      PROVE  /\ (item'[i].st = "live") = (item[i].st = "live")
             /\ item[i].st = "live" =>
                  /\ item'[i].name = item[i].name /\ item'[i].version = item[i].version
                  /\ item'[i].scope = IF item[i].scope.ofIssue
                                      THEN Elsewhere(item[i].scope, p) ELSE item[i].scope
  <2>1. CASE Live(i) /\ item[i].scope.ofIssue
    <3> DEFINE x == item[i]
    <3>1. Shaped(x) /\ x.scope \in ScopeRows
      BY <2>1, NotLive DEF ContextInv, Live, ContextTypes, Placed, Columns
    <3>2. item'[i] = [x EXCEPT !.scope = [x.scope EXCEPT !.project = p]]
      BY <1>1, <2>1
    <3>3. PICK moved : moved = Elsewhere(x.scope, p)
      OBVIOUS
    <3>4. item'[i] = LiveRow(x.name, moved, x.content, x.version)
      <4>1. x = LiveRow(x.name, x.scope, x.content, x.version)
        BY <3>1 DEF Shaped
      <4>2. item'[i] = [x EXCEPT !.scope = moved]
        BY <3>2, <3>3 DEF Elsewhere
      <4> QED BY <4>1, <4>2 DEF LiveRow
    <3> QED BY <2>1, <3>3, <3>4 DEF LiveRow, Live
  <2>2. CASE ~Live(i) \/ ~item[i].scope.ofIssue
    BY <1>1, <2>2 DEF Live
  <2> QED BY <2>1, <2>2
<1>4. ASSUME NEW i \in Items, item[i].st = "live"
      PROVE  Columns(item'[i], n) /\ Belongs(item'[i].scope, p)
  <2>1. Columns(item[i], n)
    BY <1>4 DEF ContextTypes, Placed
  <2>2. item[i].scope \in ScopeRows
    BY <2>1 DEF Columns
  <2>3. item'[i].scope \in ScopeRows /\ Belongs(item'[i].scope, p)
    <3>1. Elsewhere(item[i].scope, p) \in ScopeRows /\ Elsewhere(item[i].scope, p).project = p
      BY <2>2, Rescoped
    <3>2. item[i].scope.ofIssue => Belongs(item'[i].scope, p)
      BY <1>3, <1>4, <3>1 DEF Belongs
    <3> QED BY <1>3, <1>4, <2>2, <3>1, <3>2 DEF Belongs
  <2> QED BY <1>3, <1>4, <2>1, <2>3 DEF Columns
<1>5. Placed(item', p, n)
  BY <1>3, <1>4 DEF Placed
<1>6. ASSUME NEW i \in Items, NEW j \in Items, i # j, KindOf(i) = KindOf(j),
             item[i].st = "live", item[j].st = "live", item[i].name = item[j].name
      PROVE  item'[i].scope # item'[j].scope
  <2>1. item[i].scope # item[j].scope
    BY <1>6 DEF ContextTypes, NamesApart
  <2>2. \A k \in {i, j} : /\ item[k].scope \in ScopeRows
                          /\ item[k].scope.ofIssue => item[k].scope.project = home.project
    BY <1>6 DEF ContextTypes, Placed, Columns, Belongs
  <2>3. ~(item[i].scope.ofIssue /\ item[j].scope.ofIssue)
    BY <2>1, <2>2 DEF ScopeRows
  <2>4. \A k \in {i, j} : item'[k].scope = IF item[k].scope.ofIssue
                                           THEN Elsewhere(item[k].scope, p) ELSE item[k].scope
    BY <1>3, <1>6
  <2>5. \A k \in {i, j} : item'[k].scope.ofIssue = item[k].scope.ofIssue
    <3>1. ASSUME NEW k \in {i, j}
          PROVE  item'[k].scope.ofIssue = item[k].scope.ofIssue
      <4>1. Elsewhere(item[k].scope, p).ofIssue = item[k].scope.ofIssue
        BY <2>2, Rescoped
      <4> QED BY <2>4, <4>1
    <3> QED BY <3>1
  <2>6. item[i].scope.ofIssue \in BOOLEAN /\ item[j].scope.ofIssue \in BOOLEAN
    BY <2>2 DEF ScopeRows
  <2>7. CASE ~item[i].scope.ofIssue /\ ~item[j].scope.ofIssue
    BY <2>1, <2>4, <2>7
  <2>8. CASE item[i].scope.ofIssue # item[j].scope.ofIssue
    BY <2>5, <2>8
  <2> QED BY <2>3, <2>6, <2>7, <2>8
<1>7. NamesApart(item')
  <2> SUFFICES ASSUME NEW i \in Items, NEW j \in Items, i # j, KindOf(i) = KindOf(j),
                      item'[i].st = "live", item'[j].st = "live", item'[i].name = item'[j].name
               PROVE  item'[i].scope # item'[j].scope
    BY DEF NamesApart
  <2>1. item[i].st = "live" /\ item[j].st = "live"
    BY <1>3
  <2>2. item[i].name = item[j].name
    BY <1>3, <2>1
  <2> QED BY <1>6, <2>1, <2>2
<1>8. ContextTypes' <=>
        /\ home' \in [project : Homes, moves : 0..MaxTransfers]
        /\ edits' \in Seq(EditRows) /\ Len(edits') <= MaxEdits
        /\ Placed(item', home'.project, Len(edits') + 1) /\ NamesApart(item')
        /\ \A s \in Requests : Typed(request'[s], Len(edits') + 1)
  BY DEF ContextTypes
<1> QED BY <1>1, <1>2, <1>5, <1>7, <1>8 DEF ContextTypes

\* A step that writes no edit and moves nothing, and brings no item to life.
LEMMA Quiet_Types ==
  ASSUME ContextInv, ContextTypes, edits' = edits, home' = home,
         \A i \in Items : item'[i].st = "live" => item'[i] = item[i],
         \A s \in Requests : Typed(request'[s], Len(edits) + 1)
  PROVE  ContextTypes'
<1>1. Placed(item', home.project, Len(edits) + 1)
  BY DEF ContextTypes, Placed
<1>2. NamesApart(item')
  BY DEF ContextTypes, NamesApart
<1>3. ContextTypes' <=>
        /\ home' \in [project : Homes, moves : 0..MaxTransfers]
        /\ edits' \in Seq(EditRows) /\ Len(edits') <= MaxEdits
        /\ Placed(item', home'.project, Len(edits') + 1) /\ NamesApart(item')
        /\ \A s \in Requests : Typed(request'[s], Len(edits') + 1)
  BY DEF ContextTypes
<1> QED BY <1>1, <1>2, <1>3 DEF ContextTypes

\* A request takes up what it asks for, or goes on, or ends.
LEMMA Asks_Types ==
  ASSUME ContextInv, ContextTypes, item' = item, edits' = edits, home' = home,
         NEW r \in Requests, NEW x, request' = [request EXCEPT ![r] = x],
         Typed(x, Len(edits) + 1)
  PROVE  ContextTypes'
<1>1. \A s \in Requests : Typed(request'[s], Len(edits) + 1)
  BY DEF ContextInv, ContextTypes
<1> QED BY <1>1, Quiet_Types

LEMMA CreateReads_Types ==
  ASSUME ContextInv, ContextTypes, NEW r \in Requests, NEW i, NEW name \in Names,
         NEW scope \in Scopes, NEW content, CreateReads(r, i, name, scope, content)
  PROVE  ContextTypes'
<1> DEFINE x == [pc |-> "create", id |-> i, name |-> name, scope |-> scope, content |-> content]
<1>1. x.pc = "create" /\ x.name = name /\ x.scope = scope /\ scope \in ScopeRows
  BY ContextAssumption DEF ScopeRows
<1>2. request' = [request EXCEPT ![r] = x] /\ item' = item /\ edits' = edits /\ home' = home
  BY DEF CreateReads
<1> HIDE DEF x
<1>3. Typed(x, Len(edits) + 1)
  BY <1>1 DEF Typed
<1> QED BY <1>2, <1>3, Asks_Types

LEMMA WriteReads_Types ==
  ASSUME ContextInv, ContextTypes, NEW r \in Requests, NEW i \in Items, NEW ask \in Asks,
         NEW expects, WriteReads(r, i, ask, expects)
  PROVE  ContextTypes'
<1> DEFINE x == WriteRow("read", i, ask, expects, 0, item[i])
<1>1. x.pc = "read" /\ x.row = item[i] /\ x.patch = ask
  BY DEF WriteRow
<1>2. request' = [request EXCEPT ![r] = x] /\ item' = item /\ edits' = edits /\ home' = home
  BY DEF WriteReads, WriteRow
<1> HIDE DEF x
<1>3. Columns(item[i], Len(edits) + 1)
  BY DEF WriteReads, Live, ContextTypes, Placed
<1>4. AskFits(ask)
  BY ContextAssumption DEF AskFits, ScopeRows
<1>5. Typed(x, Len(edits) + 1)
  BY <1>1, <1>3, <1>4 DEF Typed
<1> QED BY <1>2, <1>5, Asks_Types

LEMMA Types_Next == ContextInv /\ ContextTypes /\ [ContextNext]_contextVars => ContextTypes'
<1> SUFFICES ASSUME ContextInv, ContextTypes, [ContextNext]_contextVars PROVE ContextTypes'
  OBVIOUS
<1>1. CASE UNCHANGED contextVars
  <2>1. item' = item /\ edits' = edits /\ home' = home /\ request' = request
    BY <1>1 DEF contextVars
  <2>2. \A s \in Requests : Typed(request'[s], Len(edits) + 1)
    BY <2>1 DEF ContextTypes
  <2> QED BY <2>1, <2>2, Quiet_Types
<1>2. ASSUME NEW i \in Items, DeleteItem(i)
      PROVE  ContextTypes'
  <2>1. edits' = edits /\ home' = home /\ request' = request
        /\ item' = [item EXCEPT ![i] = Deleted]
    BY <1>2 DEF DeleteItem
  <2>2. \A j \in Items : item'[j].st = "live" => item'[j] = item[j]
    BY <2>1, NotLive DEF ContextInv, ItemRows
  <2>3. \A s \in Requests : Typed(request'[s], Len(edits) + 1)
    BY <2>1 DEF ContextTypes
  <2> QED BY <2>1, <2>2, <2>3, Quiet_Types
<1>3. ASSUME NEW r \in Requests, WritePrepares(r) \/ RequestEnds(r)
      PROVE  ContextTypes'
  <2>1. item' = item /\ edits' = edits /\ home' = home
    BY <1>3 DEF WritePrepares, RequestEnds
  <2>2. ASSUME NEW q, NEW x, q = request[r], WritePrepares(r), ~Refused(q),
               x = [q EXCEPT !.pc = "ready"]
        PROVE  Typed(x, Len(edits) + 1)
    <3>1. q.pc = "read" /\ RequestFits(q, item) /\ Typed(q, Len(edits) + 1)
      BY <2>2, NotLive DEF WritePrepares, ContextInv, Reserves, ContextTypes
    <3>2. q = WriteRow(q.pc, q.id, q.patch, q.expects, q.tries, q.row)
      BY <3>1 DEF RequestFits, Writing
    <3>3. x = WriteRow("ready", q.id, q.patch, q.expects, q.tries, q.row)
      BY <2>2, <3>2 DEF WriteRow
    <3>4. x.pc = "ready" /\ x.row = q.row /\ x.patch = q.patch
      BY <3>3 DEF WriteRow
    <3> QED BY <3>1, <3>4 DEF Typed
  <2>3. PICK x : request' = [request EXCEPT ![r] = x] /\ Typed(x, Len(edits) + 1)
    BY <1>3, <2>2, NoRequestTyped DEF WritePrepares, RequestEnds
  <2> QED BY <2>1, <2>3, Asks_Types
<1> QED BY <1>1, <1>2, <1>3, Created_Types, Lands_Types, Loses_Types, Moves_Types,
          CreateReads_Types, WriteReads_Types DEF ContextNext

LEMMA Types_Init == ContextInit => ContextTypes
<1> SUFFICES ASSUME ContextInit PROVE ContextTypes
  OBVIOUS
<1>1. \A i \in Items : item[i].st # "live"
  BY NotLive DEF ContextInit
<1>2. edits = <<>> /\ Len(edits) = 0 /\ edits \in Seq(EditRows)
  BY DEF ContextInit
<1>3. \A r \in Requests : Typed(request[r], Len(edits) + 1)
  BY NoRequestTyped DEF ContextInit
<1> QED BY <1>1, <1>2, <1>3, ContextAssumption
        DEF ContextInit, ContextTypes, Placed, NamesApart

-----------------------------------------------------------------------------
(* Context items: types, theorem *)

\* Names stay unique in a scope, an item of the issue is in its project and
\* versions count the edits, whatever writes, transfers and deletions overlap.
THEOREM ContextTypeCorrect == ContextSpec => []ContextTypeOK
<1>1. ContextTypes => ContextTypeOK
  <2> SUFFICES ASSUME ContextTypes PROVE ContextTypeOK
    OBVIOUS
  <2>1. home.project \in Homes /\ home.moves \in 0..MaxTransfers
    BY DEF ContextTypes
  <2>2. edits \in Seq([id : Items, version : 2..MaxEdits + 1])
    BY DEF ContextTypes, EditRows
  <2>3. ASSUME NEW i \in Items, Live(i)
        PROVE  /\ item[i].name \in Names /\ item[i].scope.project \in Homes
               /\ item[i].version \in 1..MaxEdits + 1
               /\ Coherent(item[i].scope)
               /\ ~Taken(i, item[i].name, item[i].scope)
    <3>1. Columns(item[i], Len(edits) + 1) /\ Belongs(item[i].scope, home.project)
      BY <2>3 DEF ContextTypes, Placed, Live
    <3>2. Len(edits) \in Nat /\ Len(edits) <= MaxEdits
      BY DEF ContextTypes
    <3>3. item[i].version \in 1..MaxEdits + 1
      BY <3>1, <3>2, ContextAssumption DEF Columns
    <3>4. ~Taken(i, item[i].name, item[i].scope)
      BY <2>3 DEF ContextTypes, NamesApart, Taken, Live
    <3> QED BY <3>1, <3>3, <3>4 DEF Columns, ScopeRows, Belongs, Coherent
  <2> QED BY <2>1, <2>2, <2>3 DEF ContextTypeOK
<1> QED BY <1>1, Context_Init, Context_Next, Types_Init, Types_Next, PTL DEF ContextSpec

-----------------------------------------------------------------------------
(* Artifacts: the inductive invariant *)

Triples == (Nat \ {0}) \X (Nat \ {0}) \X {1, 2}
VersionRows == [at : Nat, objects : SUBSET Triples]
ArtRows == [item : Nat, type : Types, versions : Seq(VersionRows)]
PuttingRows == [pc : {"putting"}, op : {"attach", "reaffirm"}, type : Types, tries : Nat,
                at : Nat, item : Nat \ {0}, base : Nat, left : 0..2, objects : SUBSET Triples]
RetryRows == [pc : {"again"}, op : {"attach", "reaffirm"}, type : Types, tries : Nat]
DeleteRows == [pc : {"delete", "prefix"}, item : Nat \ {0}]

(* The artifact: its objects are its own and stored, its instants ordered. *)
Stands(a, stored, now, n) ==
    /\ a \in ArtRows /\ a.item <= n
    /\ a.item # 0 <=> Len(a.versions) > 0
    /\ \A k \in DOMAIN a.versions :
         /\ a.versions[k].at <= now
         /\ \A o \in a.versions[k].objects : o[1] = a.item /\ o \in stored
         /\ \A j \in 1..k : a.versions[j].at <= a.versions[k].at

(* An upload for a new item has that item to itself; one for an item that  *)
(* still stands knows its type, and its length unless it was overtaken.    *)
Uploads(r, a, stored, now, n) ==
    /\ r \in PuttingRows /\ r.item <= n /\ r.at <= now
    /\ \A o \in r.objects : o[1] = r.item
    /\ r.base = 0 \/ a.item = r.item => \A o \in r.objects : o[3] > r.left => o \in stored
    /\ r.base = 0 => r.item # a.item
    /\ r.base > 0 /\ a.item = r.item =>
         /\ r.base <= Len(a.versions) /\ r.type = a.type
         /\ r.base = Len(a.versions) => \A k \in DOMAIN a.versions : a.versions[k].at <= r.at

(* The prefix that is swept is not the artifact's. *)
Removes(r, a, n) == r \in DeleteRows /\ r.item <= n /\ (r.pc = "prefix" => r.item # a.item)

WriterOK(r, a, stored, now, n) ==
    r = NotWriting \/ r \in RetryRows \/ Uploads(r, a, stored, now, n) \/ Removes(r, a, n)

OwnItem(r, s) ==
    r.pc = "putting" /\ r.base = 0 /\ s.pc \in {"putting", "delete", "prefix"} => r.item # s.item

WritersInv ==
    /\ instant \in Nat /\ ids \in Nat
    /\ Stands(art, store, instant, ids)
    /\ writer = [w \in Writers |-> writer[w]]
    /\ \A w \in Writers : WriterOK(writer[w], art, store, instant, ids)
    /\ \A w, v \in Writers : w # v => OwnItem(writer[w], writer[v])

\* The program counter tells what a writer's record is.
LEMMA WriterPc ==
  ASSUME NEW r, NEW a, NEW stored, NEW now, NEW n, WriterOK(r, a, stored, now, n)
  PROVE  /\ r.pc = "putting" => Uploads(r, a, stored, now, n)
         /\ r.pc \in {"delete", "prefix"} => Removes(r, a, n)
         /\ r.pc \in {"putting", "delete", "prefix", "again", "free"}
BY DEF WriterOK, Uploads, Removes, NotWriting, RetryRows, PuttingRows, DeleteRows

\* A step of one writer: its new record is in order, and nothing another holds
\* is disturbed.
LEMMA WriterStep ==
  ASSUME WritersInv, instant' \in Nat, ids' \in Nat, Stands(art', store', instant', ids'),
         NEW w \in Writers, NEW x, writer' = [writer EXCEPT ![w] = x],
         WriterOK(x, art', store', instant', ids'),
         \A v \in Writers : v # w =>
             /\ WriterOK(writer[v], art', store', instant', ids')
             /\ OwnItem(x, writer[v]) /\ OwnItem(writer[v], x)
  PROVE  WritersInv'
<1>1. writer' = [v \in Writers |-> writer'[v]]
  BY DEF WritersInv
<1>2. \A v \in Writers : writer'[v] = IF v = w THEN x ELSE writer[v]
  BY DEF WritersInv
<1>3. \A v \in Writers : WriterOK(writer'[v], art', store', instant', ids')
  BY <1>2
<1>4. \A u, v \in Writers : u # v => OwnItem(writer'[u], writer'[v])
  BY <1>2 DEF WritersInv
<1>5. WritersInv' <=>
        /\ instant' \in Nat /\ ids' \in Nat
        /\ Stands(art', store', instant', ids')
        /\ writer' = [v \in Writers |-> writer'[v]]
        /\ \A v \in Writers : WriterOK(writer'[v], art', store', instant', ids')
        /\ \A u, v \in Writers : u # v => OwnItem(writer'[u], writer'[v])
  BY DEF WritersInv, Stands, WriterOK, Uploads, Removes, OwnItem
<1> QED BY <1>1, <1>3, <1>4, <1>5

\* A step of one writer that changes nothing but its record and mints a number
\* or stores more objects.
LEMMA QuietStep ==
  ASSUME WritersInv, instant' = instant, ids' \in Nat, ids <= ids', art' = art,
         store \subseteq store',
         NEW w \in Writers, NEW x, writer' = [writer EXCEPT ![w] = x],
         WriterOK(x, art, store', instant, ids'),
         \A v \in Writers : v # w => OwnItem(x, writer[v]) /\ OwnItem(writer[v], x)
  PROVE  WritersInv'
<1>1. instant' \in Nat /\ ids \in Nat
  BY DEF WritersInv
<1>2. Stands(art', store', instant', ids')
  BY <1>1 DEF WritersInv, Stands, ArtRows
<1>3. ASSUME NEW r, WriterOK(r, art, store, instant, ids)
      PROVE  WriterOK(r, art', store', instant', ids')
  <2>1. CASE r = NotWriting \/ r \in RetryRows
    BY <2>1 DEF WriterOK
  <2>2. CASE Uploads(r, art, store, instant, ids)
    <3>1. r.item \in Nat /\ r.item <= ids
      BY <2>2 DEF Uploads, PuttingRows
    <3>2. r.item <= ids'
      BY <1>1, <3>1
    <3>3. Uploads(r, art', store', instant', ids')
      BY <2>2, <3>2 DEF Uploads
    <3> QED BY <3>3 DEF WriterOK
  <2>3. CASE Removes(r, art, ids)
    <3>1. r.item \in Nat /\ r.item <= ids
      BY <2>3 DEF Removes, DeleteRows
    <3>2. Removes(r, art', ids')
      BY <1>1, <2>3, <3>1 DEF Removes
    <3> QED BY <3>2 DEF WriterOK
  <2> QED BY <1>3, <2>1, <2>2, <2>3 DEF WriterOK
<1>4. \A v \in Writers : v # w =>
             /\ WriterOK(writer[v], art', store', instant', ids')
             /\ OwnItem(x, writer[v]) /\ OwnItem(writer[v], x)
  BY <1>3 DEF WritersInv
<1>5. WriterOK(x, art', store', instant', ids')
  OBVIOUS
<1> QED BY <1>1, <1>2, <1>4, <1>5, WriterStep

-----------------------------------------------------------------------------
(* Artifacts: one lemma per action of a writer *)

\* Initially there is nothing.
LEMMA Writers_Init == ArtifactsInit => WritersInv
<1> SUFFICES ASSUME ArtifactsInit PROVE WritersInv
  OBVIOUS
<1>1. Stands(art, store, instant, ids)
  BY ArtifactAssumption DEF ArtifactsInit, NoArtifact, Stands, ArtRows
<1>2. \A w \in Writers : writer[w] = NotWriting
  BY DEF ArtifactsInit
<1>3. writer = [w \in Writers |-> writer[w]]
  BY DEF ArtifactsInit
<1> QED
  BY <1>1, <1>2, <1>3 DEF ArtifactsInit, WritersInv, WriterOK, OwnItem, NotWriting

\* An artifact that is there has a newest version.
LEMMA Standing ==
  ASSUME WritersInv
  PROVE  /\ art \in ArtRows /\ art.item \in Nat /\ art.type \in Types
         /\ art.versions \in Seq(VersionRows) /\ Len(art.versions) \in Nat
         /\ DOMAIN art.versions = 1..Len(art.versions)
         /\ instant \in Nat /\ ids \in Nat /\ art.item <= ids
         /\ Exists <=> Len(art.versions) > 0
BY DEF WritersInv, Stands, ArtRows, Exists

\* Who reads the artifact uses its item, and who does not find one a new number.
LEMMA AttachReads_Inv ==
  ASSUME WritersInv, NEW w \in Writers, NEW type \in Types, NEW tries \in 0..Retries,
         AttachReads(w, type, tries)
  PROVE  WritersInv'
<1> DEFINE n == ids + 1
           it == ItemOrNew
           objs == {<<it, n, k>> : k \in 1..Count(type)}
           x == [pc |-> "putting", op |-> "attach", type |-> type, tries |-> tries, at |-> instant,
                 item |-> it, base |-> Len(art.versions), left |-> Count(type), objects |-> objs]
<1>1. /\ writer' = [writer EXCEPT ![w] = x] /\ ids' = n
      /\ instant' = instant /\ art' = art /\ store' = store /\ MayAttach(type)
  BY DEF AttachReads
<1>2. Count(type) \in 0..2 /\ tries \in Nat
  BY ArtifactAssumption DEF Count
<1>3. /\ it \in Nat \ {0} /\ it <= n /\ n \in Nat \ {0}
      /\ it = art.item \/ it = n
      /\ Len(art.versions) = 0 => it = n
      /\ Len(art.versions) > 0 => it = art.item
      /\ it = n => it # art.item
      /\ Len(art.versions) > 0 => type = art.type
  BY <1>1, Standing DEF ItemOrNew, Exists, MayAttach
<1> HIDE DEF it
<1>4. objs \in SUBSET Triples
  <2>1. 1..Count(type) \subseteq {1, 2}
    BY <1>2
  <2> QED BY <1>3, <2>1 DEF Triples
<1>5. \A o \in objs : o[1] = it /\ o[3] \in 1..Count(type)
  OBVIOUS
<1> HIDE DEF objs
<1>6. /\ x.pc = "putting" /\ x.item = it /\ x.base = Len(art.versions) /\ x.left = Count(type)
      /\ x.at = instant /\ x.objects = objs /\ x.type = type
      /\ x \in PuttingRows
  BY <1>2, <1>3, <1>4, Standing DEF PuttingRows
<1> HIDE DEF x
<1>7. Uploads(x, art, store', instant, ids')
  <2>1. \A o \in x.objects : ~(o[3] > x.left)
    BY <1>2, <1>5, <1>6
  <2>2. x.base = 0 => x.item # art.item
    BY <1>3, <1>6
  <2>3. x.base > 0 /\ art.item = x.item =>
          /\ x.base <= Len(art.versions) /\ x.type = art.type
          /\ \A k \in DOMAIN art.versions : art.versions[k].at <= x.at
    BY <1>3, <1>6, Standing DEF WritersInv, Stands
  <2>4. x.item <= ids' /\ x.at <= instant
    BY <1>1, <1>3, <1>6, Standing
  <2> QED BY <1>5, <1>6, <2>1, <2>2, <2>3, <2>4 DEF Uploads
<1>8. ASSUME NEW v \in Writers, v # w
      PROVE  OwnItem(x, writer[v]) /\ OwnItem(writer[v], x)
  <2> DEFINE r == writer[v]
  <2>1. r.pc \in {"putting", "delete", "prefix"} => r.item \in Nat /\ r.item <= ids
    BY WriterPc DEF WritersInv, Uploads, Removes, PuttingRows, DeleteRows
  <2>2. r.pc = "putting" /\ r.base = 0 => r.item # art.item
    BY WriterPc DEF WritersInv, Uploads
  <2> HIDE DEF r
  <2>3. ids < n
    BY Standing
  <2>4. x.base = 0 => x.item = n
    BY <1>3, <1>6
  <2>5. OwnItem(x, r)
    BY <2>1, <2>3, <2>4, Standing DEF OwnItem
  <2>6. OwnItem(r, x)
    BY <1>3, <1>6, <2>1, <2>2, <2>3, Standing DEF OwnItem
  <2> QED BY <2>5, <2>6 DEF r
<1>9. WriterOK(x, art, store', instant, ids')
  BY <1>7 DEF WriterOK
<1>10. ids' \in Nat /\ ids <= ids' /\ store \subseteq store'
  BY <1>1, Standing
<1> QED BY <1>1, <1>8, <1>9, <1>10, QuietStep

\* A reaffirmation is an upload that has nothing left to put: the objects are
\* those of the current version.
LEMMA ReaffirmReads_Inv ==
  ASSUME WritersInv, NEW w \in Writers, NEW type \in Types, NEW tries \in 0..Retries,
         ReaffirmReads(w, type, tries)
  PROVE  WritersInv'
<1> DEFINE objs == Current.objects
           x == [pc |-> "putting", op |-> "reaffirm", type |-> type, tries |-> tries,
                 at |-> instant, item |-> art.item, base |-> Len(art.versions), left |-> 0,
                 objects |-> objs]
<1>1. /\ writer' = [writer EXCEPT ![w] = x] /\ ids' = ids + 1
      /\ instant' = instant /\ art' = art /\ store' = store /\ MayAttach(type) /\ Exists
  BY DEF ReaffirmReads
<1>2. /\ Len(art.versions) > 0 /\ art.item # 0 /\ type = art.type
      /\ Len(art.versions) \in DOMAIN art.versions
  BY <1>1, Standing DEF Exists, MayAttach
<1>3. /\ objs \in SUBSET Triples /\ \A o \in objs : o[1] = art.item /\ o \in store
  <2>1. PICK k \in DOMAIN art.versions : Current = art.versions[k]
    BY <1>2 DEF Current
  <2>2. art.versions[k] \in VersionRows
    BY Standing, ElementOfSeq
  <2>3. \A o \in art.versions[k].objects : o[1] = art.item /\ o \in store
    BY DEF WritersInv, Stands
  <2> QED BY <2>1, <2>2, <2>3 DEF VersionRows
<1> HIDE DEF objs
<1>4. /\ x.pc = "putting" /\ x.item = art.item /\ x.base = Len(art.versions) /\ x.left = 0
      /\ x.at = instant /\ x.objects = objs /\ x.type = type
      /\ x \in PuttingRows
  BY <1>2, <1>3, Standing, ArtifactAssumption DEF PuttingRows
<1> HIDE DEF x
<1>5. ids' \in Nat /\ ids <= ids' /\ store \subseteq store'
  BY <1>1, Standing
<1>6. Uploads(x, art, store', instant, ids')
  <2>1. \A k \in DOMAIN art.versions : art.versions[k].at <= x.at
    BY <1>4 DEF WritersInv, Stands
  <2>2. x.base # 0 /\ x.item <= ids' /\ x.at <= instant
    BY <1>1, <1>2, <1>4, Standing
  <2>3. x.base <= Len(art.versions)
    BY <1>4, Standing
  <2>4. \A o \in x.objects : o[1] = x.item /\ o \in store'
    BY <1>3, <1>4, <1>5
  <2> QED BY <1>2, <1>4, <2>1, <2>2, <2>3, <2>4 DEF Uploads
<1>7. ASSUME NEW v \in Writers, v # w
      PROVE  OwnItem(x, writer[v]) /\ OwnItem(writer[v], x)
  <2>1. writer[v].pc = "putting" /\ writer[v].base = 0 => writer[v].item # art.item
    BY WriterPc DEF WritersInv, Uploads
  <2> QED BY <1>2, <1>4, <2>1 DEF OwnItem
<1>8. WriterOK(x, art, store', instant, ids')
  BY <1>6 DEF WriterOK
<1> QED BY <1>1, <1>5, <1>7, <1>8, QuietStep

\* An object that is put is one of those that count as put from then on.
LEMMA PutObject_Inv ==
  ASSUME WritersInv, NEW w \in Writers, PutObject(w)
  PROVE  WritersInv'
<1> DEFINE r == writer[w]
           x == [r EXCEPT !.left = r.left - 1]
<1>1. /\ r.pc = "putting" /\ r.left > 0
      /\ store' = store \cup {o \in r.objects : o[3] = r.left}
      /\ writer' = [writer EXCEPT ![w] = x]
      /\ instant' = instant /\ ids' = ids /\ art' = art
  BY DEF PutObject
<1>2. Uploads(r, art, store, instant, ids)
  BY <1>1, WriterPc DEF WritersInv
<1>3. r \in PuttingRows
  BY <1>2 DEF Uploads
<1>4. /\ x \in PuttingRows /\ x.pc = "putting" /\ x.left = r.left - 1 /\ x.item = r.item
      /\ x.base = r.base /\ x.objects = r.objects /\ x.at = r.at /\ x.type = r.type
  BY <1>1, <1>3 DEF PuttingRows
<1> HIDE DEF x
<1>5. \A o \in x.objects : o[3] > x.left => o[3] = r.left \/ o[3] > r.left
  <2>1. \A o \in x.objects : o[3] \in {1, 2}
    BY <1>4 DEF PuttingRows, Triples
  <2>2. r.left \in Nat
    BY <1>3 DEF PuttingRows
  <2> QED BY <1>4, <2>1, <2>2
<1>6. x.base = 0 \/ art.item = x.item => \A o \in x.objects : o[3] > x.left => o \in store'
  BY <1>1, <1>2, <1>4, <1>5 DEF Uploads
<1>7. Uploads(x, art, store', instant, ids')
  BY <1>1, <1>2, <1>4, <1>6 DEF Uploads
<1>8. \A v \in Writers : v # w => OwnItem(x, writer[v]) /\ OwnItem(writer[v], x)
  BY <1>1, <1>4 DEF WritersInv, OwnItem
<1>9. WriterOK(x, art, store', instant, ids') /\ ids' \in Nat /\ ids <= ids'
  BY <1>1, <1>7, Standing DEF WriterOK
<1> QED BY <1>1, <1>8, <1>9, QuietStep

\* A record that holds no item concerns nobody.
LEMMA Idle_OK ==
  ASSUME NEW x, x = NotWriting \/ x \in RetryRows
  PROVE  /\ \A a, stored, now, n : WriterOK(x, a, stored, now, n)
         /\ \A r : OwnItem(x, r) /\ OwnItem(r, x)
BY DEF WriterOK, OwnItem, NotWriting, RetryRows

\* A lost race is tried again, a failure is not: neither leaves a row behind.
LEMMA WriterRests_Inv ==
  ASSUME WritersInv, NEW w \in Writers, VersionRaces(w) \/ WriterFails(w)
  PROVE  WritersInv'
<1> DEFINE r == writer[w]
           again == [pc |-> "again", op |-> r.op, type |-> r.type, tries |-> r.tries + 1]
<1>1. /\ instant' = instant /\ ids' = ids /\ art' = art /\ store' = store
      /\ \/ VersionRaces(w) /\ writer' = [writer EXCEPT ![w] = again]
         \/ writer' = [writer EXCEPT ![w] = NotWriting]
  BY DEF VersionRaces, WriterFails
<1>2. VersionRaces(w) => again \in RetryRows
  <2>1. VersionRaces(w) => r \in PuttingRows
    BY WriterPc DEF VersionRaces, Ready, WritersInv, Uploads
  <2> QED BY <2>1 DEF PuttingRows, RetryRows
<1> HIDE DEF again
<1>3. ids' \in Nat /\ ids <= ids' /\ store \subseteq store'
  BY <1>1, Standing
<1>4. PICK x : (x = NotWriting \/ x \in RetryRows) /\ writer' = [writer EXCEPT ![w] = x]
  BY <1>1, <1>2
<1>5. WriterOK(x, art, store', instant, ids')
      /\ \A v \in Writers : OwnItem(x, writer[v]) /\ OwnItem(writer[v], x)
  BY <1>4, Idle_OK
<1> QED BY <1>1, <1>3, <1>4, <1>5, QuietStep

\* A delete takes the item along.
LEMMA DeleteReads_Inv ==
  ASSUME WritersInv, NEW w \in Writers, DeleteReads(w)
  PROVE  WritersInv'
<1> DEFINE x == [pc |-> "delete", item |-> art.item]
<1>1. /\ instant' = instant /\ ids' = ids /\ art' = art /\ store' = store
      /\ writer' = [writer EXCEPT ![w] = x] /\ art.item # 0
  BY DEF DeleteReads, Exists
<1>2. x.pc = "delete" /\ x.item = art.item /\ Removes(x, art, ids)
  BY <1>1, Standing DEF Removes, DeleteRows
<1> HIDE DEF x
<1>3. ASSUME NEW v \in Writers, v # w
      PROVE  OwnItem(x, writer[v]) /\ OwnItem(writer[v], x)
  <2>1. writer[v].pc = "putting" /\ writer[v].base = 0 => writer[v].item # art.item
    BY WriterPc DEF WritersInv, Uploads
  <2> QED BY <1>2, <2>1 DEF OwnItem
<1>4. WriterOK(x, art, store', instant, ids') /\ ids' \in Nat /\ ids <= ids' /\ store \subseteq store'
  BY <1>1, <1>2, Standing DEF WriterOK
<1> QED BY <1>1, <1>3, <1>4, QuietStep

\* A version lands: what it adds is stored, its own, and not older than what
\* is there, whether the item is new or was read before.
LEMMA Lands ==
  ASSUME WritersInv, NEW w \in Writers, VersionCommits(w)
  PROVE  LET r == writer[w] IN
         /\ r.pc = "putting" /\ Uploads(r, art, store, instant, ids)
         /\ art' = [item |-> r.item, type |-> r.type,
                    versions |-> Append(art.versions, [at |-> r.at, objects |-> r.objects])]
         /\ \/ r.base = 0 /\ art.item = 0 /\ Len(art.versions) = 0
            \/ r.base > 0 /\ art.item = r.item /\ Len(art.versions) = r.base
         /\ Stands(art', store, instant, ids)
<1> DEFINE r == writer[w]
           v == [at |-> r.at, objects |-> r.objects]
           vs == Append(art.versions, v)
<1>1. /\ r.pc = "putting" /\ r.left = 0 /\ ~Raced(r)
      /\ art' = [item |-> r.item, type |-> r.type, versions |-> vs]
  BY DEF VersionCommits, Ready
<1>2. Uploads(r, art, store, instant, ids)
  BY <1>1, WriterPc DEF WritersInv
<1>3. r \in PuttingRows /\ r.item # 0 /\ r.base \in Nat
  BY <1>2 DEF Uploads, PuttingRows
<1>4. \/ r.base = 0 /\ art.item = 0 /\ Len(art.versions) = 0
      \/ r.base > 0 /\ art.item = r.item /\ Len(art.versions) = r.base
  BY <1>1, <1>3, Standing DEF Raced, Exists
<1>5. v \in VersionRows /\ v.at = r.at /\ v.objects = r.objects
  BY <1>3 DEF PuttingRows, VersionRows
<1> HIDE DEF v
<1>6. /\ vs \in Seq(VersionRows) /\ Len(vs) = Len(art.versions) + 1
      /\ DOMAIN vs = 1..(Len(art.versions) + 1)
      /\ \A k \in 1..Len(art.versions) : vs[k] = art.versions[k]
      /\ vs[Len(art.versions) + 1] = v
  BY <1>5, Standing
<1> HIDE DEF vs
<1>7. \A o \in r.objects : o[1] = r.item /\ o \in store
  <2>1. \A o \in r.objects : o[3] > r.left
    BY <1>1, <1>3 DEF PuttingRows, Triples
  <2> QED BY <1>2, <1>4, <2>1 DEF Uploads
<1>8. \A k \in 1..Len(art.versions) :
        /\ art.versions[k].at <= r.at /\ art.versions[k].at <= instant
        /\ \A o \in art.versions[k].objects : o[1] = r.item /\ o \in store
        /\ \A j \in 1..k : art.versions[j].at <= art.versions[k].at
  BY <1>2, <1>4, Standing DEF Uploads, WritersInv, Stands
<1>9. \A k \in DOMAIN vs :
        /\ vs[k].at <= instant
        /\ \A o \in vs[k].objects : o[1] = r.item /\ o \in store
        /\ \A j \in 1..k : vs[j].at <= vs[k].at
  <2>1. r.at <= instant /\ r.at \in Nat
    BY <1>2, <1>3 DEF Uploads, PuttingRows
  <2> TAKE k \in DOMAIN vs
  <2>2. CASE k \in 1..Len(art.versions)
    <3>1. \A j \in 1..k : j \in 1..Len(art.versions)
      BY <2>2, Standing
    <3> QED BY <1>6, <1>8, <2>2, <3>1
  <2>3. CASE k = Len(art.versions) + 1
    <3>1. \A j \in 1..k : j \in 1..Len(art.versions) \/ j = k
      BY <2>3, Standing
    <3> QED BY <1>5, <1>6, <1>7, <1>8, <2>1, <2>3, <3>1
  <2>4. k \in 1..Len(art.versions) \/ k = Len(art.versions) + 1
    <3>1. Len(art.versions) \in Nat
      BY Standing
    <3>2. k \in 1..(Len(art.versions) + 1)
      BY <1>6
    <3> HIDE DEF WritersInv
    <3> QED BY <3>1, <3>2
  <2> QED BY <2>2, <2>3, <2>4
<1>10. art' \in ArtRows /\ art'.item = r.item /\ art'.versions = vs
  BY <1>1, <1>3, <1>6 DEF ArtRows, PuttingRows
<1>11. Stands(art', store, instant, ids)
  <2>1. r.item <= ids /\ Len(vs) > 0
    BY <1>2, <1>6, Standing DEF Uploads
  <2> QED BY <1>3, <1>9, <1>10, <2>1 DEF Stands
<1> QED BY <1>1, <1>2, <1>4, <1>11 DEF vs, v

\* After a version lands: an upload for the same item was overtaken, and any
\* other new item is still its upload's own.
LEMMA VersionCommits_Inv ==
  ASSUME WritersInv, NEW w \in Writers, VersionCommits(w)
  PROVE  WritersInv'
<1> DEFINE r == writer[w]
<1>1. /\ writer' = [writer EXCEPT ![w] = NotWriting]
      /\ instant' = instant /\ ids' = ids /\ store' = store
  BY DEF VersionCommits
<1>2. /\ r.pc = "putting" /\ Uploads(r, art, store, instant, ids)
      /\ art' = [item |-> r.item, type |-> r.type,
                 versions |-> Append(art.versions, [at |-> r.at, objects |-> r.objects])]
      /\ \/ r.base = 0 /\ art.item = 0 /\ Len(art.versions) = 0
         \/ r.base > 0 /\ art.item = r.item /\ Len(art.versions) = r.base
      /\ Stands(art', store, instant, ids)
  BY Lands
<1>3. /\ art'.item = r.item /\ art'.type = r.type
      /\ Len(art'.versions) = Len(art.versions) + 1
      /\ r.base > 0 => r.type = art.type
  BY <1>2, Standing DEF Uploads
<1>4. ASSUME NEW v \in Writers, v # w
      PROVE  WriterOK(writer[v], art', store', instant', ids')
  <2> DEFINE q == writer[v]
  <2>1. WriterOK(q, art, store, instant, ids)
    BY DEF WritersInv
  <2>2. CASE q = NotWriting \/ q \in RetryRows
    BY <2>2 DEF WriterOK
  <2>3. CASE Uploads(q, art, store, instant, ids)
    <3>1. q.pc = "putting" /\ q \in PuttingRows
      BY <2>3 DEF Uploads, PuttingRows
    <3>2. q.base = 0 => q.item # art'.item
      BY <1>2, <1>3, <1>4, <3>1 DEF WritersInv, OwnItem
    <3>3. q.item = art'.item => r.base > 0 /\ q.base > 0 /\ q.item = art.item
      <4>1. q.item = art'.item => r.base # 0
        BY <1>2, <1>3, <1>4, <3>1 DEF WritersInv, OwnItem
      <4> QED BY <1>2, <1>3, <3>1, <3>2, <4>1 DEF PuttingRows
    <3>4. q.item = art'.item =>
            /\ q.base <= Len(art'.versions) /\ q.type = art'.type /\ q.base # Len(art'.versions)
      <4>1. q.item = art'.item => q.base <= Len(art.versions) /\ q.type = art.type
        BY <2>3, <3>3 DEF Uploads
      <4> QED BY <1>3, <3>1, <3>3, <4>1, Standing DEF PuttingRows
    <3>5. Uploads(q, art', store, instant, ids)
      BY <2>3, <3>2, <3>3, <3>4 DEF Uploads
    <3> QED BY <1>1, <3>5 DEF WriterOK
  <2>4. CASE Removes(q, art, ids)
    <3>1. q.pc = "prefix" => q.item # art'.item
      BY <1>2, <1>3, <1>4, <2>4 DEF WritersInv, OwnItem, Removes
    <3>2. Removes(q, art', ids)
      BY <2>4, <3>1 DEF Removes
    <3> QED BY <1>1, <3>2 DEF WriterOK
  <2>5. q = NotWriting \/ q \in RetryRows \/ Uploads(q, art, store, instant, ids)
        \/ Removes(q, art, ids)
    BY <2>1 DEF WriterOK
  <2> QED BY <2>2, <2>3, <2>4, <2>5
<1>5. Stands(art', store', instant', ids') /\ instant' \in Nat /\ ids' \in Nat
  BY <1>1, <1>2, Standing
<1>6. \A v \in Writers : v # w =>
             /\ WriterOK(writer[v], art', store', instant', ids')
             /\ OwnItem(NotWriting, writer[v]) /\ OwnItem(writer[v], NotWriting)
  BY <1>4, Idle_OK
<1>7. WriterOK(NotWriting, art', store', instant', ids')
  BY Idle_OK
<1> QED BY <1>1, <1>5, <1>6, <1>7, WriterStep

\* Once the rows are gone, no item that anyone holds is the artifact's.
LEMMA DeleteCommits_Inv ==
  ASSUME WritersInv, NEW w \in Writers, DeleteCommits(w)
  PROVE  WritersInv'
<1> DEFINE r == writer[w]
           x == [r EXCEPT !.pc = "prefix"]
<1>1. /\ r.pc = "delete" /\ writer' = [writer EXCEPT ![w] = x]
      /\ instant' = instant /\ ids' = ids /\ store' = store
      /\ \/ art.item = r.item /\ art' = NoArtifact
         \/ art.item # r.item /\ art' = art
  BY DEF DeleteCommits
<1>2. Removes(r, art, ids)
  BY <1>1, WriterPc DEF WritersInv
<1>3. x \in DeleteRows /\ x.pc = "prefix" /\ x.item = r.item /\ x.item # 0
  BY <1>2 DEF Removes, DeleteRows
<1> HIDE DEF x
<1>4. NoArtifact.item = 0 /\ NoArtifact.versions = <<>> /\ NoArtifact \in ArtRows
  BY ArtifactAssumption DEF NoArtifact, ArtRows
<1>5. Stands(art', store', instant', ids')
  <2>1. CASE art' = art
    BY <1>1, <2>1 DEF WritersInv
  <2>2. CASE art' = NoArtifact
    BY <1>1, <1>4, <2>2, Standing DEF Stands
  <2> QED BY <1>1, <2>1, <2>2
<1>6. WriterOK(x, art', store', instant', ids')
  <2>1. Removes(x, art', ids)
    BY <1>1, <1>2, <1>3, <1>4 DEF Removes
  <2> QED BY <1>1, <2>1 DEF WriterOK
<1>7. ASSUME NEW q, WriterOK(q, art, store, instant, ids)
      PROVE  WriterOK(q, art', store', instant', ids')
  <2>1. CASE art' = art
    BY <1>1, <1>7, <2>1
  <2>2. CASE art' = NoArtifact /\ Uploads(q, art, store, instant, ids)
    <3>1. q.item # 0
      BY <2>2 DEF Uploads, PuttingRows
    <3>2. Uploads(q, NoArtifact, store, instant, ids)
      BY <1>4, <2>2, <3>1 DEF Uploads
    <3> QED BY <1>1, <2>2, <3>2 DEF WriterOK
  <2>3. CASE art' = NoArtifact /\ Removes(q, art, ids)
    <3>1. q.item # 0
      BY <2>3 DEF Removes, DeleteRows
    <3>2. Removes(q, NoArtifact, ids)
      BY <1>4, <2>3, <3>1 DEF Removes
    <3> QED BY <1>1, <2>3, <3>2 DEF WriterOK
  <2> QED BY <1>1, <1>7, <2>1, <2>2, <2>3 DEF WriterOK
<1>8. \A v \in Writers : v # w => OwnItem(x, writer[v]) /\ OwnItem(writer[v], x)
  BY <1>1, <1>3 DEF WritersInv, OwnItem
<1>9. \A v \in Writers : WriterOK(writer[v], art', store', instant', ids')
  BY <1>7 DEF WritersInv
<1> QED BY <1>1, <1>5, <1>6, <1>8, <1>9, Standing, WriterStep

\* The prefix that is swept belongs to no artifact and to no upload that could
\* still land.
LEMMA PrefixDeleted_Inv ==
  ASSUME WritersInv, NEW w \in Writers, PrefixDeleted(w)
  PROVE  WritersInv'
<1> DEFINE it == writer[w].item
<1>1. /\ writer[w].pc = "prefix" /\ store' = Swept(it)
      /\ writer' = [writer EXCEPT ![w] = NotWriting]
      /\ instant' = instant /\ ids' = ids /\ art' = art
  BY DEF PrefixDeleted
<1>2. it # art.item
  BY <1>1, WriterPc DEF WritersInv, Removes
<1>3. \A o \in store : o[1] # it => o \in store'
  BY <1>1 DEF Swept
<1>4. Stands(art', store', instant', ids')
  BY <1>1, <1>2, <1>3 DEF WritersInv, Stands
<1>5. ASSUME NEW v \in Writers, v # w
      PROVE  WriterOK(writer[v], art', store', instant', ids')
  <2> DEFINE q == writer[v]
  <2>1. WriterOK(q, art, store, instant, ids)
    BY DEF WritersInv
  <2>2. CASE Uploads(q, art, store, instant, ids)
    <3>1. q.pc = "putting"
      BY <2>2 DEF Uploads, PuttingRows
    <3>2. q.base = 0 => q.item # it
      BY <1>1, <1>5, <3>1 DEF WritersInv, OwnItem
    <3>3. Uploads(q, art, store', instant, ids)
      BY <1>2, <1>3, <2>2, <3>2 DEF Uploads
    <3> QED BY <1>1, <3>3 DEF WriterOK
  <2>3. CASE ~Uploads(q, art, store, instant, ids)
    BY <1>1, <2>1, <2>3 DEF WriterOK
  <2> QED BY <2>2, <2>3
<1>6. \A v \in Writers : v # w =>
             /\ WriterOK(writer[v], art', store', instant', ids')
             /\ OwnItem(NotWriting, writer[v]) /\ OwnItem(writer[v], NotWriting)
  BY <1>5, Idle_OK
<1>7. WriterOK(NotWriting, art', store', instant', ids')
  BY Idle_OK
<1> QED BY <1>1, <1>4, <1>6, <1>7, Standing, WriterStep

\* A step that leaves writers, artifact and objects alone; time may pass.
LEMMA OthersStep ==
  ASSUME WritersInv, instant' \in Nat, instant <= instant',
         UNCHANGED <<ids, art, store, writer>>
  PROVE  WritersInv'
<1>1. Stands(art, store, instant', ids)
  <2>1. ASSUME NEW k \in DOMAIN art.versions
        PROVE  art.versions[k].at <= instant'
    <3>1. art.versions[k] \in VersionRows
      BY Standing, ElementOfSeq
    <3>2. art.versions[k].at \in Nat /\ art.versions[k].at <= instant
      BY <3>1 DEF VersionRows, WritersInv, Stands
    <3> QED BY <3>2, Standing
  <2> QED BY <2>1, Standing DEF WritersInv, Stands
<1>2. ASSUME NEW q, WriterOK(q, art, store, instant, ids)
      PROVE  WriterOK(q, art, store, instant', ids)
  <2>1. CASE Uploads(q, art, store, instant, ids)
    <3>1. q.at \in Nat /\ q.at <= instant
      BY <2>1 DEF Uploads, PuttingRows
    <3>2. Uploads(q, art, store, instant', ids)
      BY <2>1, <3>1, Standing DEF Uploads
    <3> QED BY <3>2 DEF WriterOK
  <2> QED BY <1>2, <2>1 DEF WriterOK
<1>3. WritersInv' <=>
        /\ instant' \in Nat /\ ids \in Nat
        /\ Stands(art, store, instant', ids)
        /\ writer = [v \in Writers |-> writer[v]]
        /\ \A v \in Writers : WriterOK(writer[v], art, store, instant', ids)
        /\ \A u, v \in Writers : u # v => OwnItem(writer[u], writer[v])
  BY DEF WritersInv, Stands, WriterOK, Uploads, Removes, OwnItem
<1> QED BY <1>1, <1>2, <1>3 DEF WritersInv

\* Every step keeps the writers' invariant.
LEMMA Writers_Next == WritersInv /\ [ArtifactsNext]_artifactVars => WritersInv'
<1> SUFFICES ASSUME WritersInv, [ArtifactsNext]_artifactVars PROVE WritersInv'
  OBVIOUS
<1>1. CASE UNCHANGED artifactVars
  BY <1>1, OthersStep, Standing DEF artifactVars
<1>2. CASE ArtifactsTick \/ GraphEdited
  BY <1>2, OthersStep, Standing DEF ArtifactsTick, GraphEdited
<1>3. ASSUME NEW m \in Movers,
             \/ \E witness \in {Seen, NoWitness} : MoveAsked(m, witness)
             \/ MoveReadsIssue(m) \/ MoveReadsRequirements(m) \/ MoveReadsDecision(m)
             \/ MoveCommits(m)
      PROVE  WritersInv'
  BY <1>3, OthersStep, Standing
     DEF MoveAsked, MoveReadsIssue, MoveReadsRequirements, MoveReadsDecision, MoveCommits
<1>4. CASE ArtifactsNext
  BY <1>2, <1>3, <1>4, AttachReads_Inv, ReaffirmReads_Inv, PutObject_Inv, VersionCommits_Inv,
     WriterRests_Inv, DeleteReads_Inv, DeleteCommits_Inv, PrefixDeleted_Inv DEF ArtifactsNext
<1> QED BY <1>1, <1>4

-----------------------------------------------------------------------------
(* Artifacts: the transition *)

Meets(a, v) == a.item # 0 /\ a.versions[Len(a.versions)].at >= v.entered /\ a.type = Required

(* While the revisions a caller named still stand, what it checked holds,  *)
(* or the artifact was deleted since.                                      *)
StillMet(r, a, v, g, gone) ==
    r.witness.dec = v.dec /\ r.witness.rev = g.rev /\ r.st = "review" /\ g.gated
      => Meets(a, v) \/ gone

MoverOK(r, a, v, g, gone) ==
    /\ r.pc \in {"free", "asked", "row", "detail", "decided"}
    /\ r.pc = "decided" => r.at \in Nat
    /\ r.pc # "free" /\ r.witness # NoWitness =>
         /\ r.witness.dec \in Nat /\ r.witness.dec <= v.dec
         /\ r.witness.rev \in Nat /\ r.witness.rev <= g.rev
         /\ r.pc = "detail" => (r.met => StillMet(r, a, v, g, gone))
         /\ r.pc = "decided" => /\ r.dec = r.witness.dec /\ r.rev = r.witness.rev
                                /\ StillMet(r, a, v, g, gone)

MoversInv ==
    /\ visit \in [st : {"review", "rework"}, entered : Nat, dec : Nat]
    /\ graph \in [rev : Nat, gated : BOOLEAN]
    /\ mover = [m \in Movers |-> mover[m]]
    /\ \A m \in Movers : MoverOK(mover[m], art, visit, graph, removed)

ArtifactsInv == WritersInv /\ MoversInv

\* Initially nobody moves the issue.
LEMMA Movers_Init == ArtifactsInit => MoversInv
BY DEF ArtifactsInit, MoversInv, MoverOK, NotWriting

\* The artifact that a visit has keeps satisfying it unless it is deleted: a
\* version that lands is of its type and not older.
LEMMA MetKept ==
  ASSUME WritersInv, WritersInv', MoversInv, [ArtifactsNext]_artifactVars,
         visit' = visit, Meets(art, visit) \/ removed
  PROVE  Meets(art', visit) \/ removed'
<1>1. CASE art' = art /\ removed' = removed
  BY <1>1
<1>2. ASSUME NEW w \in Writers, VersionCommits(w)
      PROVE  Meets(art', visit) \/ removed'
  <2> DEFINE r == writer[w]
  <2>1. removed' = removed
    BY <1>2 DEF VersionCommits
  <2>2. CASE removed
    BY <2>1, <2>2
  <2>3. CASE Meets(art, visit)
    <3>1. /\ Uploads(r, art, store, instant, ids) /\ art.item = r.item /\ r.base > 0
          /\ Len(art.versions) = r.base
          /\ art' = [item |-> r.item, type |-> r.type,
                     versions |-> Append(art.versions, [at |-> r.at, objects |-> r.objects])]
      BY <1>2, <2>3, Lands DEF Meets
    <3>2. /\ r.type = art.type /\ r.at \in Nat
          /\ art.versions[Len(art.versions)].at <= r.at
      BY <3>1, Standing DEF Uploads, PuttingRows
    <3>3. /\ art'.item = art.item /\ art'.type = art.type
          /\ art'.versions[Len(art'.versions)].at = r.at
      BY <3>1, <3>2, Standing
    <3>4. art.versions[Len(art.versions)].at \in Nat /\ visit.entered \in Nat
      <4>1. Len(art.versions) \in 1..Len(art.versions)
        BY <3>1, Standing
      <4>2. art.versions[Len(art.versions)] \in VersionRows
        BY <4>1, Standing, ElementOfSeq
      <4> QED BY <4>2 DEF VersionRows, MoversInv
    <3> QED BY <2>3, <3>2, <3>3, <3>4 DEF Meets
  <2> QED BY <2>2, <2>3
<1>3. ASSUME NEW w \in Writers, DeleteCommits(w)
      PROVE  Meets(art', visit) \/ removed'
  BY <1>3 DEF DeleteCommits
<1>4. ASSUME NEW m \in Movers, MoveCommits(m)
      PROVE  Meets(art', visit) \/ removed'
  BY <1>4 DEF MoveCommits, Unmoved, MoversInv
<1>5. CASE ArtifactsNext
  BY <1>1, <1>2, <1>3, <1>4, <1>5
     DEF ArtifactsNext, ArtifactsTick, GraphEdited, AttachReads, ReaffirmReads, PutObject,
         VersionRaces, WriterFails, DeleteReads, PrefixDeleted, MoveAsked, MoveReadsIssue,
         MoveReadsRequirements, MoveReadsDecision
<1>6. CASE UNCHANGED artifactVars
  BY <1>1, <1>6 DEF artifactVars
<1> QED BY <1>5, <1>6

\* Visits and graphs go on: what a caller named is never ahead of them, and a
\* new one bears a revision nobody named.
LEMMA MoverKept ==
  ASSUME MoversInv, NEW r, MoverOK(r, art, visit, graph, removed),
         visit' \in [st : {"review", "rework"}, entered : Nat, dec : Nat],
         graph' \in [rev : Nat, gated : BOOLEAN],
         visit' = visit \/ visit.dec < visit'.dec, graph' = graph \/ graph.rev < graph'.rev,
         visit' = visit /\ (Meets(art, visit) \/ removed) => Meets(art', visit') \/ removed'
  PROVE  MoverOK(r, art', visit', graph', removed')
<1>1. CASE r.pc = "free" \/ r.witness = NoWitness
  BY <1>1 DEF MoverOK
<1>2. CASE r.pc # "free" /\ r.witness # NoWitness
  <2>1. /\ r.witness.dec \in Nat /\ r.witness.dec <= visit.dec
        /\ r.witness.rev \in Nat /\ r.witness.rev <= graph.rev
        /\ visit.dec \in Nat /\ visit'.dec \in Nat /\ graph.rev \in Nat /\ graph'.rev \in Nat
    BY <1>2 DEF MoverOK, MoversInv
  <2>2. /\ r.witness.dec <= visit'.dec /\ r.witness.rev <= graph'.rev
        /\ r.witness.dec = visit'.dec => visit' = visit
        /\ r.witness.rev = graph'.rev => graph' = graph
    BY <2>1
  <2>3. StillMet(r, art, visit, graph, removed) => StillMet(r, art', visit', graph', removed')
    BY <2>2 DEF StillMet
  <2> QED BY <1>2, <2>1, <2>2, <2>3 DEF MoverOK
<1> QED BY <1>1, <1>2

\* A step of one mover at most: x is its record afterwards.
LEMMA MoverStep ==
  ASSUME MoversInv,
         visit' \in [st : {"review", "rework"}, entered : Nat, dec : Nat],
         graph' \in [rev : Nat, gated : BOOLEAN],
         visit' = visit \/ visit.dec < visit'.dec, graph' = graph \/ graph.rev < graph'.rev,
         visit' = visit /\ (Meets(art, visit) \/ removed) => Meets(art', visit') \/ removed',
         NEW m, NEW x, mover' = [mover EXCEPT ![m] = x],
         MoverOK(x, art', visit', graph', removed')
  PROVE  MoversInv'
<1>1. \A n \in Movers : MoverOK(mover[n], art', visit', graph', removed')
  BY MoverKept DEF MoversInv
<1>2. \A n \in Movers : MoverOK(mover'[n], art', visit', graph', removed')
  BY <1>1 DEF MoversInv
<1>3. mover' = [n \in Movers |-> mover'[n]]
  BY DEF MoversInv
<1>4. MoversInv' <=>
        /\ visit' \in [st : {"review", "rework"}, entered : Nat, dec : Nat]
        /\ graph' \in [rev : Nat, gated : BOOLEAN]
        /\ mover' = [n \in Movers |-> mover'[n]]
        /\ \A n \in Movers : MoverOK(mover'[n], art', visit', graph', removed')
  BY DEF MoversInv, MoverOK, StillMet, Meets
<1> QED BY <1>2, <1>3, <1>4

\* A step of no mover.
LEMMA NoMoverStep ==
  ASSUME MoversInv, mover' = mover, visit' = visit,
         graph' \in [rev : Nat, gated : BOOLEAN], graph' = graph \/ graph.rev < graph'.rev,
         Meets(art, visit) \/ removed => Meets(art', visit') \/ removed'
  PROVE  MoversInv'
<1>1. visit' \in [st : {"review", "rework"}, entered : Nat, dec : Nat]
  BY DEF MoversInv
<1>2. \A n \in Movers : MoverOK(mover[n], art', visit', graph', removed')
  BY <1>1, MoverKept DEF MoversInv
<1>3. MoversInv' <=>
        /\ visit' \in [st : {"review", "rework"}, entered : Nat, dec : Nat]
        /\ graph' \in [rev : Nat, gated : BOOLEAN]
        /\ mover' = [n \in Movers |-> mover'[n]]
        /\ \A n \in Movers : MoverOK(mover'[n], art', visit', graph', removed')
  BY DEF MoversInv, MoverOK, StillMet, Meets
<1> QED BY <1>1, <1>2, <1>3 DEF MoversInv

\* The reads of a transition: each new record is in order.
LEMMA MoverReads ==
  ASSUME ArtifactsInv, NEW m \in Movers,
         \/ \E witness \in {Seen, NoWitness} : MoveAsked(m, witness)
         \/ MoveReadsIssue(m) \/ MoveReadsRequirements(m) \/ MoveReadsDecision(m)
  PROVE  \E x : /\ mover' = [mover EXCEPT ![m] = x]
                /\ MoverOK(x, art, visit, graph, removed)
<1> DEFINE r == mover[m]
<1>0. MoverOK(r, art, visit, graph, removed) /\ NotWriting.pc = "free"
  BY DEF ArtifactsInv, MoversInv, NotWriting
<1>1. ASSUME NEW witness \in {Seen, NoWitness}, MoveAsked(m, witness)
      PROVE  \E x : /\ mover' = [mover EXCEPT ![m] = x]
                    /\ MoverOK(x, art, visit, graph, removed)
  <2> DEFINE x == [pc |-> "asked", witness |-> witness]
  <2>1. witness # NoWitness => /\ witness.dec = visit.dec /\ witness.rev = graph.rev
                               /\ visit.dec \in Nat /\ graph.rev \in Nat
    BY <1>1 DEF Seen, ArtifactsInv, MoversInv
  <2>2. x.pc = "asked" /\ x.witness = witness
    OBVIOUS
  <2>3. mover' = [mover EXCEPT ![m] = x]
    BY <1>1 DEF MoveAsked
  <2> HIDE DEF x
  <2>4. MoverOK(x, art, visit, graph, removed)
    BY <2>1, <2>2 DEF MoverOK
  <2> QED BY <2>3, <2>4
<1>2. CASE MoveReadsIssue(m)
  <2> DEFINE x == [pc |-> "row", witness |-> r.witness, st |-> visit.st]
  <2>1. x.pc = "row" /\ x.witness = r.witness
    OBVIOUS
  <2>2. mover' = [mover EXCEPT ![m] = x] /\ r.pc = "asked"
    BY <1>2 DEF MoveReadsIssue
  <2> HIDE DEF x
  <2>3. MoverOK(x, art, visit, graph, removed)
    BY <1>0, <2>1, <2>2 DEF MoverOK
  <2> QED BY <2>2, <2>3
<1>3. CASE MoveReadsRequirements(m)
  <2> DEFINE met == r.st = "review" /\ graph.gated => Satisfied
             x == [pc |-> "detail", witness |-> r.witness, st |-> r.st, met |-> met]
  <2>1. x.pc = "detail" /\ x.witness = r.witness /\ x.st = r.st /\ x.met = met
    OBVIOUS
  <2>2. mover' = [mover EXCEPT ![m] = x] /\ r.pc = "row"
    BY <1>3 DEF MoveReadsRequirements
  <2> HIDE DEF x
  <2>3. x.met => StillMet(x, art, visit, graph, removed)
    BY <2>1 DEF StillMet, Meets, Satisfied, Fresh, Exists, Current
  <2>4. MoverOK(x, art, visit, graph, removed)
    BY <1>0, <2>1, <2>2, <2>3 DEF MoverOK
  <2> QED BY <2>2, <2>4
<1>4. CASE MoveReadsDecision(m)
  <2> DEFINE x == [pc |-> "decided", witness |-> r.witness, st |-> r.st, dec |-> visit.dec,
                   rev |-> graph.rev, at |-> instant]
  <2>1. /\ x.pc = "decided" /\ x.witness = r.witness /\ x.st = r.st /\ x.dec = visit.dec
        /\ x.rev = graph.rev /\ x.at = instant
    OBVIOUS
  <2>2. /\ r.pc = "detail"
        /\ \/ Witnessed(r) /\ r.met /\ mover' = [mover EXCEPT ![m] = x]
           \/ mover' = [mover EXCEPT ![m] = NotWriting]
    BY <1>4 DEF MoveReadsDecision
  <2> HIDE DEF x
  <2>3. CASE mover' = [mover EXCEPT ![m] = NotWriting]
    <3>1. MoverOK(NotWriting, art, visit, graph, removed)
      BY <1>0 DEF MoverOK
    <3> QED BY <2>3, <3>1
  <2>4. CASE Witnessed(r) /\ r.met /\ mover' = [mover EXCEPT ![m] = x]
    <3>1. r.witness # NoWitness => r.witness.dec = visit.dec /\ r.witness.rev = graph.rev
      BY <2>4 DEF Witnessed
    <3>2. r.witness # NoWitness => StillMet(x, art, visit, graph, removed)
      BY <1>0, <2>1, <2>2, <2>4 DEF MoverOK, StillMet
    <3>3. MoverOK(x, art, visit, graph, removed)
      BY <1>0, <2>1, <2>2, <3>1, <3>2, Standing DEF MoverOK, ArtifactsInv
    <3> QED BY <2>4, <3>3
  <2> QED BY <2>2, <2>3, <2>4
<1> QED BY <1>1, <1>2, <1>3, <1>4

\* Every step keeps the invariant.
LEMMA Artifacts_Next == ArtifactsInv /\ [ArtifactsNext]_artifactVars => ArtifactsInv'
<1> SUFFICES ASSUME ArtifactsInv, [ArtifactsNext]_artifactVars PROVE ArtifactsInv'
  OBVIOUS
<1>1. WritersInv'
  BY Writers_Next DEF ArtifactsInv
<1>2. visit' = visit /\ (Meets(art, visit) \/ removed) => Meets(art', visit') \/ removed'
  BY <1>1, MetKept DEF ArtifactsInv
<1>3. visit \in [st : {"review", "rework"}, entered : Nat, dec : Nat]
      /\ graph \in [rev : Nat, gated : BOOLEAN] /\ MoversInv
  BY DEF ArtifactsInv, MoversInv
<1>4. ASSUME UNCHANGED <<visit, graph, mover>>
      PROVE  MoversInv'
  <2>1. visit' = visit /\ graph' = graph /\ mover' = mover
    BY <1>4
  <2>2. Meets(art, visit) \/ removed => Meets(art', visit') \/ removed'
    BY <1>2, <2>1
  <2> QED BY <1>3, <2>1, <2>2, NoMoverStep
<1>5. ASSUME GraphEdited
      PROVE  MoversInv'
  <2>1. graph' \in [rev : Nat, gated : BOOLEAN] /\ graph.rev < graph'.rev
    BY <1>3, <1>5 DEF GraphEdited
  <2>2. visit' = visit /\ mover' = mover
    BY <1>5 DEF GraphEdited
  <2>3. Meets(art, visit) \/ removed => Meets(art', visit') \/ removed'
    BY <1>2, <2>2
  <2> QED BY <1>3, <2>1, <2>2, <2>3, NoMoverStep
<1>6. ASSUME NEW m \in Movers,
             \/ \E witness \in {Seen, NoWitness} : MoveAsked(m, witness)
             \/ MoveReadsIssue(m) \/ MoveReadsRequirements(m) \/ MoveReadsDecision(m)
      PROVE  MoversInv'
  <2>1. visit' = visit /\ graph' = graph /\ art' = art /\ removed' = removed
    BY <1>6 DEF MoveAsked, MoveReadsIssue, MoveReadsRequirements, MoveReadsDecision
  <2>2. PICK x : /\ mover' = [mover EXCEPT ![m] = x]
                 /\ MoverOK(x, art, visit, graph, removed)
    BY <1>6, MoverReads
  <2>3. MoverOK(x, art', visit', graph', removed')
    BY <2>1, <2>2
  <2> QED BY <1>2, <1>3, <2>1, <2>2, <2>3, MoverStep
<1>7. ASSUME NEW m \in Movers, MoveCommits(m)
      PROVE  MoversInv'
  <2> DEFINE r == mover[m]
             y == [st |-> IF visit.st = "review" THEN "rework" ELSE "review",
                   entered |-> r.at, dec |-> visit.dec + 1]
  <2>1. /\ r.pc = "decided"
        /\ visit' = visit \/ visit' = y
        /\ graph' = graph /\ mover' = [mover EXCEPT ![m] = NotWriting]
    BY <1>7 DEF MoveCommits
  <2>2. r.at \in Nat
    BY <1>3, <2>1 DEF MoversInv, MoverOK
  <2>3. y \in [st : {"review", "rework"}, entered : Nat, dec : Nat] /\ visit.dec < y.dec
    BY <1>3, <2>2
  <2> HIDE DEF y
  <2>4. MoverOK(NotWriting, art', visit', graph', removed')
    BY DEF MoverOK, NotWriting
  <2>5. /\ visit' \in [st : {"review", "rework"}, entered : Nat, dec : Nat]
        /\ visit' = visit \/ visit.dec < visit'.dec
        /\ graph' \in [rev : Nat, gated : BOOLEAN]
    BY <1>3, <2>1, <2>3
  <2> QED BY <1>2, <1>3, <2>1, <2>4, <2>5, MoverStep
<1>8. ASSUME ArtifactsNext
      PROVE  MoversInv'
  BY <1>4, <1>5, <1>6, <1>7, <1>8
     DEF ArtifactsNext, ArtifactsTick, AttachReads, ReaffirmReads, PutObject, VersionCommits,
         VersionRaces, WriterFails, DeleteReads, DeleteCommits, PrefixDeleted
<1>9. ASSUME UNCHANGED artifactVars
      PROVE  MoversInv'
  BY <1>4, <1>9 DEF artifactVars
<1>10. MoversInv'
  BY <1>8, <1>9
<1> QED BY <1>1, <1>10 DEF ArtifactsInv

-----------------------------------------------------------------------------
(* Artifacts: bounds.  An upload under way leaves room for its version, and *)
(* its objects are among those that can be.                                 *)

WriterBound(r) == r.pc = "putting" => r.objects \subseteq Objects /\ r.base < VersionCap

StoreBounds ==
    /\ ids <= MaxIds /\ store \subseteq Objects /\ Len(art.versions) <= VersionCap
    /\ \A w \in Writers : WriterBound(writer[w])

VisitBounds ==
    /\ instant <= MaxInstants /\ removed \in BOOLEAN
    /\ visit.entered <= MaxInstants /\ visit.dec <= MaxDecisions /\ graph.rev <= MaxGraphs
    /\ \A m \in Movers : mover[m].pc = "decided" => mover[m].at <= MaxInstants

LEMMA StoreQuiet ==
  ASSUME WritersInv, StoreBounds, ids' <= MaxIds, store' \subseteq Objects,
         Len(art'.versions) <= VersionCap,
         NEW w \in Writers, NEW x, WriterBound(x), writer' = [writer EXCEPT ![w] = x]
  PROVE  StoreBounds'
<1>1. \A v \in Writers : WriterBound(writer'[v])
  BY DEF WritersInv, StoreBounds
<1>2. StoreBounds' <=>
        /\ ids' <= MaxIds /\ store' \subseteq Objects /\ Len(art'.versions) <= VersionCap
        /\ \A v \in Writers : WriterBound(writer'[v])
  BY DEF StoreBounds, WriterBound, Objects
<1> QED BY <1>1, <1>2

LEMMA StoreBounds_Next ==
  ASSUME WritersInv, StoreBounds, ArtifactsNext
  PROVE  StoreBounds'
<1>1. /\ ids <= MaxIds /\ store \subseteq Objects /\ Len(art.versions) <= VersionCap
      /\ \A w \in Writers : WriterBound(writer[w])
  BY DEF StoreBounds
<1>2. ids \in Nat /\ Len(art.versions) \in Nat /\ art.item \in Nat /\ art.item <= ids
      /\ (art.item # 0 <=> Len(art.versions) > 0) /\ art.versions \in Seq(VersionRows)
  BY DEF WritersInv, Stands, ArtRows
<1>3. WriterBound(NotWriting)
  BY DEF WriterBound, NotWriting
<1>4. ASSUME NEW w \in Writers, NEW type \in Types, NEW tries \in 0..Retries,
             AttachReads(w, type, tries)
      PROVE  StoreBounds'
  <2> DEFINE it == ItemOrNew
             objs == {<<it, ids + 1, k>> : k \in 1..Count(type)}
             x == [pc |-> "putting", op |-> "attach", type |-> type, tries |-> tries,
                   at |-> instant, item |-> it, base |-> Len(art.versions),
                   left |-> Count(type), objects |-> objs]
  <2>1. /\ writer' = [writer EXCEPT ![w] = x] /\ ids' = ids + 1 /\ ids < MaxIds
        /\ art' = art /\ store' = store /\ MayAttach(type)
    BY <1>4 DEF AttachReads
  <2>2. 1..Count(type) \subseteq {1, 2}
    <3>1. Count(type) \in 0..2
      BY ArtifactAssumption DEF Count
    <3> QED BY <3>1
  <2>3. it \in 1..MaxIds /\ ids + 1 \in 1..MaxIds
    BY <1>2, <2>1, ArtifactAssumption DEF ItemOrNew, Exists
  <2> HIDE DEF it
  <2>4. objs \subseteq Objects
    BY <2>2, <2>3 DEF Objects
  <2>5. Len(art.versions) < VersionCap
    BY <1>2, <2>1, ArtifactAssumption DEF MayAttach, Exists
  <2> HIDE DEF objs
  <2>6. x.objects = objs /\ x.base = Len(art.versions)
    OBVIOUS
  <2> HIDE DEF x
  <2>7. WriterBound(x)
    BY <2>4, <2>5, <2>6 DEF WriterBound
  <2>8. ids' <= MaxIds
    BY <2>3, <2>1
  <2> QED BY <1>1, <2>1, <2>7, <2>8, StoreQuiet
<1>5. ASSUME NEW w \in Writers, NEW type \in Types, NEW tries \in 0..Retries,
             ReaffirmReads(w, type, tries)
      PROVE  StoreBounds'
  <2> DEFINE objs == Current.objects
             x == [pc |-> "putting", op |-> "reaffirm", type |-> type, tries |-> tries,
                   at |-> instant, item |-> art.item, base |-> Len(art.versions),
                   left |-> 0, objects |-> objs]
  <2>1. /\ writer' = [writer EXCEPT ![w] = x] /\ ids' = ids + 1 /\ ids < MaxIds
        /\ art' = art /\ store' = store /\ MayAttach(type) /\ Exists
    BY <1>5 DEF ReaffirmReads
  <2>2. Len(art.versions) \in DOMAIN art.versions /\ Len(art.versions) < VersionCap
    BY <1>2, <2>1 DEF MayAttach, Exists
  <2>3. objs \subseteq store
    <3>1. Current \in VersionRows
      BY <1>2, <2>2 DEF Current
    <3>2. \A o \in objs : o \in store
      BY <2>2 DEF WritersInv, Stands, Current
    <3> QED BY <3>2
  <2> HIDE DEF objs
  <2>4. x.objects = objs /\ x.base = Len(art.versions)
    OBVIOUS
  <2> HIDE DEF x
  <2>5. WriterBound(x)
    BY <1>1, <2>2, <2>3, <2>4 DEF WriterBound
  <2>6. ids' <= MaxIds
    BY <1>2, <2>1, ArtifactAssumption
  <2> QED BY <1>1, <2>1, <2>5, <2>6, StoreQuiet
<1>6. ASSUME NEW w \in Writers, PutObject(w)
      PROVE  StoreBounds'
  <2> DEFINE r == writer[w]
  <2>1. /\ r.pc = "putting" /\ art' = art /\ ids' = ids
        /\ store' = store \cup {o \in r.objects : o[3] = r.left}
        /\ writer' = [writer EXCEPT ![w] = [r EXCEPT !.left = @ - 1]]
    BY <1>6 DEF PutObject, WritersInv
  <2>2. r \in PuttingRows /\ r.objects \subseteq Objects /\ r.base < VersionCap
    BY <1>1, <2>1, WriterPc DEF WritersInv, Uploads, WriterBound
  <2>3. PICK x : x = [r EXCEPT !.left = @ - 1]
    OBVIOUS
  <2>4. x.objects = r.objects /\ x.base = r.base
    BY <2>2, <2>3 DEF PuttingRows
  <2>5. WriterBound(x)
    BY <2>2, <2>4 DEF WriterBound
  <2>6. store' \subseteq Objects /\ writer' = [writer EXCEPT ![w] = x]
    BY <1>1, <2>1, <2>2, <2>3
  <2> QED BY <1>1, <2>1, <2>5, <2>6, StoreQuiet
<1>7. ASSUME NEW w \in Writers, VersionCommits(w)
      PROVE  StoreBounds'
  <2> DEFINE r == writer[w]
             v == [at |-> r.at, objects |-> r.objects]
  <2>1. /\ r.pc = "putting" /\ ~Raced(r) /\ ids' = ids /\ store' = store
        /\ art' = [item |-> r.item, type |-> r.type, versions |-> Append(art.versions, v)]
        /\ writer' = [writer EXCEPT ![w] = NotWriting]
    BY <1>7 DEF VersionCommits, Ready
  <2>2. r \in PuttingRows /\ r.base \in Nat /\ r.base < VersionCap
    BY <1>1, <2>1, WriterPc DEF WritersInv, Uploads, WriterBound, PuttingRows
  <2>3. Len(art.versions) = r.base
    BY <1>2, <2>1, <2>2 DEF Raced, Exists
  <2>4. art'.versions = Append(art.versions, v)
    BY <2>1
  <2> HIDE DEF v
  <2>5. Len(art'.versions) <= VersionCap
    BY <1>2, <2>2, <2>3, <2>4, ArtifactAssumption
  <2> QED BY <1>1, <1>3, <2>1, <2>5, StoreQuiet
<1>8. ASSUME NEW w \in Writers,
             VersionRaces(w) \/ WriterFails(w) \/ DeleteReads(w) \/ PrefixDeleted(w)
      PROVE  StoreBounds'
  <2>1. ids' = ids /\ art' = art /\ store' \subseteq store
    BY <1>8 DEF VersionRaces, WriterFails, DeleteReads, PrefixDeleted, Swept
  <2>2. PICK x : writer' = [writer EXCEPT ![w] = x] /\ x.pc # "putting"
    BY <1>8 DEF VersionRaces, WriterFails, DeleteReads, PrefixDeleted, NotWriting
  <2>3. WriterBound(x)
    BY <2>2 DEF WriterBound
  <2> QED BY <1>1, <2>1, <2>2, <2>3, StoreQuiet
<1>9. ASSUME NEW w \in Writers, DeleteCommits(w)
      PROVE  StoreBounds'
  <2> DEFINE r == writer[w]
  <2>1. /\ r.pc = "delete" /\ ids' = ids /\ store' = store
        /\ art' = art \/ art' = NoArtifact
        /\ writer' = [writer EXCEPT ![w] = [r EXCEPT !.pc = "prefix"]]
    BY <1>9 DEF DeleteCommits, WritersInv
  <2>2. r \in DeleteRows
    BY <2>1, WriterPc DEF WritersInv, Removes
  <2>3. PICK x : x = [r EXCEPT !.pc = "prefix"]
    OBVIOUS
  <2>4. x.pc = "prefix"
    BY <2>2, <2>3 DEF DeleteRows
  <2>5. WriterBound(x)
    BY <2>4 DEF WriterBound
  <2>6. Len(art'.versions) <= VersionCap
    <3>1. NoArtifact.versions = <<>>
      BY DEF NoArtifact
    <3>2. CASE art' = NoArtifact
      BY <3>1, <3>2, ArtifactAssumption
    <3> QED BY <1>1, <2>1, <3>2
  <2>7. writer' = [writer EXCEPT ![w] = x]
    BY <2>1, <2>3
  <2> QED BY <1>1, <2>1, <2>5, <2>6, <2>7, StoreQuiet
<1>10. ASSUME ids' = ids, art' = art, store' = store, writer' = writer
       PROVE  StoreBounds'
  BY <1>1, <1>10 DEF StoreBounds
<1>11. ASSUME NEW m \in Movers,
              \/ \E witness \in {Seen, NoWitness} : MoveAsked(m, witness)
              \/ MoveReadsIssue(m) \/ MoveReadsRequirements(m) \/ MoveReadsDecision(m)
              \/ MoveCommits(m)
       PROVE  StoreBounds'
  BY <1>10, <1>11 DEF MoveAsked, MoveReadsIssue, MoveReadsRequirements, MoveReadsDecision,
                     MoveCommits
<1>12. ASSUME ArtifactsTick \/ GraphEdited
       PROVE  StoreBounds'
  BY <1>10, <1>12 DEF ArtifactsTick, GraphEdited
<1> QED BY <1>4, <1>5, <1>6, <1>7, <1>8, <1>9, <1>11, <1>12 DEF ArtifactsNext

LEMMA VisitBounds_Next ==
  ASSUME ArtifactsInv, VisitBounds, ArtifactsNext
  PROVE  VisitBounds'
<1>1. /\ instant <= MaxInstants /\ removed \in BOOLEAN
      /\ visit.entered <= MaxInstants /\ visit.dec <= MaxDecisions /\ graph.rev <= MaxGraphs
      /\ \A m \in Movers : mover[m].pc = "decided" => mover[m].at <= MaxInstants
  BY DEF VisitBounds
<1>2. /\ instant \in Nat /\ mover = [m \in Movers |-> mover[m]]
      /\ visit \in [st : {"review", "rework"}, entered : Nat, dec : Nat]
      /\ graph \in [rev : Nat, gated : BOOLEAN]
  BY DEF ArtifactsInv, WritersInv, MoversInv
<1>3. ASSUME NEW w \in Writers,
             \/ \E type \in Types, tries \in 0..Retries :
                  AttachReads(w, type, tries) \/ ReaffirmReads(w, type, tries)
             \/ PutObject(w) \/ VersionCommits(w) \/ VersionRaces(w) \/ WriterFails(w)
             \/ DeleteReads(w) \/ DeleteCommits(w) \/ PrefixDeleted(w)
      PROVE  VisitBounds'
  <2>1. instant' = instant /\ visit' = visit /\ graph' = graph /\ mover' = mover
    BY <1>3 DEF AttachReads, ReaffirmReads, PutObject, VersionCommits, VersionRaces, WriterFails,
                DeleteReads, DeleteCommits, PrefixDeleted
  <2>2. removed' \in {removed, TRUE}
    BY <1>3 DEF AttachReads, ReaffirmReads, PutObject, VersionCommits, VersionRaces, WriterFails,
                DeleteReads, DeleteCommits, PrefixDeleted
  <2>3. removed' \in BOOLEAN
    BY <1>1, <2>2
  <2> QED BY <1>1, <2>1, <2>3 DEF VisitBounds
<1>4. ASSUME ArtifactsTick
      PROVE  VisitBounds'
  <2>1. instant' <= MaxInstants
    BY <1>2, <1>4, ArtifactAssumption DEF ArtifactsTick
  <2>2. visit' = visit /\ graph' = graph /\ mover' = mover /\ removed' = removed
    BY <1>4 DEF ArtifactsTick
  <2> QED BY <1>1, <2>1, <2>2 DEF VisitBounds
<1>5. ASSUME GraphEdited
      PROVE  VisitBounds'
  <2>1. graph'.rev <= MaxGraphs
    BY <1>2, <1>5, ArtifactAssumption DEF GraphEdited
  <2>2. visit' = visit /\ instant' = instant /\ mover' = mover /\ removed' = removed
    BY <1>5 DEF GraphEdited
  <2> QED BY <1>1, <2>1, <2>2 DEF VisitBounds
<1>6. ASSUME NEW m \in Movers, NEW x, mover' = [mover EXCEPT ![m] = x],
             x.pc = "decided" => x.at <= MaxInstants
      PROVE  \A n \in Movers : mover'[n].pc = "decided" => mover'[n].at <= MaxInstants
  BY <1>1, <1>2, <1>6
<1>7. ASSUME NEW m \in Movers,
             \/ \E witness \in {Seen, NoWitness} : MoveAsked(m, witness)
             \/ MoveReadsIssue(m) \/ MoveReadsRequirements(m) \/ MoveReadsDecision(m)
      PROVE  VisitBounds'
  <2>1. instant' = instant /\ visit' = visit /\ graph' = graph /\ removed' = removed
    BY <1>7 DEF MoveAsked, MoveReadsIssue, MoveReadsRequirements, MoveReadsDecision
  <2>2. PICK x : /\ mover' = [mover EXCEPT ![m] = x]
                 /\ x.pc = "decided" => x.at = instant
    BY <1>7 DEF MoveAsked, MoveReadsIssue, MoveReadsRequirements, MoveReadsDecision, NotWriting
  <2>3. \A n \in Movers : mover'[n].pc = "decided" => mover'[n].at <= MaxInstants
    BY <1>1, <1>6, <2>2
  <2> QED BY <1>1, <2>1, <2>3 DEF VisitBounds
<1>8. ASSUME NEW m \in Movers, MoveCommits(m)
      PROVE  VisitBounds'
  <2> DEFINE r == mover[m]
  <2>1. /\ r.pc = "decided" /\ instant' = instant /\ graph' = graph
        /\ mover' = [mover EXCEPT ![m] = NotWriting]
        /\ \/ visit' = visit /\ removed' = removed
           \/ /\ visit.dec < MaxDecisions /\ removed' = FALSE
              /\ visit' = [st |-> IF visit.st = "review" THEN "rework" ELSE "review",
                           entered |-> r.at, dec |-> visit.dec + 1]
    BY <1>8 DEF MoveCommits
  <2>2. visit'.entered <= MaxInstants /\ visit'.dec <= MaxDecisions
    BY <1>1, <1>2, <2>1, ArtifactAssumption
  <2>3. removed' \in BOOLEAN
    BY <1>1, <2>1
  <2>4. \A n \in Movers : mover'[n].pc = "decided" => mover'[n].at <= MaxInstants
    BY <1>6, <2>1 DEF NotWriting
  <2> QED BY <1>1, <2>1, <2>2, <2>3, <2>4 DEF VisitBounds
<1> QED BY <1>3, <1>4, <1>5, <1>7, <1>8 DEF ArtifactsNext

-----------------------------------------------------------------------------
(* Artifacts: theorems *)

\* The versions of an artifact point at objects that are in the bucket and are
\* in the order of their instants, for any uploads, races and deletions.
THEOREM VersionsAlwaysStand == ArtifactsSpec => []VersionsStand
<1>1. WritersInv => VersionsStand
  BY DEF WritersInv, Stands, VersionsStand
<1> QED BY <1>1, Writers_Init, Writers_Next, PTL DEF ArtifactsSpec

\* A transition whose caller named the revisions it read is gated on the
\* requirement, for any uploads, moves and edits between check and write.
THEOREM WitnessesGate == ArtifactsSpec => WitnessedMovesAreGated
<1> DEFINE Gated(m) ==
      mover[m].pc = "decided" /\ visit' # visit /\ mover'[m] # mover[m]
        /\ mover[m].witness # NoWitness /\ visit.st = "review" /\ graph.gated =>
          Satisfied \/ removed
<1>1. ASSUME ArtifactsInv, ArtifactsNext, NEW m \in Movers
      PROVE  Gated(m)
  <2> SUFFICES ASSUME mover[m].pc = "decided", visit' # visit, mover'[m] # mover[m],
                      mover[m].witness # NoWitness, visit.st = "review", graph.gated
               PROVE  Satisfied \/ removed
    OBVIOUS
  <2>1. PICK n \in Movers : MoveCommits(n)
    BY <1>1 DEF ArtifactsNext, ArtifactsTick, GraphEdited, AttachReads, ReaffirmReads, PutObject,
         VersionCommits, VersionRaces, WriterFails, DeleteReads, DeleteCommits, PrefixDeleted,
         MoveAsked, MoveReadsIssue, MoveReadsRequirements, MoveReadsDecision
  <2>2. n = m
    BY <1>1, <2>1 DEF MoveCommits, ArtifactsInv, MoversInv
  <2>3. Unmoved(mover[m])
    BY <2>1, <2>2 DEF MoveCommits
  <2>4. MoverOK(mover[m], art, visit, graph, removed)
    BY <1>1 DEF ArtifactsInv, MoversInv
  <2>5. Meets(art, visit) \/ removed
    BY <2>3, <2>4 DEF MoverOK, StillMet, Unmoved
  <2> QED BY <2>5 DEF Meets, Satisfied, Fresh, Exists, Current
<1>2. ArtifactsInv /\ [ArtifactsNext]_artifactVars => [\A m \in Movers : Gated(m)]_artifactVars
  BY <1>1
<1>3. ArtifactsInit => ArtifactsInv
  BY Writers_Init, Movers_Init DEF ArtifactsInv
<1>4. ArtifactsSpec => [][\A m \in Movers : Gated(m)]_artifactVars
  BY <1>2, <1>3, Artifacts_Next, PTL DEF ArtifactsSpec
<1> QED BY <1>4 DEF WitnessedMovesAreGated

\* The record, the bucket and the visit stay within their bounds: versions
\* never exceed the cap, though each upload checks it before its objects are
\* put, and an artifact is there exactly when it has a version.
THEOREM ArtifactsTypeCorrect == ArtifactsSpec => []ArtifactsTypeOK
<1> DEFINE All == ArtifactsInv /\ StoreBounds /\ VisitBounds
<1>1. ArtifactsInit => All
  <2> SUFFICES ASSUME ArtifactsInit PROVE All
    OBVIOUS
  <2>1. ArtifactsInv
    BY Writers_Init, Movers_Init DEF ArtifactsInv
  <2>2. StoreBounds
    <3>1. Len(art.versions) = 0 /\ store = {} /\ ids = 0
      BY DEF ArtifactsInit, NoArtifact
    <3> QED BY <3>1, ArtifactAssumption DEF ArtifactsInit, StoreBounds, WriterBound, NotWriting
  <2>3. VisitBounds
    <3>1. removed \in BOOLEAN
      BY Zenon DEF ArtifactsInit
    <3>2. instant = 0 /\ visit.entered = 0 /\ visit.dec = 0 /\ graph.rev = 0
      BY DEF ArtifactsInit
    <3>3. \A m \in Movers : mover[m].pc # "decided"
      BY DEF ArtifactsInit, NotWriting
    <3> QED BY <3>1, <3>2, <3>3, ArtifactAssumption DEF VisitBounds
  <2> QED BY <2>1, <2>2, <2>3
<1>2. All /\ [ArtifactsNext]_artifactVars => All'
  <2> SUFFICES ASSUME All, [ArtifactsNext]_artifactVars PROVE All'
    OBVIOUS
  <2>1. ArtifactsInv'
    BY Artifacts_Next
  <2>2. CASE ArtifactsNext
    BY <2>1, <2>2, StoreBounds_Next, VisitBounds_Next DEF ArtifactsInv
  <2>3. CASE UNCHANGED artifactVars
    BY <2>1, <2>3 DEF artifactVars, StoreBounds, VisitBounds
  <2> QED BY <2>2, <2>3
<1>3. All => ArtifactsTypeOK
  <2> SUFFICES ASSUME All PROVE ArtifactsTypeOK
    OBVIOUS
  <2>1. Stands(art, store, instant, ids) /\ instant \in Nat /\ ids \in Nat
        /\ instant <= MaxInstants /\ ids <= MaxIds /\ store \subseteq Objects
        /\ Len(art.versions) <= VersionCap /\ removed \in BOOLEAN
    BY DEF ArtifactsInv, WritersInv, StoreBounds, VisitBounds
  <2>2. instant \in 0..MaxInstants /\ ids \in 0..MaxIds
    BY <2>1, ArtifactAssumption
  <2>3. art \in ArtRows /\ art.item \in Nat /\ art.item <= ids /\ art.type \in Types
        /\ art.versions \in Seq(VersionRows) /\ (art.item # 0 <=> Len(art.versions) > 0)
    BY <2>1 DEF Stands, ArtRows
  <2>4. art.item \in 0..MaxIds
    BY <2>1, <2>3, ArtifactAssumption
  <2>5. ASSUME NEW k \in 1..Len(art.versions)
        PROVE  art.versions[k] \in Versions
    <3>1. art.versions[k] \in VersionRows /\ k \in DOMAIN art.versions
      BY <2>3
    <3>2. art.versions[k].at <= instant /\ \A o \in art.versions[k].objects : o \in store
      BY <2>1, <3>1 DEF Stands
    <3>3. art.versions[k].at \in 0..MaxInstants
      BY <2>1, <3>1, <3>2, ArtifactAssumption DEF VersionRows
    <3>4. art.versions[k].objects \subseteq Objects
      BY <2>1, <3>2
    <3>5. art.versions[k] = [at |-> art.versions[k].at, objects |-> art.versions[k].objects]
      BY <3>1 DEF VersionRows
    <3> QED BY <3>3, <3>4, <3>5 DEF Versions
  <2>6. art.versions \in Seq(Versions)
    <3>1. PICK s : s = art.versions
      OBVIOUS
    <3>2. Len(s) \in Nat /\ s = [k \in 1..Len(s) |-> s[k]] /\ \A k \in 1..Len(s) : s[k] \in Versions
      BY <2>3, <2>5, <3>1
    <3>3. s \in [1..Len(s) -> Versions]
      BY <3>2
    <3>4. s \in Seq(Versions)
      BY <3>2, <3>3, SeqDef
    <3> QED BY <3>1, <3>4
  <2>7. art.versions # <<>> <=> Len(art.versions) > 0
    BY <2>3, EmptySeq
  <2>8. /\ visit \in [st : {"review", "rework"}, entered : Nat, dec : Nat]
        /\ graph \in [rev : Nat, gated : BOOLEAN]
        /\ visit.entered <= MaxInstants /\ visit.dec <= MaxDecisions /\ graph.rev <= MaxGraphs
    BY DEF ArtifactsInv, MoversInv, VisitBounds
  <2>9. visit \in [st : {"review", "rework"}, entered : 0..MaxInstants, dec : 0..MaxDecisions]
    BY <2>8, ArtifactAssumption
  <2>10. graph \in [rev : 0..MaxGraphs, gated : BOOLEAN]
    BY <2>8, ArtifactAssumption
  <2> QED BY <2>1, <2>2, <2>3, <2>4, <2>6, <2>7, <2>9, <2>10 DEF ArtifactsTypeOK, Exists
<1> HIDE DEF All
<1> QED BY <1>1, <1>2, <1>3, PTL DEF ArtifactsSpec
=============================================================================
