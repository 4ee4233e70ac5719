------------------------- MODULE PersonalPermission -------------------------
(***************************************************************************)
(* What personal permission promises, with no revision, epoch, witness or  *)
(* token: one issue, one schedule that may file it, the owner's agents and *)
(* one member.  Every operation is one step on what each person has said.  *)
(* Consent.tla is shown to implement it.                                   *)
(***************************************************************************)
CONSTANTS Owner, Member

VARIABLES
    shared,     \* sharing has begun
    joined,     \* the member belongs to the project
    place,      \* "none" before the issue is filed, then its state's category
    perm,       \* what each person says of the issue: "on", "off" or "unset"
    inherited,  \* that is a schedule's "on", not the person's own word
    future,     \* what each person says of the schedule's future issues
    work        \* "none", "assigned" or "launched": the owner's agent

vars == <<shared, joined, place, perm, inherited, future, work>>

People == {Owner, Member}
Values == {"on", "off", "unset"}
Unset == [u \in People |-> "unset"]
NotInherited == [u \in People |-> FALSE]
Belongs(u) == u = Owner \/ joined

Init ==
    /\ shared \in BOOLEAN /\ joined \in BOOLEAN /\ (joined => shared)
    /\ place = "none"
    /\ perm = Unset /\ inherited = NotInherited /\ future = Unset
    /\ work = "none"

(* The owner's agents are admitted unless the owner says off. *)
Admitted == place = "active" /\ (shared => perm[Owner] # "off")

Release == work' = IF work = "assigned" THEN "none" ELSE work

-----------------------------------------------------------------------------
Share ==
    /\ ~shared /\ shared' = TRUE
    /\ perm' = Unset /\ inherited' = NotInherited /\ future' = Unset
    /\ Release
    /\ UNCHANGED <<joined, place>>

Join ==
    /\ shared /\ ~joined /\ joined' = TRUE
    /\ UNCHANGED <<shared, place, perm, inherited, future, work>>

(* Nothing a member said outlives the membership. *)
Leave ==
    /\ joined /\ joined' = FALSE
    /\ perm' = [perm EXCEPT ![Member] = "unset"]
    /\ inherited' = [inherited EXCEPT ![Member] = FALSE]
    /\ future' = [future EXCEPT ![Member] = "unset"]
    /\ UNCHANGED <<shared, place, work>>

File(first) ==
    /\ place = "none" /\ place' \in {"active", "backlog"}
    /\ shared \/ first = Unset
    /\ \A u \in People : Belongs(u) \/ first[u] = "unset"
    /\ perm' = first
    /\ UNCHANGED <<shared, joined, inherited, future, work>>

(* The schedule files the issue: it hands on every "on" and the owner's    *)
(* "off".                                                                  *)
FileScheduled ==
    /\ place = "none" /\ place' \in {"active", "backlog"}
    /\ perm' = [u \in People |-> IF future[u] = "on" \/ u = Owner THEN future[u] ELSE "unset"]
    /\ inherited' = [u \in People |-> future[u] = "on"]
    /\ UNCHANGED <<shared, joined, future, work>>

Choose(u, v) ==
    /\ shared /\ Belongs(u) /\ place \in {"active", "backlog"}
    /\ perm' = [perm EXCEPT ![u] = v]
    /\ inherited' = [inherited EXCEPT ![u] = FALSE]
    /\ IF u = Owner THEN Release ELSE UNCHANGED work
    /\ UNCHANGED <<shared, joined, place, future>>

(* Entering or leaving done, everybody starts over. *)
Resets == place = "done" \/ place' = "done"

(* A decision on a shared issue: the person may say on or off with it.     *)
Decide(u, v) ==
    /\ shared /\ Belongs(u) /\ place # "none"
    /\ place' \in {"active", "backlog", "done"}
    /\ Release
    /\ IF Resets
       THEN perm' = Unset /\ inherited' = NotInherited
       ELSE \/ UNCHANGED <<perm, inherited>>
            \/ /\ place' = "active"
               /\ perm' = [perm EXCEPT ![u] = v]
               /\ inherited' = [inherited EXCEPT ![u] = FALSE]
    /\ UNCHANGED <<shared, joined, future>>

(* The owner moves the issue to another workflow: a fresh start too. *)
Rewire ==
    /\ shared /\ place # "none" /\ place' \in {"active", "backlog", "done"}
    /\ perm' = Unset /\ inherited' = NotInherited /\ Release
    /\ UNCHANGED <<shared, joined, future>>

(* Members start over at off, the owner keeps the word given. *)
Redefined == [u \in People |-> IF u = Owner \/ future[u] = "unset" THEN future[u] ELSE "off"]

(* A move prepared before sharing began, and a workflow edit that makes    *)
(* the issue's state done or not done, the schedule's start with it.       *)
Move ==
    /\ place # "none" /\ place' \in {"active", "backlog", "done"}
    /\ IF shared /\ Resets
       THEN perm' = Unset /\ inherited' = NotInherited /\ Release
            /\ future' \in {future, Redefined}
       ELSE UNCHANGED <<perm, inherited, future, work>>
    /\ UNCHANGED <<shared, joined>>

(* Saying off of the future takes back what the schedule handed on.        *)
ChooseFuture(u, v) ==
    /\ shared /\ Belongs(u)
    /\ future' = [future EXCEPT ![u] = v]
    /\ IF v = "off" /\ inherited[u]
       THEN /\ perm' = [perm EXCEPT ![u] = IF u = Owner THEN "off" ELSE "unset"]
            /\ inherited' = [inherited EXCEPT ![u] = FALSE]
            /\ IF u = Owner THEN Release ELSE UNCHANGED work
       ELSE /\ UNCHANGED <<perm, inherited>>
            /\ (v = "off" /\ u = Owner /\ Release) \/ UNCHANGED work
    /\ UNCHANGED <<shared, joined, place>>

(* A schedule comes with its author's word; a member's does not run on the *)
(* owner's agents.                                                         *)
NewSchedule(u, v) ==
    /\ shared /\ Belongs(u) /\ future = Unset
    /\ future' = [w \in People |-> IF w = u THEN v
                                  ELSE IF w = Owner THEN "off" ELSE future[w]]
    /\ UNCHANGED <<shared, joined, place, perm, inherited, work>>

TakeBack ==
    /\ perm' = [u \in People |-> IF inherited[u] THEN "unset" ELSE perm[u]]
    /\ inherited' = NotInherited
    /\ Release \/ (~inherited[Owner] /\ UNCHANGED work)

(* The schedule means something else now. *)
Redefine ==
    /\ future' = Redefined
    /\ TakeBack
    /\ UNCHANGED <<shared, joined, place>>

DropSchedule ==
    /\ future' = Unset
    /\ TakeBack
    /\ UNCHANGED <<shared, joined, place>>

-----------------------------------------------------------------------------
Assign == /\ work = "none" /\ Admitted /\ work' = "assigned"
          /\ UNCHANGED <<shared, joined, place, perm, inherited, future>>

Launch == /\ work = "assigned" /\ (shared => Admitted) /\ work' = "launched"
          /\ UNCHANGED <<shared, joined, place, perm, inherited, future>>

End == /\ work # "none" /\ work' = "none"
       /\ UNCHANGED <<shared, joined, place, perm, inherited, future>>

Next ==
    \/ Share \/ Join \/ Leave
    \/ \E first \in [People -> Values] : File(first)
    \/ FileScheduled
    \/ \E u \in People, v \in Values : NewSchedule(u, v)
    \/ \E u \in People, v \in {"on", "off"} : Choose(u, v) \/ Decide(u, v) \/ ChooseFuture(u, v)
    \/ Rewire \/ Move \/ Redefine \/ DropSchedule
    \/ Assign \/ Launch \/ End

Spec == Init /\ [][Next]_vars
=============================================================================
