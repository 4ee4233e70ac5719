-------------------------- MODULE MCRunLifecycle --------------------------
(***************************************************************************)
(* Values of the constants of RunLifecycle for TLC: a workflow             *)
(* todo -> doing -> done, every runner a target of every issue, and        *)
(* uniform caps.                                                           *)
(***************************************************************************)
EXTENDS RunLifecycle, TLC

CONSTANTS i1, i2, r1, r2, r3, x1, x2

MCStates == {"todo", "doing", "done"}
MCActive == {"todo", "doing"}
MCEdges == {<<"todo", "doing">>, <<"doing", "done">>}
\* One active state and one that is not: for runs about other races.
TwoStates == {"todo", "done"}
OneActive == {"todo"}
TwoEdges == {<<"todo", "done">>, <<"done", "todo">>}
OneEdge == {<<"todo", "done">>}
AllTargets == [i \in Issues |-> Runners]
OneEach == [x \in Runners |-> 1]
RosterOne == [s \in States |-> 1]
\* Two slots for todo, so that the quota is not what keeps two runs off one issue.
RosterTodo == [s \in States |-> IF s = "todo" THEN 2 ELSE 1]
\* Interchangeable rows and processes (no liveness is checked with it).
Symmetric == Permutations(Runs) \cup Permutations(Issues) \cup Permutations(Passes)
               \cup Permutations(Polls) \cup Permutations(Enders)
\* Two polls overlap, or a daemon crashes, over one run; a second run comes where
\* neither happens.
TwoPollsOrRuns ==
  (\E r \in Runs : issueOf[r] = None) \/ (crashes = 0 /\ \A q \in Polls : ~poll[q].cut)
=============================================================================
