------------------------------ MODULE MCRunner ------------------------------
(* One runner: the policy its daemons poll for, the holds on it, and the   *)
(* sessions it keeps for a resume.  Each has state of its own, so each is  *)
(* explored by itself.                                                     *)
EXTENDS RunnerPolicy, RunnerHolds, SessionHandover, TLC

VARIABLE family

MCPolicies == {[mode |-> "remote", ceiling |-> 2], [mode |-> "local", ceiling |-> 1],
               [mode |-> "legacy", ceiling |-> 2]}

(* Run 1 ended and its session is kept, as Retains leaves it. *)
KeptInit ==
    /\ run = [r \in RunIds |-> IF r = 1 THEN [st |-> "ended", handle |-> 1, collected |-> FALSE] ELSE NewRun]
    /\ resource = [r \in RunIds |-> IF r = 1 THEN [NoRow EXCEPT !.st = "available", !.handle = 1] ELSE NoRow]
    /\ session = [h \in Handles |-> IF h = 1 THEN [st |-> "live", tag |-> 1, speaker |-> 1] ELSE NoSession]
    /\ vault = [h \in Handles |-> IF h = 1 THEN [st |-> "there", key |-> 1] ELSE NoVault]
    /\ launch = [r \in RunIds |-> Free] /\ ender = [r \in RunIds |-> Free]
    /\ sweep = [w \in Sweeps |-> Free]

(* Two polls at a time when the token stays, one when it is rotated. *)
MCInit ==
    /\ PolicyInit /\ handler[1] = Idle /\ (row.token = MaxTokens <=> handler[2] = Idle)
    /\ HoldsInit
    /\ KeptInit
    /\ family \in {"policy", "holds", "chain", "sweep"}
    /\ family # "policy" => row.token = MaxTokens /\ row.max = MaxCap

(* Hand-overs one after another without a sweep, and one hand-over with it. *)
MCNext ==
    \/ family = "policy" /\ PolicyNext /\ UNCHANGED <<holdVars, handoverVars, family>>
    \/ family = "holds" /\ HoldsNext /\ UNCHANGED <<policyVars, handoverVars, family>>
    \/ /\ family \in {"chain", "sweep"} /\ HandoverNext
       /\ family = "chain" => UNCHANGED sweep
       /\ family = "sweep" => run'[MaxRuns] = NewRun
       /\ UNCHANGED <<policyVars, holdVars, family>>

MCSpec == MCInit /\ [][MCNext]_<<policyVars, holdVars, handoverVars, family>>

Symmetric == Permutations(Lives) \cup Permutations(Notes)

(* All parts are well typed. *)
TypesOK == PolicyTypeOK /\ HoldsTypeOK /\ HandoverTypeOK
=============================================================================
