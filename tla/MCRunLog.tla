------------------------------ MODULE MCRunLog ------------------------------
(***************************************************************************)
(* One log whose daemon loses requests and has room for all its output;    *)
(* and, apart, one whose daemon loses none and trims a full queue, also    *)
(* while its head is on the way.                                           *)
(***************************************************************************)
EXTENDS RunLog

VARIABLE family

Trims == INSTANCE RunLog WITH MaxPending <- 1, Events <- {"evict"}

MCInit == Init /\ family \in {"cuts", "trims"}

MCNext ==
  /\ \/ family = "cuts" /\ Next
     \/ family = "trims" /\ Trims!Next
  /\ UNCHANGED family

MCSpec == MCInit /\ [][MCNext]_<<vars, family>> /\ KeepersRun
=============================================================================
