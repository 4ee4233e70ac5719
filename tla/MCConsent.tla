----------------------------- MODULE MCConsent -----------------------------
(* Two families of behaviours, to keep the product small: one request at a *)
(* time beside the single-step operations, from an unshared project whose  *)
(* schedule is yet to be made; and two overlapping requests in a shared    *)
(* project with its member and without a schedule.                         *)
EXTENDS Consent

CONSTANT First

OneRequest ==
    /\ ~shared /\ schedule.st = "none"
    /\ handler = [h \in Handlers |-> IF h = First THEN Idle ELSE Absent]
TwoRequests ==
    /\ shared /\ member.rev = MaxMember /\ schedule.st = "gone"
    /\ handler = [h \in Handlers |-> Idle]

MCInit == Init /\ (OneRequest \/ TwoRequests)
MCSpec == MCInit /\ [][Next]_vars
=============================================================================
