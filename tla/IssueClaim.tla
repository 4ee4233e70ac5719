---------------------------- MODULE IssueClaim ----------------------------
(***************************************************************************)
(* What dispatch promises the rest of the system about an issue: at any    *)
(* moment at most one run holds it, and a run that let go is spent for     *)
(* ever.  Passes, polls, daemons, sweeps and people are all hidden.        *)
(***************************************************************************)
CONSTANTS Issues, Runs, None

VARIABLES
  holder, \* holder[i]: the run whose exclusive claim i is under, or None
  spent   \* runs that held an issue once

Init == holder = [i \in Issues |-> None] /\ spent = {}

Acquire(i, r) ==
  /\ holder[i] = None
  /\ r \notin spent /\ \A j \in Issues : holder[j] # r
  /\ holder' = [holder EXCEPT ![i] = r]
  /\ UNCHANGED spent

Release(i) ==
  /\ holder[i] # None
  /\ holder' = [holder EXCEPT ![i] = None]
  /\ spent' = spent \cup {holder[i]}

Next == \E i \in Issues : Release(i) \/ \E r \in Runs : Acquire(i, r)

Spec == Init /\ [][Next]_<<holder, spent>>
=============================================================================
