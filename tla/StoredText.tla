----------------------------- MODULE StoredText -----------------------------
(***************************************************************************)
(* What the log of a run promises whoever reads it: what has left the row  *)
(* for the bucket is there for good, the tail kept in the row goes on      *)
(* where it ends, and once the run is over nothing changes.  Retries,      *)
(* handlers that outlive their request, spills, compaction, sealing and    *)
(* killed keepers are all hidden.                                          *)
(*                                                                         *)
(* Of the tail less is promised: the row is written whole by whoever read  *)
(* it when as much was stored, so a late handler may put back an older     *)
(* tail, or one that lacks a chunk.  It never changes the chunk the tail   *)
(* begins with, which is the next to be stored.                            *)
(***************************************************************************)
EXTENDS Naturals, Sequences

CONSTANT Chunks

VARIABLES stored, \* the chunks that are in the bucket
          tail,   \* the text that goes on in the row
          open    \* the run is active

Rising(s) == \A m, n \in 1..Len(s) : m < n => s[m] < s[n]

Init == stored = {} /\ tail = <<>> /\ open = TRUE

Keep == /\ tail # <<>> => tail'[1] = tail[1]
        /\ UNCHANGED stored

Spill == tail # <<>> /\ stored' = stored \cup {tail[1]}

Write ==
  /\ open /\ UNCHANGED open
  /\ tail' \in Seq(1..Chunks) \ {<<>>} /\ Rising(tail')
  /\ Keep \/ Spill
  /\ \A c \in stored' : c < tail'[1]

Close == open /\ open' = FALSE /\ UNCHANGED <<stored, tail>>

Next == Write \/ Close

Spec == Init /\ [][Next]_<<stored, tail, open>>
=============================================================================
