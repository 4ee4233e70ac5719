----------------------------- MODULE RunnerHolds -----------------------------
(***************************************************************************)
(* How long a runner is held back: the backoff after failed launches and   *)
(* interruptions and the hold after a usage limit (engine.ts: failLaunch,  *)
(* noteInterruption, noteRateLimit and the launch that clears them;        *)
(* logic.ts: launchBackoffMs, rateLimitHoldUntil, targetVerdict).          *)
(*                                                                         *)
(* All of them write backoff_until, each from the instant at which its     *)
(* handler began and from a row read earlier.  A handler that began more   *)
(* than MaxAge ago writes nothing any more.  0 stands for a null hold.     *)
(***************************************************************************)
EXTENDS Naturals, FiniteSetsExt

CONSTANTS Notes,        \* ends of runs being noted on the runner
          Passes,       \* dispatch passes and sweeps that launch
          Base, MaxBackoff,                     \* launchBackoffMs
          DefaultHold, Grace, LongestHold,      \* rateLimitHoldUntil
          MaxAge, MaxInstant, MaxFailures

ASSUME HoldAssumption ==
    /\ Base \in Nat \ {0} /\ MaxBackoff \in Nat /\ Base <= MaxBackoff
    /\ DefaultHold \in Nat /\ Grace \in Nat /\ LongestHold \in Nat
    /\ MaxBackoff <= LongestHold /\ DefaultHold <= LongestHold
    /\ MaxAge \in Nat /\ MaxInstant \in Nat /\ MaxFailures \in Nat

(* A handler is done before the shortest hold that it may write runs out:  *)
(* the code's are a minute.                                                *)
ASSUME AgeAssumption == MaxAge <= Base /\ MaxAge <= DefaultHold /\ MaxAge <= Grace

(* Arithmetic that the provers do not know.                                *)
ASSUME PowerAssumption == \A k \in 0..MaxFailures : 2 ^ k \in Nat \ {0}

VARIABLES
    hclock,
    hold,       \* the runner's until, reason and failures
    note,       \* per end being noted: its instant and what it read
    pass,       \* per pass: its instant and its copy of the runner
    counted     \* history: instants of interruptions counted since a launch

holdVars == <<hclock, hold, note, pass, counted>>

Unheld == [until |-> 0, reason |-> "none", failures |-> 0]
Resting == [pc |-> "idle"]

HoldsInit ==
    /\ hclock = 1 /\ hold = Unheld /\ counted = {}
    /\ note = [n \in Notes |-> Resting]
    /\ pass = [p \in Passes |-> Resting]

LaunchBackoff(failures) ==
    IF failures = 0 THEN 0 ELSE Min({Base * 2 ^ (failures - 1), MaxBackoff})

(* A reported reset that has passed, or none (0), counts as unknown. *)
HoldUntil(resumeAt, now) ==
    IF resumeAt <= now THEN now + DefaultHold
    ELSE Min({resumeAt + Grace, now + LongestHold})

Alive(h) == h.pc # "idle" => hclock < h.now + MaxAge

(* Time passes only as far as no handler in flight outlives MaxAge. *)
HoldTick ==
    /\ hclock < MaxInstant
    /\ \A n \in Notes : Alive(note[n])
    /\ \A p \in Passes : Alive(pass[p])
    /\ hclock' = hclock + 1
    /\ UNCHANGED <<hold, note, pass, counted>>

-----------------------------------------------------------------------------
(* The end of a run is noted on its runner *)

NoteBegins(n, kind, resumeAt) ==
    /\ note[n].pc = "idle"
    /\ note' = [note EXCEPT ![n] = [pc |-> "begun", kind |-> kind, now |-> hclock,
                                    until |-> HoldUntil(resumeAt, hclock)]]
    /\ UNCHANGED <<hclock, hold, pass, counted>>

InWindow(now) == hold.until >= now

AlreadyHeld(until) == hold.reason = "rate_limit" /\ hold.until >= until

NoteRead(n) ==
    LET c == note[n] IN
    /\ c.pc = "begun"
    /\ note' = [note EXCEPT ![n] =
         IF IF c.kind = "interruption" THEN InWindow(c.now) ELSE AlreadyHeld(c.until)
         THEN Resting
         ELSE [pc |-> "read", kind |-> c.kind, now |-> c.now, until |-> c.until,
               failures |-> hold.failures]]
    /\ UNCHANGED <<hclock, hold, pass, counted>>

MayCount_AsRead(now) == TRUE

(* The guard of the write: the window is the incident. *)
MayCount(now) == ~InWindow(now)

NoteInterruption(n) ==
    LET c == note[n] IN
    /\ c.pc = "read" /\ c.kind = "interruption"
    /\ IF MayCount(c.now)
       THEN /\ hold.failures < MaxFailures
            /\ hold' = [until |-> c.now + LaunchBackoff(c.failures + 1), reason |-> "none",
                        failures |-> hold.failures + 1]
            /\ counted' = counted \cup {c.now}
       ELSE UNCHANGED <<hold, counted>>
    /\ note' = [note EXCEPT ![n] = Resting]
    /\ UNCHANGED <<hclock, pass>>

NoteRateLimit(n) ==
    LET c == note[n] IN
    /\ c.pc = "read" /\ c.kind = "limit"
    /\ hold' = IF AlreadyHeld(c.until) THEN hold
               ELSE [hold EXCEPT !.until = c.until, !.reason = "rate_limit"]
    /\ note' = [note EXCEPT ![n] = Resting]
    /\ UNCHANGED <<hclock, pass, counted>>

NoteEvicted(n) ==
    /\ note[n].pc # "idle"
    /\ note' = [note EXCEPT ![n] = Resting]
    /\ UNCHANGED <<hclock, hold, pass, counted>>

-----------------------------------------------------------------------------
(* Launches *)

(* runDispatchPass, or a sweep that found a stalled launch, reads the row. *)
PassReads(p) ==
    /\ pass[p].pc = "idle"
    /\ pass' = [pass EXCEPT ![p] = [pc |-> "read", now |-> hclock, until |-> hold.until,
                                    failures |-> hold.failures]]
    /\ UNCHANGED <<hclock, hold, note, counted>>

(* targetVerdict, on the copy of the pass *)
Assignable(c) == c.until <= c.now

LaunchSucceeds(p) ==
    /\ pass[p].pc = "read" /\ Assignable(pass[p])
    /\ hold' = Unheld /\ counted' = {}
    /\ UNCHANGED <<hclock, note, pass>>

Failed(c) ==
    [hold EXCEPT !.failures = @ + 1, !.reason = "none",
                 !.until = c.now + LaunchBackoff(c.failures + 1)]

LaunchFails(p) ==
    LET c == pass[p] IN
    /\ c.pc = "read" /\ Assignable(c)
    /\ hold.failures < MaxFailures /\ c.failures < MaxFailures
    /\ hold' = Failed(c)
    /\ pass' = [pass EXCEPT ![p].failures = @ + 1,
                            ![p].until = c.now + LaunchBackoff(c.failures + 1)]
    /\ UNCHANGED <<hclock, note, counted>>

(* The sweep fails a launch it listed as stalled, whatever the hold. *)
StalledLaunchFails(p) ==
    /\ pass[p].pc = "read" /\ hold.failures < MaxFailures
    /\ hold' = Failed(pass[p])
    /\ pass' = [pass EXCEPT ![p] = Resting]
    /\ UNCHANGED <<hclock, note, counted>>

PassEnds(p) ==
    /\ pass[p].pc = "read"
    /\ pass' = [pass EXCEPT ![p] = Resting]
    /\ UNCHANGED <<hclock, hold, note, counted>>

-----------------------------------------------------------------------------
HoldsNext ==
    \/ HoldTick
    \/ \E n \in Notes :
         \/ \E kind \in {"interruption", "limit"}, at \in 0..MaxInstant :
              (kind = "interruption" => at = 0) /\ NoteBegins(n, kind, at)
         \/ NoteRead(n) \/ NoteInterruption(n) \/ NoteRateLimit(n) \/ NoteEvicted(n)
    \/ \E p \in Passes :
         \/ PassReads(p) \/ LaunchSucceeds(p) \/ LaunchFails(p)
         \/ StalledLaunchFails(p) \/ PassEnds(p)

HoldsSpec == HoldsInit /\ [][HoldsNext]_holdVars

-----------------------------------------------------------------------------
(* Properties *)

(* No hold outlasts the daily probe, whatever reset a provider reports and *)
(* however holds replace each other.                                       *)
HoldsTypeOK ==
    /\ hold.reason \in {"none", "rate_limit"} /\ hold.failures \in 0..MaxFailures
    /\ hold.until \in Nat /\ hold.until <= hclock + LongestHold

(* "Counted once per incident, not per run": the ends of one burst, which  *)
(* carry one instant, add one failure, though each is noted by a handler   *)
(* of its own that read the row before another wrote it, and though        *)
(* launches fail and usage limits are reported in between.                 *)
OneCountPerIncident ==
    [][\A n \in Notes :
         note[n].pc = "read" /\ note[n].kind = "interruption" /\ note'[n] # note[n]
           /\ hold'.failures > hold.failures => note[n].now \notin counted]_holdVars
=============================================================================
