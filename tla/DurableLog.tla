------------------------------ MODULE DurableLog ------------------------------
(***************************************************************************)
(* What the order manager takes for granted of its journal: a process that *)
(* could open it knows every record the log holds, an append that fails    *)
(* may or may not have kept its record but always closes the journal, and  *)
(* nothing that is kept is lost, in a write cut short, a crash or a        *)
(* recovery.  A recovery that stops midway is the exception: it may lose   *)
(* records to every later process, but has set all of them aside before.   *)
(***************************************************************************)
CONSTANTS
    Records,
    RecoveryMayStop     \* can a recovery stop midway?

VARIABLES
    kept,       \* the records a process started next would read back
    aside,      \* the records that recoveries which stopped had set aside
    known,      \* the records the running process read back or appended
    mode        \* "degraded": recovered from a torn write, not yet acknowledged;
                \* "latched": unavailable for the life of the process

logVars == <<kept, aside, known, mode>>

Modes == {"open", "degraded", "latched", "down"}

Init ==
    /\ kept = {} /\ aside = {} /\ known = {}
    /\ mode = "open"

\* The record that is being written may be kept.
MayKeep == kept' = kept \/ \E r \in Records : kept' = kept \cup {r}

\* An append returns TRUE; an acknowledgement also ends the degraded mode.
AppendKept(r) ==
    /\ mode \in {"open", "degraded"}
    /\ kept' = kept \cup {r} /\ known' = known \cup {r}
    /\ mode' \in {mode, "open"}
    /\ UNCHANGED aside

AppendFailed ==
    /\ mode \in {"open", "degraded"}
    /\ MayKeep
    /\ mode' = "latched"
    /\ UNCHANGED <<aside, known>>

Crash ==
    /\ mode # "down"
    /\ kept' = kept \/ (mode # "latched" /\ MayKeep)
    /\ known' = {}
    /\ mode' = "down"
    /\ UNCHANGED aside

Start ==
    /\ mode = "down"
    /\ known' = kept
    /\ mode' \in {"open", "degraded"}
    /\ UNCHANGED <<kept, aside>>

\* The start fails for good, or goes on without a log it can append to, which it
\* may not even have read.
FailedStart ==
    /\ mode = "down"
    /\ \/ mode' = "down" /\ known' = {}
       \/ mode' = "latched" /\ known' \in {{}, kept'}

StartFails ==
    /\ FailedStart
    /\ UNCHANGED <<kept, aside>>

\* A start fails while it recovers the log.
RecoveryStops ==
    /\ RecoveryMayStop
    /\ FailedStart
    /\ kept' \in SUBSET kept
    /\ aside' = aside \cup kept

Next ==
    \/ \E r \in Records : AppendKept(r)
    \/ AppendFailed \/ Crash \/ Start \/ StartFails \/ RecoveryStops

Spec == Init /\ [][Next]_logVars

\* A process that can append knows what is kept, no more and no less.
KnowsWhatIsKept == mode \in {"open", "degraded"} => known = kept

NothingKeptIsLost == [][kept \subseteq kept']_logVars

\* Lost to a replay, perhaps; destroyed, never.
NothingIsDestroyed == [][kept \cup aside \subseteq kept' \cup aside']_logVars
=============================================================================
