----------------------------- MODULE JournalFile -----------------------------
(***************************************************************************)
(* The file of execution/journal.py: DecisionJournal.append and what the   *)
(* next process makes of it (_recover_valid_prefix, _resume_chain_from_    *)
(* tail, and the replay through read_all that seeds the OrderManager).     *)
(* OrderSpine uses the journal through what it remembers; this module is   *)
(* about when it does.                                                     *)
(***************************************************************************)
EXTENDS Integers, SequencesExt

CONSTANTS
    MaxRecords,     \* bound: records ever handed to append
    WritesResume,   \* may the file become writable again under a process whose
                    \* journal is unavailable (space is freed, a mount returns)?
    QuarantineMayStop   \* may a crash or an error stop a quarantine between the
                        \* os.replace and the end of the rewrite?

ASSUME JournalAssumption ==
    MaxRecords \in Nat /\ WritesResume \in BOOLEAN /\ QuarantineMayStop \in BOOLEAN

\* Records are numbered in the order append is called; a line that json.loads
\* refuses is Malformed.
Malformed == 0
Records == 1 .. MaxRecords

VARIABLES
    lines,      \* the newline-terminated lines of the file
    frag,       \* the bytes after the last newline: a sequence of at most one
                \* element, a record that only lacks its newline or Malformed
    abandoned,  \* records of the quarantined originals whose rewrite did not end:
                \* no program reads such a file again
    next,       \* number of the next record
    returned,   \* records for which append returned TRUE
    up,         \* a process has the journal open
    memory,     \* records the running process replayed or appended
    available,  \* DecisionJournal.available
    degraded    \* DecisionJournal.recovery_degraded

fileVars == <<lines, frag>>
vars == <<lines, frag, abandoned, next, returned, up, memory, available, degraded>>

JournalTypeOK ==
    /\ lines \in Seq(Records \cup {Malformed})
    /\ frag \in Seq(Records \cup {Malformed}) /\ Len(frag) <= 1
    /\ next \in 1 .. MaxRecords + 1
    /\ abandoned \subseteq 1 .. next - 1
    /\ returned \subseteq 1 .. next - 1
    /\ memory \subseteq 1 .. next - 1
    /\ up \in BOOLEAN /\ available \in BOOLEAN /\ degraded \in BOOLEAN

Init ==
    /\ lines = <<>> /\ frag = <<>> /\ abandoned = {}
    /\ next = 1 /\ returned = {} /\ memory = {}
    /\ up = TRUE /\ available = TRUE /\ degraded = FALSE

-------------------------------------------------------------------------------
(* append: one write, flush and fsync of a whole line. *)

\* append is called; it does not look at available.
BeginAppend ==
    /\ up
    /\ next <= MaxRecords
    /\ next' = next + 1

\* The file takes the bytes.
Writable == available \/ WritesResume

\* A record written behind a fragment shares its line, which is then malformed.
Written(n) == Append(lines, IF frag = <<>> THEN n ELSE Malformed)

\* What a write cut short leaves after the last newline.
Fragments == {<<Malformed>>} \cup (IF frag = <<>> THEN {<<next>>} ELSE {})

\* The append stops somewhere in its write, or after it.
CutShort ==
    /\ Writable
    /\ \/ lines' = Written(next) /\ frag' = <<>>
       \/ frag' \in Fragments /\ UNCHANGED lines

\* The record is written and fsynced: append returns TRUE.
AppendReturnsTrue ==
    /\ BeginAppend /\ Writable
    /\ lines' = Written(next) /\ frag' = <<>>
    /\ returned' = returned \cup {next}
    /\ memory' = memory \cup {next}
    /\ UNCHANGED <<abandoned, up, available>>

AppendSucceeds == AppendReturnsTrue /\ UNCHANGED degraded

\* A failed append that does not latch the journal.
AppendFails_NotLatched ==
    /\ BeginAppend
    /\ UNCHANGED fileVars \/ CutShort
    /\ UNCHANGED <<abandoned, available, returned, up, memory, degraded>>

\* OSError from open, write, flush or fsync: append returns FALSE, and the
\* journal is latched unavailable for the life of the process.
AppendFails ==
    /\ BeginAppend
    /\ UNCHANGED fileVars \/ CutShort
    /\ available' = FALSE
    /\ UNCHANGED <<abandoned, returned, up, memory, degraded>>

\* acknowledge_recovery, when its own append succeeds.
AcknowledgeRecovery ==
    /\ degraded
    /\ AppendReturnsTrue
    /\ degraded' = FALSE

\* The process dies, between two appends or inside one.
Dies ==
    /\ up
    /\ up' = FALSE
    /\ UNCHANGED <<fileVars, next>> \/ (BeginAppend /\ CutShort)
    /\ UNCHANGED <<abandoned, returned, memory, available, degraded>>

-------------------------------------------------------------------------------
(* A new process: DecisionJournal.__init__ and the replay. *)

\* A recovery that drops an unterminated line, complete or not.
AllLines_Terminated == lines

\* The lines of the file once a missing final newline is supplied.
AllLines == lines \o frag

TornTail == AllLines # <<>> /\ Last(AllLines) = Malformed

\* _recover_valid_prefix, when it comes to its end: only the final line is
\* validated; the file is moved away for a malformed one and the lines before it
\* are written anew.
Recovered == IF TornTail THEN Front(AllLines) ELSE AllLines

\* _resume_chain_from_tail parses the final line of what is left.
ChainResumes(kept) == kept = <<>> \/ Last(kept) # Malformed

\* A replay that takes a line it cannot parse for a record.
Replayed_NotParsed(kept) == ToSet(kept)

\* read_all parses every line; if one is malformed it raises, and both seeding
\* functions of the OrderManager log a warning and go on with nothing.
Replayed(kept) == IF Malformed \in ToSet(kept) THEN {} ELSE ToSet(kept)

Starts ==
    /\ ~up
    /\ lines' = Recovered /\ frag' = <<>>
    /\ up' = ChainResumes(Recovered)
    /\ memory' = IF up' THEN Replayed(Recovered) ELSE {}
    /\ available' = TRUE
    /\ degraded' = TornTail
    /\ UNCHANGED <<abandoned, next, returned>>

\* The quarantine stops after os.replace: under the journal's name there is no
\* file, or one that holds the first lines and perhaps a piece of the next.
QuarantineStops ==
    /\ QuarantineMayStop /\ TornTail
    /\ \E n \in 0 .. Len(Recovered) :
          /\ lines' = SubSeq(Recovered, 1, n)
          /\ \/ frag' = <<>>
             \/ n < Len(Recovered) /\ frag' \in {<<Malformed>>, <<Recovered[n + 1]>>}
    /\ abandoned' = abandoned \cup (ToSet(AllLines) \ {Malformed})

\* How far __init__ comes with the file before it stops.
StartStops ==
    \/ UNCHANGED <<fileVars, abandoned>>
    \/ lines' = Recovered /\ frag' = <<>> /\ UNCHANGED abandoned
    \/ QuarantineStops

\* The process dies in __init__.
DiesStarting ==
    /\ ~up
    /\ StartStops
    /\ UNCHANGED <<next, returned, up, memory, available, degraded>>

\* OSError in __init__: the journal starts unavailable, degraded only if the
\* quarantine had ended, and the replay reads the file as it is now, if it can.
StartsUnavailable ==
    /\ ~up
    /\ StartStops
    /\ up' = TRUE
    /\ available' = FALSE
    /\ degraded' \in BOOLEAN
    /\ degraded' => TornTail /\ lines' = Recovered /\ frag' = <<>>
    /\ memory' \in {{}, Replayed(lines' \o frag')}
    /\ UNCHANGED <<next, returned>>

Next ==
    \/ AppendSucceeds \/ AppendFails \/ AcknowledgeRecovery
    \/ Dies \/ Starts \/ DiesStarting \/ StartsUnavailable

Spec == Init /\ [][Next]_vars

-------------------------------------------------------------------------------
(* Properties. *)

\* The process may create new risk: the journal guards of OrderManager.submit.
NewRiskAllowed == up /\ available /\ ~degraded

\* No silent amnesia: a process that may create new risk remembers every record
\* whose append ever returned TRUE, but for those that a quarantine cut short has
\* left in the file it moved away.  Nothing else loses one silently: no torn write,
\* failed append, crash, complete recovery or failed start.
OnlyACutQuarantineLoses == NewRiskAllowed => returned \subseteq memory \cup abandoned

\* The same without the exception, which is what journal.py:184 says.
NoSilentLoss == NewRiskAllowed => returned \subseteq memory
-------------------------------------------------------------------------------
(* The file implements DurableLog. *)

\* The records of the file that a replay can read, and the mode of the process.
Kept == (ToSet(lines) \cup ToSet(frag)) \ {Malformed}

Mode ==
    IF ~up THEN "down"
    ELSE IF ~available THEN "latched"
    ELSE IF degraded THEN "degraded"
    ELSE "open"

Log == INSTANCE DurableLog WITH
    RecoveryMayStop <- QuarantineMayStop,
    kept  <- Kept,
    aside <- abandoned,
    known <- IF up THEN memory ELSE {},
    mode  <- Mode

\* Every step of the file and its processes is a step of DurableLog or leaves it
\* unchanged.  OrderSpine takes for granted a DurableLog whose recovery does not
\* stop.
ImplementsDurableLog == Log!Spec
=============================================================================
