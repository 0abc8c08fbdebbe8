------------------------------ MODULE TradeCycle ------------------------------
(***************************************************************************)
(* What a trading session promises, whatever venue, stream and failures it *)
(* lives with: its life is a sequence of trades.  An entry is tried only   *)
(* while entries are not halted, no trade is open and the fate of every    *)
(* earlier entry is known; when its own fate is known the trade is open,   *)
(* or nothing came of it; and a trade has ended before the next entry.     *)
(* A halt can come at any time; it is lifted only when no entry is in      *)
(* doubt.                                                                  *)
(***************************************************************************)
CONSTANTS
    Entries,
    Restarts    \* is the process started again after a crash, from its records?

VARIABLES
    attempt,    \* the entries that have been tried and whose fate is not known
    trade,      \* a trade is open
    halted      \* entries are halted

cycleVars == <<attempt, trade, halted>>

CycleTypeOK ==
    /\ attempt \subseteq Entries
    /\ trade \in BOOLEAN
    /\ halted \in BOOLEAN

Init ==
    /\ attempt = {}
    /\ trade = FALSE
    /\ halted = FALSE

Enter(c) ==
    /\ attempt = {} /\ ~trade /\ ~halted
    /\ attempt' = {c}
    /\ UNCHANGED <<trade, halted>>

\* The same stretch of code may find a reason to halt.
MayHalt == halted' \in {halted, TRUE}

\* The fate of the entry is known.
Learn ==
    /\ attempt # {}
    /\ attempt' = {}
    /\ trade' \in BOOLEAN
    /\ MayHalt

End ==
    /\ trade
    /\ trade' = FALSE
    /\ UNCHANGED attempt
    /\ MayHalt

Halt ==
    /\ ~halted
    /\ halted' = TRUE
    /\ UNCHANGED <<attempt, trade>>

Resume ==
    /\ halted /\ attempt = {}
    /\ halted' = FALSE
    /\ UNCHANGED <<attempt, trade>>

\* A restart brings back a trade, with or without the halt, and entries in doubt,
\* but none that was not in doubt before.
Restart ==
    /\ Restarts
    /\ attempt' \subseteq attempt
    /\ trade' \in BOOLEAN /\ halted' \in BOOLEAN

Next ==
    \/ \E c \in Entries : Enter(c)
    \/ Learn \/ End \/ Halt \/ Resume \/ Restart

Spec == Init /\ [][Next]_cycleVars

\* At most one entry at a time is in doubt, and in a process that was never started
\* again none is while a trade is open.
OneAtATime ==
    /\ \A c, d \in attempt : c = d
    /\ ~Restarts /\ trade => attempt = {}
=============================================================================
