---------------------------- MODULE DecisionOnce ----------------------------
(***************************************************************************)
(* What the order spine promises about one trading decision, however many  *)
(* venue attempts, retries, crashes and replays it takes: at any time at   *)
(* most one of its attempts can be at work, or come to be at work, at the  *)
(* venue.  An attempt is tried, it may become live, and it ends; a new     *)
(* attempt is tried only after the earlier ones have ended.                *)
(***************************************************************************)
CONSTANTS Decisions, Attempts, NoDecision

VARIABLES
    owner,   \* the decision an attempt was made for
    status   \* "unused", "pending", "live" or "ended"

onceVars == <<owner, status>>

Statuses == {"unused", "pending", "live", "ended"}

OnceTypeOK ==
    /\ owner \in [Attempts -> Decisions \cup {NoDecision}]
    /\ status \in [Attempts -> Statuses]

Init ==
    /\ owner = [a \in Attempts |-> NoDecision]
    /\ status = [a \in Attempts |-> "unused"]

AtWork(a) == status[a] \in {"pending", "live"}

\* A decision may be attempted (again) once nothing of it is at work.  An
\* attempt may also be over before it could ever reach the venue.
Try(d, a) ==
    /\ status[a] = "unused"
    /\ \A b \in Attempts : owner[b] = d => ~AtWork(b)
    /\ owner' = [owner EXCEPT ![a] = d]
    /\ \E s \in {"pending", "ended"} : status' = [status EXCEPT ![a] = s]

\* A crash also ends every attempt that had not reached the venue.
TryAndCrash(d, a) ==
    /\ status[a] = "unused"
    /\ \A b \in Attempts : owner[b] = d => ~AtWork(b)
    /\ owner' = [owner EXCEPT ![a] = d]
    /\ status' = [b \in Attempts |->
                    IF b = a \/ status[b] = "pending" THEN "ended" ELSE status[b]]

GoLive(a) ==
    /\ status[a] = "pending"
    /\ status' = [status EXCEPT ![a] = "live"]
    /\ UNCHANGED owner

End(a) ==
    /\ AtWork(a)
    /\ status' = [status EXCEPT ![a] = "ended"]
    /\ UNCHANGED owner

Crash ==
    /\ status' = [a \in Attempts |->
                    IF status[a] = "pending" THEN "ended" ELSE status[a]]
    /\ UNCHANGED owner

Next ==
    \/ \E d \in Decisions, a \in Attempts : Try(d, a) \/ TryAndCrash(d, a)
    \/ \E a \in Attempts : GoLive(a) \/ End(a)
    \/ Crash

Spec == Init /\ [][Next]_onceVars

\* At most one attempt of a decision is at work.
AtMostOneAtWork ==
    \A a, b \in Attempts :
        /\ owner[a] = owner[b] /\ owner[a] # NoDecision
        /\ AtWork(a) /\ AtWork(b)
        => a = b
=============================================================================
