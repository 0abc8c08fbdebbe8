------------------------- MODULE LiveTraderCycleProofs -------------------------
(***************************************************************************)
(* LiveTrader implements TradeCycle, for any number of orders: every step  *)
(* of the session either leaves the entries whose fate is unknown alone,   *)
(* or settles the one there is, and only then is a trade open.             *)
(***************************************************************************)
EXTENDS LiveTraderProofs

USE LiveTraderAssumption
USE DEF LiveTraderAssumption, Orders, vars, sessionVars, venueVars

CycleStep == [Cycle!Next]_(Cycle!cycleVars)

-------------------------------------------------------------------------------
(* The entries attempted. *)

\* Away from a submit call they are those the pass under way asks for.
LEMMA AttemptedIsAsked ==
    ASSUME loop.at # "submit"
    PROVE  Attempted = Asked(ost, Asking)
BY DEF Attempted, Asked, Asking

LEMMA AttemptedInSubmit ==
    ASSUME Typed, Followed, loop.at = "submit"
    PROVE  /\ loop.order \in Orders
           /\ loop.order \in Entries => Attempted = {loop.order} /\ ~track.plan
           /\ loop.order \in Exits => Attempted = {} /\ track.plan
<1>1. loop.order \in Orders
  BY DEF Typed, InPlace
<1>2. CASE loop.order \in Entries
  BY <1>1, <1>2 DEF Followed, Placed, Unresolved, Attempted
<1>3. CASE loop.order \in Exits
  BY <1>1, <1>3 DEF Followed, Placed, Sound, EntryAlone, Asked, Attempted
<1> QED
  BY <1>1, <1>2, <1>3

LEMMA AttemptedAlone ==
    ASSUME Typed, Followed
    PROVE  /\ \A c, d \in Attempted : c = d
           /\ track.plan => Attempted = {}
<1>1. CASE loop.at = "submit"
  BY <1>1, AttemptedInSubmit
<1>2. CASE loop.at # "submit"
  BY <1>2, AttemptedIsAsked DEF Followed, Sound, EntryAlone
<1> QED
  BY <1>1, <1>2

-------------------------------------------------------------------------------
(* What a stretch of code does to them. *)

\* From the attempt a and the trade p: the attempt stays and the trade stays or ends, or
\* the attempt is settled one way or the other.
Settles(a, p) ==
    \/ Attempted' = a /\ track'.plan \in {p, FALSE}
    \/ a # {} /\ Attempted' = {}

\* Some of the attempt may have been settled before.
LEMMA SettlesFromLess ==
    ASSUME NEW a, NEW b, NEW p, Settles(b, p), b \subseteq a, \A c, d \in a : c = d
    PROVE  Settles(a, p)
<1>1. b = a \/ b = {}
  OBVIOUS
<1> QED
  BY <1>1 DEF Settles

LEMMA SettlesIsStep ==
    ASSUME Typed, Settles(Attempted, track.plan), halt' \in {halt, TRUE}, track'.plan \in BOOLEAN
    PROVE  CycleStep
<1>1. halt \in BOOLEAN /\ track.plan \in BOOLEAN
  BY DEF Typed, TypeOK, Tracks
<1>2. CASE Attempted' = Attempted /\ track'.plan = track.plan
  BY <1>1, <1>2 DEF CycleStep, Cycle!Next, Cycle!Halt, Cycle!cycleVars
<1>3. CASE Attempted' = Attempted /\ track.plan /\ ~track'.plan
  BY <1>1, <1>3 DEF CycleStep, Cycle!Next, Cycle!End, Cycle!MayHalt
<1>4. CASE Attempted # {} /\ Attempted' = {}
  BY <1>1, <1>4 DEF CycleStep, Cycle!Next, Cycle!Learn, Cycle!MayHalt
<1> QED
  BY <1>1, <1>2, <1>3, <1>4 DEF Settles

\* The rest of a pass settles what it has asked for, or goes on asking.
LEMMA ResolvingSettles ==
    ASSUME NEW o \in OrderTable, NEW t \in Tracks, NEW todo \in SUBSET Orders,
           NEW ids \in SUBSET Orders, Resolving(o, t, todo, ids), Sound(o, t, ids)
    PROVE  Settles(Asked(o, ids), t.plan)
<1>1. CASE \E c \in {d \in todo : o[d] \in UnresolvedStates} :
              /\ ost' = [o EXCEPT ![c] = "reconciling"]
              /\ track' = t
              /\ loop' = [Waiting EXCEPT !.at = "fetch", !.order = c,
                                         !.todo = todo \ {c}, !.answered = ids]
  <2>1. PICK c \in todo :
              /\ o[c] \in UnresolvedStates
              /\ ost' = [o EXCEPT ![c] = "reconciling"]
              /\ track' = t
              /\ loop' = [Waiting EXCEPT !.at = "fetch", !.order = c,
                                         !.todo = todo \ {c}, !.answered = ids]
    BY <1>1
  <2>2. loop'.at = "fetch" /\ loop'.order = c /\ loop'.answered = ids
    BY <2>1 DEF Waiting
  <2>3. \A d \in Orders : ost'[d] \in UnresolvedStates <=> o[d] \in UnresolvedStates
    BY <2>1 DEF OrderTable, UnresolvedStates
  <2>4. Attempted' = Asked(o, ids)
    BY <2>1, <2>2, <2>3 DEF Attempted, Asked
  <2> QED
    BY <2>1, <2>4 DEF Settles
<1>2. CASE /\ ost' = o
           /\ \E t1 \in AfterAnswers(o, t, ids) :
                /\ track' = t1
                /\ loop' = IF Settled(o, t1) THEN [Waiting EXCEPT !.at = "settle"]
                           ELSE Waiting
  <2>1. track' \in AfterAnswers(o, t, ids) /\ loop'.at \in {"settle", "wait"}
    BY <1>2 DEF Waiting
  <2>2. Attempted' = Asked(o, {})
    BY <1>2, <2>1 DEF Attempted, Asked
  <2>3. CASE ResumedEntries(o, t, ids) # {}
    <3>1. PICK c \in Entries : c \in ids /\ o[c] \in AcceptedStates
      BY <2>3 DEF ResumedEntries, Tracks
    <3>2. c \in Asked(o, ids) /\ c \notin Asked(o, {})
      BY <3>1 DEF Asked, AcceptedStates, UnresolvedStates
    <3>3. \A d \in Asked(o, {}) : d = c
      BY <3>2 DEF Sound, EntryAlone, Asked
    <3> QED
      BY <2>2, <3>2, <3>3 DEF Settles
  <2>4. CASE ResumedEntries(o, t, ids) = {}
    <3> DEFINE kept == [[t EXCEPT !.parked = @ \ ids] EXCEPT !.pending = PendingAfter(o, t, ids)]
    <3>1. track' \in {Cleared(kept), [kept EXCEPT !.plan = t.plan]}
      BY <2>1, <2>4 DEF AfterAnswers, Tracks
    <3>2. track'.plan \in {t.plan, FALSE}
      BY <3>1 DEF Cleared, Tracks
    <3>3. Settles(Asked(o, {}), t.plan)
      BY <2>2, <3>2 DEF Settles
    <3> QED
      BY <3>3, SettlesFromLess DEF Sound, EntryAlone, Asked
  <2> QED
    BY <2>3, <2>4
<1> QED
  BY <1>1, <1>2 DEF Resolving

LEMMA AfterExitSettles ==
    ASSUME NEW o \in OrderTable, NEW t \in Tracks, NEW halted, Sound(o, t, {}),
           Reconcile(o, t) \/ AfterExit(o, t, halted)
    PROVE  Settles(Asked(o, {}), t.plan)
<1>1. CASE Reconcile(o, t)
  <2>1. Unresolved(o) \in SUBSET Orders
    BY DEF Unresolved
  <2> QED
    BY <1>1, <2>1, ResolvingSettles DEF Reconcile
<1>2. CASE /\ ost' = o /\ track' = t
           /\ loop' = [Waiting EXCEPT !.at = "entryAccount", !.turn = "bar"]
  BY <1>2 DEF Settles, Attempted, Asked, Waiting
<1> QED
  BY <1>1, <1>2 DEF AfterExit

-------------------------------------------------------------------------------
(* The steps. *)

\* Where no attempt is in doubt the halt may be lifted.
LEMMA QuietIsStep ==
    ASSUME Typed, Attempted = {}, Attempted' = {}, track'.plan = track.plan, halt' \in BOOLEAN
    PROVE  CycleStep
<1>1. halt \in BOOLEAN
  BY DEF Typed, TypeOK
<1> QED
  BY <1>1 DEF CycleStep, Cycle!Next, Cycle!Halt, Cycle!Resume, Cycle!cycleVars

LEMMA ReadMayHalt ==
    ASSUME Typed, ReadFails \/ halt' = halt
    PROVE  halt' \in {halt, TRUE}
BY DEF Typed, TypeOK, ReadFails

\* Stretches from an await outside a pass and a submit call, to their end.
LEMMA AfterExitIsStep ==
    ASSUME Typed, Followed, loop.at \notin {"submit", "fetch"}, halt' \in {halt, TRUE},
           track'.plan \in BOOLEAN,
           NEW t \in Tracks, t.plan \in {track.plan, FALSE}, Sound(ost, t, {}), NEW halted,
           Reconcile(ost, t) \/ AfterExit(ost, t, halted)
    PROVE  CycleStep
<1>1. Attempted = Asked(ost, {})
  BY AttemptedIsAsked DEF Asking
<1>2. Settles(Attempted, t.plan)
  BY <1>1, TypedParts, AfterExitSettles
<1>3. Settles(Attempted, track.plan)
  BY <1>2 DEF Settles
<1> QED
  BY <1>3, SettlesIsStep

\* Stretches that only move the loop on, between awaits outside a pass and a submit call.
LEMMA MoveIsStep ==
    ASSUME Typed, Followed, loop.at \notin {"submit", "fetch"}, loop'.at \notin {"submit", "fetch"},
           ost' = ost, track' \in {track, Cleared(track)}, halt' \in {halt, TRUE}
    PROVE  CycleStep
<1>1. Attempted' = Attempted
  BY DEF Attempted
<1>2. track'.plan \in {track.plan, FALSE} /\ track'.plan \in BOOLEAN
  BY DEF Cleared, Typed, TypeOK, Tracks
<1> QED
  BY <1>1, <1>2, SettlesIsStep DEF Settles

LEMMA TurnIsStep == SessionInv /\ Typed' /\ TurnStep => CycleStep
<1> SUFFICES ASSUME SessionInv, Typed', TurnStep PROVE CycleStep
  OBVIOUS
<1>1. Typed /\ Followed /\ track'.plan \in BOOLEAN /\ loop.at = "wait" /\ halt' = halt
  BY DEF SessionInv, Typed, TypeOK, Tracks, TurnStep, TickWithoutStop, TickStop, BarWithoutExit, BarExit
<1>2. CASE Reconcile(ost, track)
  BY <1>1, <1>2, TypedParts, SoundHere, AfterExitIsStep
<1>3. CASE ~Reconcile(ost, track)
  <2>1. UNCHANGED <<ost, track>> /\ loop'.at \in {"exitPositions", "entryAccount"}
    BY <1>3 DEF TurnStep, TickWithoutStop, TickStop, BarWithoutExit, BarExit, Waiting
  <2> QED
    BY <1>1, <2>1, MoveIsStep
<1> QED
  BY <1>2, <1>3

LEMMA ReconcileIsStep == SessionInv /\ Typed' /\ ReconcileStep => CycleStep
<1> SUFFICES ASSUME SessionInv, Typed', ReconcileStep PROVE CycleStep
  OBVIOUS
<1>1. Typed /\ Followed /\ Judged /\ track'.plan \in BOOLEAN
  BY DEF SessionInv, Typed, TypeOK, Tracks
<1>2. \A c, d \in Attempted : c = d
  BY <1>1, AttemptedAlone
<1>3. loop.at = "fetch"
      => /\ Attempted = Asked(ost, loop.answered \cup {loop.order})
         /\ Sound(ost, track, loop.answered \cup {loop.order})
         /\ Sound(ost, track, loop.answered) /\ Sound(ost, track, {})
  BY <1>1, AttemptedIsAsked, SoundHere, SoundWithLess DEF Followed, Asking
<1>4. CASE FetchAnswers
  <2> DEFINE target == VenueOrderState(venue[loop.order])
             o == [ost EXCEPT ![loop.order] = target]
             ids == loop.answered \cup {loop.order}
  <2>1. /\ loop.at = "fetch" /\ halt' = halt
        /\ Resolving(o, track, loop.todo, ids)
    BY <1>4 DEF FetchAnswers
  <2>2. loop.order \in Orders /\ ids \in SUBSET Orders
    BY <1>1, <2>1, TypedParts DEF Typed, InPlace
  <2>3. target \in VenueFacingStates \ UnresolvedStates
    BY <1>1, <2>2 DEF VenueOrderState, Typed, TypeOK, VenueStatuses, VenueFacingStates, UnresolvedStates
  <2>4. /\ o \in OrderTable
        /\ \A c \in Orders : o[c] \in UnresolvedStates => ost[c] \in UnresolvedStates
        /\ \A c \in Orders : c # loop.order => o[c] = ost[c]
    BY <1>1, <2>2, <2>3, TypedParts DEF OrderTable
  <2> HIDE DEF o
  <2>5. Asked(o, ids) = Attempted
    BY <1>3, <2>1, <2>4 DEF Asked
  <2>6. Sound(o, track, ids)
    BY <1>3, <2>1, <2>4, SoundWithLess
  <2> HIDE DEF ids
  <2>7. Settles(Attempted, track.plan)
    BY <1>1, <2>1, <2>2, <2>4, <2>5, <2>6, TypedParts, ResolvingSettles
  <2> QED
    BY <1>1, <2>1, <2>7, SettlesIsStep
<1>5. CASE FetchUnmappable
  <2>1. loop.at = "fetch" /\ halt' = halt /\ Resolving(ost, track, loop.todo, loop.answered)
    BY <1>5 DEF FetchUnmappable
  <2>2. Settles(Asked(ost, loop.answered), track.plan)
    BY <1>1, <1>3, <2>1, TypedParts, ResolvingSettles
  <2>3. Asked(ost, loop.answered) \subseteq Attempted
    BY <1>3, <2>1 DEF Asked
  <2>4. Settles(Attempted, track.plan)
    BY <1>2, <2>2, <2>3, SettlesFromLess
  <2> QED
    BY <1>1, <2>1, <2>4, SettlesIsStep
<1>6. CASE FetchRaises
  <2>1. loop.at = "fetch" /\ halt' = halt /\ loop'.at = "wait" /\ UNCHANGED <<ost, track>>
    BY <1>6 DEF FetchRaises, Waiting
  <2>2. Attempted' = Asked(ost, {})
    BY <2>1 DEF Attempted, Asked
  <2>3. Settles(Asked(ost, {}), track.plan)
    BY <2>1, <2>2 DEF Settles
  <2>4. Asked(ost, {}) \subseteq Attempted
    BY <1>3, <2>1 DEF Asked
  <2>5. Settles(Attempted, track.plan)
    BY <1>2, <2>3, <2>4, SettlesFromLess
  <2> QED
    BY <1>1, <2>1, <2>5, SettlesIsStep
<1>7. CASE PositionsMismatch \/ HeldSomewhere \/ SettleReadFails \/ PlanDiverges
  <2>1. /\ loop.at \in {"settle", "diverge"} /\ ost' = ost
        /\ track' \in {track, Cleared(track)}
        /\ loop' \in {Waiting, [Waiting EXCEPT !.at = "diverge"]}
        /\ ReadFails \/ halt' = halt \/ halt' = TRUE
    BY <1>7 DEF PositionsMismatch, HeldSomewhere, SettleReadFails, PlanDiverges
  <2>2. loop'.at \in {"wait", "diverge"}
    BY <2>1 DEF Waiting
  <2>3. halt' \in {halt, TRUE}
    BY <1>1, <2>1, ReadMayHalt
  <2> QED
    BY <1>1, <2>1, <2>2, <2>3, MoveIsStep
<1>8. CASE FlatAndAgreed \/ PlanAgreed
  <2>1. loop.at \in {"settle", "diverge"} /\ UNCHANGED <<ost, track>> /\ halt' = FALSE /\ loop'.at = "wait"
    BY <1>8 DEF FlatAndAgreed, PlanAgreed, Waiting
  <2>2. Unresolved(ost) = {}
    BY <1>1, <2>1 DEF Judged, Settled
  <2>3. Attempted = {} /\ Attempted' = {}
    BY <2>1, <2>2 DEF Attempted, Unresolved
  <2> QED
    BY <1>1, <2>1, <2>3, QuietIsStep
<1> QED
  BY <1>4, <1>5, <1>6, <1>7, <1>8 DEF ReconcileStep

LEMMA ExitIsStep == SessionInv /\ Typed' /\ ExitStep => CycleStep
<1> SUFFICES ASSUME SessionInv, Typed', ExitStep PROVE CycleStep
  OBVIOUS
<1>1. Typed /\ Followed /\ track'.plan \in BOOLEAN
  BY DEF SessionInv, Typed, TypeOK, Tracks
<1>2. ASSUME NEW t \in Tracks, t.plan \in {track.plan, FALSE}, Sound(ost, t, {}), NEW halted,
             AfterExit(ost, t, halted), loop.at \in {"exitPositions", "exitAccount"},
             ReadFails \/ halt' = halt
      PROVE  CycleStep
  BY <1>1, <1>2, ReadMayHalt, AfterExitIsStep
<1>3. CASE ExitPositionsFail \/ ExitAccountFails \/ ExitWaits
  BY <1>1, <1>2, <1>3, TypedParts, SoundHere DEF ExitPositionsFail, ExitAccountFails, ExitWaits
<1>4. CASE ExitFindsFlat
  <2>1. Cleared(track) \in Tracks /\ Cleared(track).plan = FALSE
    BY <1>1, TypedParts, ClearedTyped DEF Cleared, Tracks
  <2> QED
    BY <1>1, <1>2, <1>4, <2>1, TypedParts, SoundHere, SoundWhenCleared DEF ExitFindsFlat
<1>5. CASE ExitRefused
  <2>1. Popped \in Tracks /\ Popped.plan = track.plan
    BY <1>1, PoppedTyped DEF Popped, Typed, TypeOK, Tracks
  <2> QED
    BY <1>1, <1>2, <1>5, <2>1, SoundWhenPopped DEF ExitRefused
<1>6. CASE ExitFindsPosition
  <2>1. /\ loop.at = "exitPositions" /\ loop'.at = "exitAccount"
        /\ UNCHANGED <<ost, track, halt>>
    BY <1>1, <1>6 DEF ExitFindsPosition, Typed, TypeOK
  <2> QED
    BY <1>1, <2>1, MoveIsStep
<1>7. ASSUME NEW c \in Exits, SendExit(c) PROVE CycleStep
  <2>1. /\ loop.at = "exitAccount" /\ track' = Popped /\ halt' = halt
        /\ ost' = [ost EXCEPT ![c] = "submitting"]
        /\ loop'.at = "submit" /\ loop'.order = c
    BY <1>1, <1>7 DEF SendExit, Typed, TypeOK
  <2>2. track'.plan = track.plan
    BY <1>1, <2>1 DEF Popped, Typed, TypeOK, Tracks
  <2>3. c \notin Entries /\ \A d \in Entries : ost'[d] = ost[d]
    BY <1>1, <2>1 DEF Typed, TypeOK
  <2>4. Attempted' = Attempted
    BY <2>1, <2>3 DEF Attempted
  <2> QED
    BY <1>1, <2>1, <2>2, <2>4, SettlesIsStep DEF Settles
<1> QED
  BY <1>3, <1>4, <1>5, <1>6, <1>7 DEF ExitStep

LEMMA EntryIsStep == SessionInv /\ Typed' /\ EntryStep => CycleStep
<1> SUFFICES ASSUME SessionInv, Typed', EntryStep PROVE CycleStep
  OBVIOUS
<1>1. Typed /\ Followed /\ Admitted /\ track'.plan \in BOOLEAN
  BY DEF SessionInv, Typed, TypeOK, Tracks
<1>2. CASE EntryAccountFails \/ EntryRefused
  <2>1. loop.at = "entryAccount" /\ Reconcile(ost, track) /\ (ReadFails \/ halt' = halt)
    BY <1>2 DEF EntryAccountFails, EntryRefused
  <2> QED
    BY <1>1, <2>1, TypedParts, SoundHere, ReadMayHalt, AfterExitIsStep
<1>3. ASSUME NEW c \in Entries, SendEntry(c) PROVE CycleStep
  <2>1. /\ loop.at = "entryAccount" /\ Unresolved(ost) = {} /\ UNCHANGED <<track, halt>>
        /\ ost' = [ost EXCEPT ![c] = "submitting"]
        /\ loop'.at = "submit" /\ loop'.order = c
    BY <1>1, <1>3 DEF SendEntry, Typed, TypeOK
  <2>2. ~halt /\ ~track.plan
    BY <1>1, <2>1 DEF Admitted
  <2>3. Attempted = {}
    BY <2>1 DEF Attempted, Unresolved
  <2>4. \A d \in Orders : ost'[d] \notin UnresolvedStates
    BY <1>1, <2>1 DEF Unresolved, UnresolvedStates, Typed, TypeOK
  <2>5. Attempted' = {c}
    BY <2>1, <2>4 DEF Attempted
  <2>6. Cycle!Enter(c)
    BY <2>1, <2>2, <2>3, <2>5 DEF Cycle!Enter
  <2> QED
    BY <2>6 DEF CycleStep, Cycle!Next
<1> QED
  BY <1>2, <1>3 DEF EntryStep

LEMMA SubmitIsStep == SessionInv /\ Typed' /\ SubmitStep => CycleStep
<1> SUFFICES ASSUME SessionInv, Typed', SubmitStep PROVE CycleStep
  OBVIOUS
<1> DEFINE c == loop.order
<1>1. Typed /\ Followed /\ track'.plan \in BOOLEAN /\ track \in Tracks
  BY DEF SessionInv, Typed, TypeOK, Tracks
<1>2. loop.at = "submit" /\ halt' = halt
  BY DEF SubmitStep, SubmitReturns, SubmitRejected, SubmitTimesOut, SubmitRaises, SubmitEnds
<1>3. /\ c \in Orders
      /\ c \in Entries => Attempted = {c} /\ ~track.plan /\ Unresolved(ost) = {}
      /\ c \in Exits => Attempted = {} /\ track.plan
  BY <1>1, <1>2, AttemptedInSubmit DEF Followed, Placed
<1>4. ASSUME NEW s \in VenueFacingStates \cup {"none"}, SubmitEnds(s), c \in Entries => s # "reconciling"
      PROVE  CycleStep
  <2> DEFINE o == [ost EXCEPT ![c] = s]
  <2>1. /\ o \in OrderTable /\ o[c] = s
        /\ \A d \in Orders : d # c => o[d] = ost[d]
    BY <1>1, <1>3, TypedParts DEF OrderTable
  <2>2. CASE c \in Entries
    <3> DEFINE t == AfterEntrySubmit(c, s)
    <3>1. Reconcile(o, t) /\ Sound(o, t, {}) /\ t \in Tracks
      BY <1>1, <1>2, <1>4, <2>2, EntrySubmitSound DEF SubmitEnds, AfterEntrySubmit, Tracks
    <3>2. Asked(o, {}) = IF s \in UnresolvedStates THEN {c} ELSE {}
      BY <1>3, <2>1, <2>2 DEF Asked, Unresolved
    <3>3. s \in UnresolvedStates => t.plan = track.plan
      BY <1>1, <1>4, <2>2 DEF UnresolvedStates, AfterEntrySubmit, Tracks
    <3> HIDE DEF o, t
    <3>4. Settles(Asked(o, {}), t.plan)
      BY <2>1, <3>1, AfterExitSettles
    <3>5. Settles(Attempted, track.plan)
      BY <1>3, <2>2, <3>2, <3>3, <3>4 DEF Settles
    <3> QED
      BY <1>1, <1>2, <3>5, SettlesIsStep
  <2>3. CASE c \in Exits
    <3> DEFINE t == AfterExitSubmit(c, s)
    <3>1. AfterExit(o, t, halt) /\ Sound(o, t, {})
      BY <1>1, <1>2, <1>4, <2>3, ExitSubmitSound DEF SubmitEnds
    <3>2. t \in Tracks
      BY <1>1, <2>3, TypedParts, ClearedTyped DEF AfterExitSubmit, LoopStates, Tracks
    <3>3. Asked(o, {}) = {}
      <4>1. \A d \in Entries : ost[d] \notin UnresolvedStates
        BY <1>2, <1>3, <2>3 DEF Attempted
      <4> QED
        BY <2>1, <2>3, <4>1 DEF Asked
    <3>4. t.plan \in {track.plan, FALSE}
      BY <1>3, <2>3, <3>2 DEF Tracks
    <3> HIDE DEF o, t
    <3>5. Settles(Asked(o, {}), t.plan)
      BY <2>1, <3>1, <3>2, AfterExitSettles
    <3>6. Settles(Attempted, track.plan)
      BY <1>3, <2>3, <3>3, <3>4, <3>5 DEF Settles
    <3> QED
      BY <1>1, <1>2, <3>6, SettlesIsStep
  <2> QED
    BY <1>3, <2>2, <2>3
<1>5. CASE SubmitReturns
  <2>1. PICK s \in {"acknowledged", ost[c]} : SubmitEnds(s)
    BY <1>5 DEF SubmitReturns
  <2>2. c \in Entries => ost[c] # "reconciling"
    BY <1>3 DEF Unresolved, UnresolvedStates
  <2> QED
    BY <1>1, <1>3, <1>4, <2>1, <2>2, TypedParts DEF OrderTable, VenueFacingStates
<1>6. CASE SubmitRejected
  BY <1>4, <1>6 DEF SubmitRejected, VenueFacingStates
<1>7. CASE SubmitTimesOut
  BY <1>4, <1>7 DEF SubmitTimesOut, VenueFacingStates
<1>8. CASE SubmitRaises
  <2>1. Asked(ost, {}) = {}
    <3>1. \A d \in Entries : ost[d] \notin UnresolvedStates
      BY <1>2, <1>3 DEF Attempted, Unresolved
    <3> QED
      BY <3>1 DEF Asked
  <2>2. Settles({}, track.plan)
    <3>1. CASE Reconcile(ost, track)
      BY <1>1, <2>1, <3>1, TypedParts, SoundHere, AfterExitSettles
    <3>2. CASE /\ loop' = [Waiting EXCEPT !.at = "dead"]
               /\ UNCHANGED <<ost, track>>
      <4>1. Attempted' = Asked(ost, {})
        BY <3>2 DEF Attempted, Asked, Waiting
      <4> QED
        BY <2>1, <3>2, <4>1 DEF Settles
    <3> QED
      BY <1>8, <3>1, <3>2 DEF SubmitRaises
  <2>3. Settles(Attempted, track.plan)
    BY <1>3, <2>2 DEF Settles
  <2> QED
    BY <1>1, <1>2, <2>3, SettlesIsStep
<1> QED
  BY <1>5, <1>6, <1>7, <1>8 DEF SubmitStep

\* The venue, the stream and the end of an order the session is done with: an answer the
\* stream brings settles an entry no pass has asked for.
LEMMA OthersAreSteps ==
    ASSUME SessionInv,
           \/ VenueStep \/ UNCHANGED vars
           \/ \E c \in Orders : StreamOrder(c) \/ Retire(c)
    PROVE  CycleStep
<1>1. Typed /\ Followed /\ \A c, d \in Attempted : c = d
  BY AttemptedAlone DEF SessionInv
<1>2. loop' = loop /\ halt' = halt /\ track'.plan = track.plan
  BY DEF VenueStep, VenueAccepts, VenueFills, VenueEnds, ExternalClose, OtherSymbol, StreamOrder, Retire
<1>3. \A d \in Orders : ost'[d] \in UnresolvedStates => ost[d] \in UnresolvedStates
  <2>1. CASE \E c \in Orders : Retire(c)
    BY <1>1, <2>1 DEF Retire, UnresolvedStates, Typed, TypeOK
  <2>2. CASE VenueStep \/ UNCHANGED vars \/ \E c \in Orders : StreamOrder(c)
    BY <1>1, <2>2, OthersKeep DEF Unresolved
  <2> QED
    BY <2>1, <2>2
<1>4. Attempted' \subseteq Attempted
  BY <1>2, <1>3 DEF Attempted
<1>5. Settles(Attempted', track.plan)
  BY <1>2 DEF Settles
<1>6. Settles(Attempted, track.plan)
  BY <1>1, <1>4, <1>5, SettlesFromLess
<1>7. track'.plan \in BOOLEAN
  BY <1>1, <1>2 DEF Typed, TypeOK, Tracks
<1> QED
  BY <1>1, <1>2, <1>6, <1>7, SettlesIsStep

-------------------------------------------------------------------------------
\* The session's life is a sequence of trades: an entry goes out only when no trade is
\* open and every earlier entry's fate is known, a trade opens only when the fate of the
\* one entry in doubt is learnt, and a halt is lifted only while none is in doubt.
THEOREM SessionImplementsTradeCycle == Spec => ImplementsTradeCycle
<1>1. Init => Cycle!Init
  BY DEF Init, Cycle!Init, Attempted, Waiting, UnresolvedStates
<1>2. SessionInv /\ Typed' /\ [Next]_vars => [Cycle!Next]_(Cycle!cycleVars)
  BY TurnIsStep, ReconcileIsStep, ExitIsStep, EntryIsStep, SubmitIsStep, OthersAreSteps
  DEF Next, LoopStep, TurnStep, CycleStep
<1>3. SessionInv => Typed
  BY DEF SessionInv
<1> QED
  BY SessionInvariant, <1>1, <1>2, <1>3, PTL DEF Spec, ImplementsTradeCycle, Cycle!Spec

\* At most one entry at a time is of unknown fate, and none while a trade is open.
THEOREM OneEntryAtATime == Spec => []Cycle!OneAtATime
<1>1. SessionInv => Cycle!OneAtATime
  BY AttemptedAlone DEF SessionInv, Cycle!OneAtATime
<1> QED
  BY SessionInvariant, <1>1, PTL
===============================================================================
