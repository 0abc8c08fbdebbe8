--------------------------- MODULE LiveTraderProofs ---------------------------
(***************************************************************************)
(* Theorems about LiveTrader, for any number of orders, quantities,        *)
(* exposure cap and read-failure budget: the invariants and the action     *)
(* properties its run checks on a small instance.                          *)
(***************************************************************************)
EXTENDS LiveTrader, TLAPS

USE LiveTraderAssumption
USE DEF LiveTraderAssumption, Orders, vars, sessionVars, venueVars

-------------------------------------------------------------------------------
(* Type correctness. *)

OrderTable == [Orders -> VenueFacingStates \cup {"none"}]

LoopStates == [at : Locations, turn : Reasons, order : Orders \cup {NoOrder},
               want : Nat, todo : SUBSET Orders, answered : SUBSET Orders]

\* What the loop knows in the places that use it.
InPlace ==
    /\ loop.at \in {"submit", "fetch"} => loop.order \in Orders
    /\ loop.at = "exitAccount" => loop.want > 0
    /\ loop.at = "diverge" => fails = 0

\* An order that can still execute has something left to execute.
LeftToFill ==
    \A c \in Orders :
        (ost[c] = "submitting" /\ venue[c] = "absent") \/ Working(c) => left[c] > 0

Typed == TypeOK /\ InPlace /\ LeftToFill

\* Where the stretch of code that ends in a reconciliation leaves the loop.
LEMMA ResolvingTyped ==
    ASSUME NEW o \in OrderTable, NEW t \in Tracks, NEW todo \in SUBSET Orders,
           NEW ids \in SUBSET Orders, Resolving(o, t, todo, ids)
    PROVE  /\ ost' \in OrderTable /\ track' \in Tracks /\ loop' \in LoopStates
           /\ loop'.at \in {"fetch", "settle", "wait"}
           /\ loop'.at = "fetch" => loop'.order \in Orders
           /\ \A c \in Orders : ost'[c] = "submitting" => o[c] = "submitting"
<1> USE DEF OrderTable, LoopStates, Waiting, Locations, Reasons
<1>1. CASE \E c \in {d \in todo : o[d] \in UnresolvedStates} :
              /\ ost' = [o EXCEPT ![c] = "reconciling"]
              /\ track' = t
              /\ loop' = [Waiting EXCEPT !.at = "fetch", !.order = c,
                                         !.todo = todo \ {c}, !.answered = ids]
  <2>1. PICK c \in todo :
              /\ ost' = [o EXCEPT ![c] = "reconciling"]
              /\ track' = t
              /\ loop' = [Waiting EXCEPT !.at = "fetch", !.order = c,
                                         !.todo = todo \ {c}, !.answered = ids]
    BY <1>1
  <2>2. ost' \in OrderTable /\ \A d \in Orders : ost'[d] = "submitting" => o[d] = "submitting"
    BY <2>1 DEF VenueFacingStates
  <2>3. loop' \in LoopStates /\ loop'.at = "fetch" /\ loop'.order \in Orders
    BY <2>1
  <2> QED
    BY <2>1, <2>2, <2>3
<1>2. CASE /\ ost' = o
           /\ \E t1 \in AfterAnswers(o, t, ids) :
                /\ track' = t1
                /\ loop' = IF Settled(o, t1) THEN [Waiting EXCEPT !.at = "settle"]
                           ELSE Waiting
  <2>1. PICK t1 \in AfterAnswers(o, t, ids) :
                /\ track' = t1
                /\ loop' = IF Settled(o, t1) THEN [Waiting EXCEPT !.at = "settle"]
                           ELSE Waiting
    BY <1>2
  <2>2. t1 \in Tracks
    <3>1. [t EXCEPT !.parked = @ \ ids] \in Tracks
      BY DEF Tracks
    <3>2. PendingAfter(o, t, ids) \in [Reasons -> Exits \cup {NoOrder, PastOrder}]
      BY DEF PendingAfter, Tracks
    <3> DEFINE kept == [[t EXCEPT !.parked = @ \ ids] EXCEPT !.pending = PendingAfter(o, t, ids)]
    <3>3. kept \in Tracks
      BY <3>1, <3>2 DEF Tracks
    <3>4. Cleared(kept) \in Tracks
      BY <3>3 DEF Cleared, NothingPending, Tracks
    <3> HIDE DEF kept
    <3>5. [Cleared(kept) EXCEPT !.plan = TRUE] \in Tracks
      BY <3>4 DEF Tracks
    <3>6. (t.plan \/ ResumedEntries(o, t, ids) # {}) \in BOOLEAN
      OBVIOUS
    <3>7. [kept EXCEPT !.plan = t.plan \/ ResumedEntries(o, t, ids) # {}] \in Tracks
      BY <3>3, <3>6 DEF Tracks
    <3>8. t1 \in {Cleared(kept), [Cleared(kept) EXCEPT !.plan = TRUE],
                  [kept EXCEPT !.plan = t.plan \/ ResumedEntries(o, t, ids) # {}]}
      BY <2>1 DEF AfterAnswers, kept
    <3> QED
      BY <3>4, <3>5, <3>7, <3>8
  <2>3. loop' \in LoopStates /\ loop'.at \in {"settle", "wait"}
    BY <2>1
  <2> QED
    BY <1>2, <2>1, <2>2, <2>3
<1> QED
  BY <1>1, <1>2 DEF Resolving

LEMMA AfterExitTyped ==
    ASSUME NEW o \in OrderTable, NEW t \in Tracks, NEW halted, AfterExit(o, t, halted)
    PROVE  /\ ost' \in OrderTable /\ track' \in Tracks /\ loop' \in LoopStates
           /\ loop'.at \in {"fetch", "settle", "wait", "entryAccount"}
           /\ loop'.at = "fetch" => loop'.order \in Orders
           /\ \A c \in Orders : ost'[c] = "submitting" => o[c] = "submitting"
<1>1. CASE Reconcile(o, t)
  BY <1>1, ResolvingTyped DEF Reconcile, Unresolved
<1>2. CASE /\ ost' = o /\ track' = t
           /\ loop' = [Waiting EXCEPT !.at = "entryAccount", !.turn = "bar"]
  BY <1>2 DEF Waiting, LoopStates, Locations, Reasons
<1> QED
  BY <1>1, <1>2 DEF AfterExit

LEMMA ReadTyped ==
    ASSUME TypeOK, ReadFails \/ (ReadSucceeds /\ halt' \in BOOLEAN)
    PROVE  fails' \in 0 .. MaxReadFailures /\ halt' \in BOOLEAN
<1>1. fails' \in 0 .. MaxReadFailures
  BY DEF TypeOK, ReadFails, ReadSucceeds
<1>2. (halt \/ fails + 1 >= MaxReadFailures) \in BOOLEAN
  OBVIOUS
<1> QED
  BY <1>1, <1>2 DEF ReadFails

LEMMA InitTyped == Init => Typed
<1> SUFFICES ASSUME Init PROVE Typed
  OBVIOUS
<1>1. track \in Tracks
  BY DEF Init, Tracks, NothingPending
<1>2. loop \in LoopStates /\ loop.at = "wait"
  BY DEF Init, Waiting, LoopStates, Locations, Reasons
<1>3. fails \in 0 .. MaxReadFailures /\ decided \in Exits \cup {NoOrder, PastOrder}
  BY DEF Init
<1>4. TypeOK
  BY <1>1, <1>2, <1>3 DEF Init, TypeOK, LoopStates, VenueStatuses
<1> QED
  BY <1>2, <1>4 DEF Init, Typed, TypeOK, InPlace, LeftToFill, Working, Waiting, LoopStates, VenueStatuses

LEMMA LeftKept ==
    ASSUME LeftToFill, UNCHANGED <<venue, left>>,
           \A c \in Orders : ost'[c] = "submitting" => ost[c] = "submitting"
    PROVE  LeftToFill'
BY DEF LeftToFill, Working

\* Stretches that end in a reconciliation or in the entry check.
LEMMA ReconcileKeepsTypes ==
    ASSUME Typed, NEW o \in OrderTable, NEW t \in Tracks, NEW todo \in SUBSET Orders,
           NEW ids \in SUBSET Orders, NEW halted,
           Resolving(o, t, todo, ids) \/ AfterExit(o, t, halted),
           \A c \in Orders : o[c] = "submitting" => ost[c] = "submitting",
           fails' \in 0 .. MaxReadFailures, halt' \in BOOLEAN,
           decided' \in {decided, NoOrder}, UNCHANGED venueVars
    PROVE  Typed'
<1>1. /\ ost' \in OrderTable /\ track' \in Tracks /\ loop' \in LoopStates
      /\ loop'.at \in {"fetch", "settle", "wait", "entryAccount"}
      /\ loop'.at = "fetch" => loop'.order \in Orders
      /\ \A c \in Orders : ost'[c] = "submitting" => o[c] = "submitting"
  BY ResolvingTyped, AfterExitTyped
<1>2. TypeOK'
  BY <1>1 DEF Typed, TypeOK, OrderTable, LoopStates
<1>3. InPlace'
  BY <1>1 DEF InPlace
<1>4. LeftToFill'
  BY <1>1, LeftKept DEF Typed
<1> QED
  BY <1>2, <1>3, <1>4 DEF Typed

LEMMA TypedParts ==
    ASSUME Typed
    PROVE  /\ ost \in OrderTable /\ track \in Tracks /\ loop \in LoopStates
           /\ fails \in 0 .. MaxReadFailures /\ halt \in BOOLEAN
           /\ Unresolved(ost) \in SUBSET Orders /\ {} \in SUBSET Orders
           /\ loop.todo \in SUBSET Orders /\ loop.answered \in SUBSET Orders
BY DEF Typed, TypeOK, OrderTable, LoopStates, Unresolved

LEMMA ClearedTyped ==
    ASSUME NEW t \in Tracks
    PROVE  Cleared(t) \in Tracks
BY DEF Cleared, NothingPending, Tracks

LEMMA PoppedTyped == Typed => Popped \in Tracks
BY DEF Popped, Typed, TypeOK, Tracks

LEMMA ReconcileStepTyped == Typed /\ ReconcileStep => Typed'
<1> SUFFICES ASSUME Typed, ReconcileStep PROVE Typed'
  OBVIOUS
<1>1. CASE FetchAnswers
  <2> DEFINE target == VenueOrderState(venue[loop.order])
             o == [ost EXCEPT ![loop.order] = target]
  <2>1. loop.order \in Orders
    BY <1>1 DEF FetchAnswers, Typed, InPlace
  <2>2. target \in {"rejected", "acknowledged", "partially_filled", "filled", "cancelled"}
    BY <2>1 DEF VenueOrderState, Typed, TypeOK, VenueStatuses
  <2>3. o \in OrderTable /\ \A c \in Orders : o[c] = "submitting" => ost[c] = "submitting"
    BY <2>1, <2>2, TypedParts DEF OrderTable, VenueFacingStates
  <2>4. /\ Resolving(o, track, loop.todo, loop.answered \cup {loop.order})
        /\ UNCHANGED <<decided, halt, fails, venueVars>>
    BY <1>1 DEF FetchAnswers
  <2>5. loop.answered \cup {loop.order} \in SUBSET Orders
    BY <2>1, TypedParts
  <2> HIDE DEF o
  <2> QED
    BY <2>3, <2>4, <2>5, TypedParts, ReconcileKeepsTypes
<1>2. CASE FetchUnmappable
  BY <1>2, TypedParts, ReconcileKeepsTypes DEF FetchUnmappable
<1>3. ASSUME track' \in {track, Cleared(track)}, ost' = ost, UNCHANGED <<decided, venueVars>>,
             fails' \in 0 .. MaxReadFailures, halt' \in BOOLEAN,
             loop' \in {Waiting, [Waiting EXCEPT !.at = "diverge"]},
             loop'.at = "diverge" => fails' = 0
      PROVE  Typed'
  <2>1. track' \in Tracks
    BY <1>3, TypedParts, ClearedTyped
  <2>2. loop' \in LoopStates /\ loop'.at \in {"wait", "diverge"}
    BY <1>3 DEF Waiting, LoopStates, Locations, Reasons
  <2>3. LeftToFill'
    BY <1>3, LeftKept DEF Typed
  <2> QED
    BY <1>3, <2>1, <2>2, <2>3 DEF Typed, TypeOK, InPlace, LoopStates
<1>4. CASE FetchRaises
  BY <1>3, <1>4, TypedParts DEF FetchRaises, Waiting
<1>5. 0 \in 0 .. MaxReadFailures
  OBVIOUS
<1>6. CASE PositionsMismatch
  BY <1>3, <1>5, <1>6 DEF PositionsMismatch, ReadSucceeds, Waiting
<1>7. CASE FlatAndAgreed
  BY <1>3, <1>5, <1>7 DEF FlatAndAgreed, ReadSucceeds, Waiting
<1>8. CASE HeldSomewhere
  BY <1>3, <1>5, <1>8, TypedParts DEF HeldSomewhere, ReadSucceeds
<1>9. CASE SettleReadFails
  BY <1>3, <1>9, ReadTyped DEF SettleReadFails, Waiting, Typed
<1>10. CASE PlanAgreed
  <2>1. fails' \in 0 .. MaxReadFailures
    BY <1>10 DEF PlanAgreed, Typed, TypeOK, InPlace
  <2> QED
    BY <1>3, <1>10, <2>1 DEF PlanAgreed, Waiting
<1>11. CASE PlanDiverges
  BY <1>3, <1>11, TypedParts DEF PlanDiverges, Waiting
<1> QED
  BY <1>1, <1>2, <1>4, <1>6, <1>7, <1>8, <1>9, <1>10, <1>11 DEF ReconcileStep

\* The four ways in which the wait ends.
TurnStep == TickWithoutStop \/ TickStop \/ BarWithoutExit \/ BarExit

\* The stretches that only move the loop, to a place other than "fetch".
LEMMA MoveKeepsTypes ==
    ASSUME Typed, UNCHANGED <<ost, track, venueVars>>, loop' \in LoopStates,
           loop'.at \in {"exitPositions", "exitAccount", "entryAccount"},
           loop'.at = "exitAccount" => loop'.want > 0,
           fails' \in 0 .. MaxReadFailures, halt' \in BOOLEAN,
           decided' \in {decided, NoOrder}
    PROVE  Typed'
<1>1. LeftToFill'
  BY LeftKept DEF Typed
<1> QED
  BY <1>1 DEF Typed, TypeOK, InPlace, LoopStates

LEMMA TurnStepTyped == Typed /\ TurnStep => Typed'
<1> SUFFICES ASSUME Typed, TurnStep PROVE Typed'
  OBVIOUS
<1>1. CASE TickWithoutStop
  BY <1>1, TypedParts, ReconcileKeepsTypes DEF TickWithoutStop, Reconcile
<1>2. CASE TickStop
  BY <1>2, TypedParts, MoveKeepsTypes DEF TickStop, Waiting, LoopStates, Locations, Reasons
<1>3. CASE BarWithoutExit
  <2>1. CASE Reconcile(ost, track)
    BY <1>3, <2>1, TypedParts, ReconcileKeepsTypes DEF BarWithoutExit, Reconcile
  <2>2. CASE /\ loop' = [Waiting EXCEPT !.at = "entryAccount", !.turn = "bar"]
             /\ UNCHANGED <<ost, track>>
    BY <1>3, <2>2, TypedParts, MoveKeepsTypes
    DEF BarWithoutExit, Waiting, LoopStates, Locations, Reasons
  <2> QED
    BY <1>3, <2>1, <2>2 DEF BarWithoutExit
<1>4. CASE BarExit
  BY <1>4, TypedParts, MoveKeepsTypes DEF BarExit, Waiting, LoopStates, Locations, Reasons
<1> QED
  BY <1>1, <1>2, <1>3, <1>4 DEF TurnStep

\* An order goes out: the loop is about it, and it has its quantity.
LEMMA SendTyped ==
    ASSUME Typed, NEW c \in Orders, NEW q \in Nat \ {0},
           ost' = [ost EXCEPT ![c] = "submitting"], left' = [left EXCEPT ![c] = q],
           track' \in Tracks, loop' \in LoopStates, loop'.at = "submit", loop'.order = c,
           decided' \in Exits \cup {NoOrder, PastOrder},
           fails' \in 0 .. MaxReadFailures, UNCHANGED <<halt, venue, pos, elsewhere>>
    PROVE  Typed'
<1>1. ost' \in OrderTable /\ left' \in [Orders -> Nat]
  BY DEF Typed, TypeOK, OrderTable, VenueFacingStates
<1>2. LeftToFill'
  BY DEF LeftToFill, Working, Typed, TypeOK
<1>3. InPlace'
  BY DEF InPlace
<1> QED
  BY <1>1, <1>2, <1>3 DEF Typed, TypeOK, OrderTable, LoopStates

LEMMA ExitStepTyped == Typed /\ ExitStep => Typed'
<1> SUFFICES ASSUME Typed, ExitStep PROVE Typed'
  OBVIOUS
<1>1. ASSUME NEW t \in Tracks, NEW halted, AfterExit(ost, t, halted),
             ReadFails \/ (ReadSucceeds /\ halt' = halt) \/ UNCHANGED <<fails, halt>>,
             UNCHANGED <<decided, venueVars>>
      PROVE  Typed'
  <2>1. fails' \in 0 .. MaxReadFailures /\ halt' \in BOOLEAN
    BY <1>1, ReadTyped, TypedParts DEF Typed
  <2> QED
    BY <1>1, <2>1, TypedParts, ReconcileKeepsTypes
<1>2. CASE ExitPositionsFail \/ ExitAccountFails
  BY <1>1, <1>2, TypedParts DEF ExitPositionsFail, ExitAccountFails
<1>3. CASE ExitFindsFlat
  BY <1>1, <1>3, TypedParts, ClearedTyped DEF ExitFindsFlat
<1>4. CASE ExitFindsPosition
  <2>1. loop' \in LoopStates /\ loop'.at = "exitAccount" /\ loop'.want > 0
    BY <1>4, TypedParts DEF ExitFindsPosition, CloseQty, LoopStates, Locations, Typed, TypeOK
  <2> QED
    BY <1>4, <2>1, TypedParts, MoveKeepsTypes DEF ExitFindsPosition
<1>5. CASE ExitWaits
  BY <1>1, <1>5, TypedParts DEF ExitWaits
<1>6. CASE ExitRefused
  BY <1>1, <1>6, PoppedTyped DEF ExitRefused
<1>7. ASSUME NEW c \in Exits, SendExit(c) PROVE Typed'
  <2>1. loop.want \in Nat \ {0} /\ fails' \in 0 .. MaxReadFailures
    BY <1>7 DEF SendExit, ReadSucceeds, Typed, TypeOK, InPlace
  <2>2. loop' \in LoopStates /\ loop'.at = "submit" /\ loop'.order = c
    BY <1>7, TypedParts DEF SendExit, LoopStates, Locations
  <2>3. decided' \in Exits \cup {NoOrder, PastOrder}
    BY <1>7 DEF SendExit, Typed, TypeOK
  <2>4. track' \in Tracks
    BY <1>7, PoppedTyped DEF SendExit
  <2> QED
    BY <1>7, <2>1, <2>2, <2>3, <2>4, SendTyped DEF SendExit
<1> QED
  BY <1>2, <1>3, <1>4, <1>5, <1>6, <1>7 DEF ExitStep

LEMMA EntryStepTyped == Typed /\ EntryStep => Typed'
<1> SUFFICES ASSUME Typed, EntryStep PROVE Typed'
  OBVIOUS
<1>1. CASE EntryAccountFails \/ EntryRefused
  <2>1. fails' \in 0 .. MaxReadFailures /\ halt' \in BOOLEAN
    BY <1>1, ReadTyped, TypedParts DEF Typed, EntryAccountFails, EntryRefused
  <2> QED
    BY <1>1, <2>1, TypedParts, ReconcileKeepsTypes DEF EntryAccountFails, EntryRefused, Reconcile
<1>2. ASSUME NEW c \in Entries, SendEntry(c) PROVE Typed'
  <2>1. fails' \in 0 .. MaxReadFailures /\ decided' \in Exits \cup {NoOrder, PastOrder}
    BY <1>2 DEF SendEntry, ReadSucceeds, Typed, TypeOK
  <2>2. loop' \in LoopStates /\ loop'.at = "submit" /\ loop'.order = c
    BY <1>2, TypedParts DEF SendEntry, LoopStates, Locations
  <2> QED
    BY <1>2, <2>1, <2>2, TypedParts, SendTyped DEF SendEntry
<1> QED
  BY <1>1, <1>2 DEF EntryStep

LEMMA SubmitStepTyped == Typed /\ SubmitStep => Typed'
<1> SUFFICES ASSUME Typed, SubmitStep PROVE Typed'
  OBVIOUS
<1>1. loop.order \in Orders /\ UNCHANGED <<decided, halt, fails, venueVars>>
  BY DEF SubmitStep, SubmitReturns, SubmitRejected, SubmitTimesOut, SubmitRaises, SubmitEnds,
     Typed, InPlace
<1>2. ASSUME NEW s \in (VenueFacingStates \cup {"none"}) \ {"submitting"}, SubmitEnds(s) PROVE Typed'
  <2> DEFINE o == [ost EXCEPT ![loop.order] = s]
  <2>1. o \in OrderTable /\ \A c \in Orders : o[c] = "submitting" => ost[c] = "submitting"
    BY <1>1, TypedParts DEF OrderTable
  <2>2. AfterEntrySubmit(loop.order, s) \in Tracks \/ loop.order \notin Entries
    BY TypedParts DEF AfterEntrySubmit, Tracks
  <2>3. AfterExitSubmit(loop.order, s) \in Tracks \/ loop.order \notin Exits
    BY TypedParts, ClearedTyped DEF AfterExitSubmit, LoopStates, Tracks
  <2>4. CASE loop.order \in Entries
    <3>1. Reconcile(o, AfterEntrySubmit(loop.order, s))
      BY <1>2, <2>4 DEF SubmitEnds
    <3>2. Unresolved(o) \in SUBSET Orders
      BY DEF Unresolved
    <3> HIDE DEF o
    <3> QED
      BY <1>1, <2>1, <2>2, <2>4, <3>1, <3>2, TypedParts, ReconcileKeepsTypes DEF Reconcile
  <2>5. CASE loop.order \notin Entries
    <3>1. AfterExit(o, AfterExitSubmit(loop.order, s), halt)
      BY <1>2, <2>5 DEF SubmitEnds
    <3> HIDE DEF o
    <3> QED
      BY <1>1, <2>1, <2>3, <2>5, <3>1, TypedParts, ReconcileKeepsTypes
  <2> QED
    BY <2>4, <2>5
<1>3. CASE SubmitReturns
  <2>1. \/ SubmitEnds("acknowledged")
        \/ ost[loop.order] # "submitting" /\ SubmitEnds(ost[loop.order])
    BY <1>3 DEF SubmitReturns
  <2> QED
    BY <1>1, <1>2, <2>1, TypedParts DEF OrderTable, VenueFacingStates
<1>4. CASE SubmitRejected
  BY <1>2, <1>4 DEF SubmitRejected, VenueFacingStates
<1>5. CASE SubmitTimesOut
  BY <1>2, <1>5 DEF SubmitTimesOut, VenueFacingStates
<1>6. CASE SubmitRaises
  <2>1. CASE Reconcile(ost, track)
    BY <1>1, <2>1, TypedParts, ReconcileKeepsTypes DEF Reconcile
  <2>2. CASE /\ loop' = [Waiting EXCEPT !.at = "dead"]
             /\ UNCHANGED <<ost, track>>
    <3>1. loop' \in LoopStates /\ loop'.at = "dead"
      BY <2>2 DEF Waiting, LoopStates, Locations, Reasons
    <3>2. LeftToFill'
      BY <1>1, <2>2, LeftKept DEF Typed
    <3> QED
      BY <1>1, <2>2, <3>1, <3>2 DEF Typed, TypeOK, InPlace, LoopStates
  <2> QED
    BY <1>6, <2>1, <2>2 DEF SubmitRaises
<1> QED
  BY <1>3, <1>4, <1>5, <1>6 DEF SubmitStep

VenueTyped ==
    /\ venue \in [Orders -> VenueStatuses] /\ left \in [Orders -> Nat]
    /\ pos \in Nat /\ elsewhere \in BOOLEAN
    /\ LeftToFill

LEMMA VenueStepTyped == Typed /\ VenueStep => Typed'
<1> SUFFICES ASSUME Typed, VenueStep PROVE Typed'
  OBVIOUS
<1>1. UNCHANGED <<ost, sessionVars>>
  BY DEF VenueStep, VenueAccepts, VenueFills, VenueEnds, ExternalClose, OtherSymbol
<1>2. VenueTyped
  BY DEF Typed, TypeOK, VenueTyped
<1>3. VenueTyped'
  <2> USE DEF VenueTyped
  <2>1. ASSUME NEW c \in Orders, VenueAccepts(c) PROVE VenueTyped'
    BY <1>1, <1>2, <2>1 DEF VenueAccepts, VenueStatuses, LeftToFill, Working
  <2>2. ASSUME NEW c \in Orders, VenueFills(c) PROVE VenueTyped'
    <3>1. left[c] \in Nat \ {0} /\ pos' \in Nat
      BY <1>2, <2>2 DEF VenueFills, LeftToFill
    <3>2. left' \in [Orders -> Nat] /\ venue' \in [Orders -> VenueStatuses]
      BY <1>2, <2>2, <3>1 DEF VenueFills, VenueStatuses
    <3>3. ASSUME NEW d \in Orders,
                 ((ost[d] = "submitting" /\ venue[d] = "absent") \/ Working(d))'
          PROVE  left'[d] > 0
      <4>1. CASE d = c
        <5>1. /\ left'[c] = left[c] - 1
              /\ venue'[c] = IF left[c] = 1 THEN "closed" ELSE "partial"
          BY <1>2, <2>2 DEF VenueFills
        <5> QED
          BY <3>1, <3>3, <4>1, <5>1 DEF Working
      <4>2. CASE d # c
        BY <1>1, <1>2, <2>2, <3>3, <4>2 DEF VenueFills, LeftToFill, Working
      <4> QED
        BY <4>1, <4>2
    <3> QED
      BY <1>2, <2>2, <3>1, <3>2, <3>3 DEF VenueFills, LeftToFill
  <2>3. ASSUME NEW c \in Orders, VenueEnds(c) PROVE VenueTyped'
    BY <1>1, <1>2, <2>3 DEF VenueEnds, VenueStatuses, LeftToFill, Working
  <2>4. CASE ExternalClose \/ OtherSymbol
    <3>1. UNCHANGED <<ost, venue, left>> /\ pos' \in Nat
      BY <1>1, <1>2, <2>4 DEF ExternalClose, OtherSymbol
    <3>2. elsewhere' = elsewhere \/ elsewhere' = ~elsewhere
      BY <2>4 DEF ExternalClose, OtherSymbol
    <3>3. elsewhere' \in BOOLEAN
      BY <3>2, <1>2
    <3>4. LeftToFill'
      BY <1>2, <3>1 DEF LeftToFill, Working
    <3> QED
      BY <1>2, <3>1, <3>3, <3>4
  <2> QED
    BY <2>1, <2>2, <2>3, <2>4 DEF VenueStep
<1> QED
  BY <1>1, <1>3 DEF Typed, TypeOK, InPlace, VenueTyped

\* The private stream only ever reports what leaves no doubt.
LEMMA StreamNeverDoubts ==
    ASSUME Typed, NEW c \in Orders, StreamOrder(c)
    PROVE  \E s \in VenueFacingStates \ ({"submitting"} \cup UnresolvedStates) :
              ost' = ost \/ ost' = [ost EXCEPT ![c] = s]
<1>1. PICK v \in StreamStatuses(c) : ost' = [ost EXCEPT ![c] = StreamResult(@, VenueOrderState(v))]
  BY DEF StreamOrder
<1>2. v \in VenueStatuses
  BY <1>1 DEF StreamStatuses, VenueStatuses, Typed, TypeOK
<1>3. VenueOrderState(v) \in VenueFacingStates \ ({"submitting"} \cup UnresolvedStates)
  BY <1>2 DEF VenueStatuses, VenueOrderState, VenueFacingStates, UnresolvedStates
<1>4. \/ StreamResult(ost[c], VenueOrderState(v)) = VenueOrderState(v)
      \/ StreamResult(ost[c], VenueOrderState(v)) = ost[c]
  BY DEF StreamResult
<1>5. [ost EXCEPT ![c] = ost[c]] = ost
  BY DEF Typed, TypeOK
<1> QED
  BY <1>1, <1>3, <1>4, <1>5

LEMMA StreamTyped ==
    ASSUME Typed, NEW c \in Orders, StreamOrder(c)
    PROVE  Typed'
<1>1. PICK s \in VenueFacingStates \ ({"submitting"} \cup UnresolvedStates) :
          ost' = ost \/ ost' = [ost EXCEPT ![c] = s]
  BY StreamNeverDoubts
<1>2. ost' \in OrderTable /\ \A d \in Orders : ost'[d] = "submitting" => ost[d] = "submitting"
  BY <1>1, TypedParts DEF OrderTable
<1>3. UNCHANGED <<sessionVars, venueVars>>
  BY DEF StreamOrder
<1>4. LeftToFill'
  BY <1>2, <1>3, LeftKept DEF Typed
<1> QED
  BY <1>2, <1>3, <1>4 DEF Typed, TypeOK, InPlace, OrderTable

LEMMA RetireTyped ==
    ASSUME Typed, NEW c \in Orders, Retire(c)
    PROVE  Typed'
<1>1. track' \in Tracks
  <2>1. {IF p = c THEN PastOrder ELSE p : p \in track.parked} \in SUBSET (Entries \cup {PastOrder})
    BY DEF Typed, TypeOK, Tracks
  <2>2. [r \in Reasons |-> IF track.pending[r] = c THEN PastOrder ELSE track.pending[r]]
        \in [Reasons -> Exits \cup {NoOrder, PastOrder}]
    BY DEF Typed, TypeOK, Tracks
  <2> QED
    BY <2>1, <2>2 DEF Retire, Typed, TypeOK, Tracks
<1>2. decided' \in Exits \cup {NoOrder, PastOrder}
  BY DEF Retire, Typed, TypeOK
<1>3. /\ ost' \in OrderTable /\ venue' \in [Orders -> VenueStatuses]
      /\ left' \in [Orders -> Nat] /\ LeftToFill'
  BY DEF Retire, Typed, TypeOK, OrderTable, VenueStatuses, LeftToFill, Working
<1> QED
  BY <1>1, <1>2, <1>3 DEF Retire, Typed, TypeOK, InPlace, OrderTable

LEMMA TypeInvariant == Spec => []Typed
<1>1. Typed /\ UNCHANGED vars => Typed'
  BY DEF Typed, TypeOK, InPlace, LeftToFill, Working
<1>2. Typed /\ LoopStep => Typed'
  BY TurnStepTyped, ReconcileStepTyped, ExitStepTyped, EntryStepTyped, SubmitStepTyped
  DEF LoopStep, TurnStep
<1>3. Typed /\ [Next]_vars => Typed'
  BY <1>1, <1>2, VenueStepTyped, StreamTyped, RetireTyped DEF Next
<1> QED
  BY InitTyped, <1>3, PTL DEF Spec

\* Every reachable state of the session and its venue is well typed; among others, the
\* count of failed reads stays within its budget, and no order executes more than its
\* quantity.
THEOREM LiveTypeCorrect == Spec => []TypeOK
<1>1. Typed => TypeOK
  BY DEF Typed
<1> QED
  BY TypeInvariant, <1>1, PTL

-------------------------------------------------------------------------------
(* The halt and the entry gate. *)

\* What the comparison of the positions rests on, one or two account reads after it
\* was established.
Judged == loop.at \in {"settle", "diverge"} => Settled(ost, track)

\* What the entry rests on, one account read after the gate.
Admitted == loop.at = "entryAccount" => ~halt /\ ~track.plan

LEMMA ResolvingLands ==
    ASSUME NEW o, NEW t, NEW todo, NEW ids, Resolving(o, t, todo, ids)
    PROVE  /\ loop'.at \in {"fetch", "settle", "wait"}
           /\ loop'.at = "settle" => Settled(ost', track')
<1>1. CASE \E c \in {d \in todo : o[d] \in UnresolvedStates} :
              loop' = [Waiting EXCEPT !.at = "fetch", !.order = c,
                                      !.todo = todo \ {c}, !.answered = ids]
  BY <1>1 DEF Waiting
<1>2. CASE /\ ost' = o
           /\ \E t1 \in AfterAnswers(o, t, ids) :
                /\ track' = t1
                /\ loop' = IF Settled(o, t1) THEN [Waiting EXCEPT !.at = "settle"]
                           ELSE Waiting
  BY <1>2 DEF Waiting
<1> QED
  BY <1>1, <1>2 DEF Resolving

LEMMA AfterExitLands ==
    ASSUME NEW o, NEW t, NEW halted, AfterExit(o, t, halted)
    PROVE  /\ loop'.at \in {"fetch", "settle", "wait", "entryAccount"}
           /\ loop'.at = "settle" => Settled(ost', track')
           /\ loop'.at = "entryAccount" => ~halted /\ ~track'.plan
<1>1. CASE Reconcile(o, t)
  BY <1>1, ResolvingLands DEF Reconcile
<1>2. CASE /\ EntryGate(o, t, halted) /\ track' = t
           /\ loop' = [Waiting EXCEPT !.at = "entryAccount", !.turn = "bar"]
  BY <1>2 DEF EntryGate, Waiting
<1> QED
  BY <1>1, <1>2 DEF AfterExit

\* Every way into the comparison and into an entry.
Lands ==
    /\ loop'.at = "settle" => Settled(ost', track')
    /\ loop'.at = "diverge" => loop.at = "settle" /\ UNCHANGED <<ost, track>>
    /\ loop'.at = "entryAccount" => ~halt' /\ ~track'.plan

LEMMA LoopLands ==
    ASSUME Typed, LoopStep
    PROVE  Lands
<1> USE DEF Lands
<1>1. ASSUME NEW o, NEW t, NEW todo, NEW ids, Resolving(o, t, todo, ids) PROVE Lands
  BY <1>1, ResolvingLands
<1>2. ASSUME NEW o, NEW t, NEW halted, AfterExit(o, t, halted), ~halted => ~halt' PROVE Lands
  BY <1>2, AfterExitLands
<1>3. CASE TurnStep
  <2>1. CASE TickWithoutStop
    BY <1>1, <2>1 DEF TickWithoutStop, Reconcile
  <2>2. CASE TickStop
    BY <2>2 DEF TickStop, Waiting
  <2>3. CASE BarWithoutExit
    <3>1. CASE Reconcile(ost, track)
      BY <1>1, <3>1 DEF Reconcile
    <3>2. CASE /\ EntryGate(ost, track, halt) /\ UNCHANGED <<ost, track>>
               /\ loop' = [Waiting EXCEPT !.at = "entryAccount", !.turn = "bar"]
      BY <2>3, <3>2 DEF BarWithoutExit, EntryGate, Waiting
    <3> QED
      BY <2>3, <3>1, <3>2 DEF BarWithoutExit
  <2>4. CASE BarExit
    BY <2>4 DEF BarExit, Waiting
  <2> QED
    BY <1>3, <2>1, <2>2, <2>3, <2>4 DEF TurnStep
<1>4. CASE ReconcileStep
  <2>1. CASE FetchAnswers
    BY <1>1, <2>1 DEF FetchAnswers
  <2>2. CASE FetchUnmappable
    BY <1>1, <2>2 DEF FetchUnmappable
  <2>3. CASE HeldSomewhere
    BY <2>3 DEF HeldSomewhere, Waiting
  <2>4. CASE FetchRaises \/ PositionsMismatch \/ FlatAndAgreed \/ SettleReadFails
              \/ PlanAgreed \/ PlanDiverges
    <3>1. loop' = Waiting
      BY <2>4 DEF FetchRaises, PositionsMismatch, FlatAndAgreed, SettleReadFails, PlanAgreed,
         PlanDiverges
    <3> QED
      BY <3>1 DEF Waiting
  <2> QED
    BY <1>4, <2>1, <2>2, <2>3, <2>4 DEF ReconcileStep
<1>5. CASE ExitStep
  <2>1. CASE ExitPositionsFail \/ ExitAccountFails
    BY <1>2, <2>1 DEF ExitPositionsFail, ExitAccountFails, ReadFails
  <2>2. CASE ExitFindsFlat
    BY <1>2, <2>2 DEF ExitFindsFlat
  <2>3. CASE ExitWaits
    BY <1>2, <2>3 DEF ExitWaits
  <2>4. CASE ExitRefused
    BY <1>2, <2>4 DEF ExitRefused
  <2>5. CASE ExitFindsPosition \/ \E c \in Exits : SendExit(c)
    <3>1. loop'.at \in {"exitAccount", "submit"}
      BY <2>5 DEF ExitFindsPosition, SendExit, Typed, TypeOK
    <3> QED
      BY <3>1
  <2> QED
    BY <1>5, <2>1, <2>2, <2>3, <2>4, <2>5 DEF ExitStep
<1>6. CASE EntryStep
  <2>1. CASE EntryAccountFails \/ EntryRefused
    BY <1>1, <2>1 DEF EntryAccountFails, EntryRefused, Reconcile
  <2>2. ASSUME NEW c \in Entries, SendEntry(c) PROVE loop'.at = "submit"
    BY <2>2 DEF SendEntry, Typed, TypeOK
  <2> QED
    BY <1>6, <2>1, <2>2 DEF EntryStep
<1>7. CASE SubmitStep
  <2>1. ASSUME NEW s, SubmitEnds(s) PROVE Lands
    <3>1. halt' = halt
      BY <2>1 DEF SubmitEnds
    <3>2. CASE loop.order \in Entries
      BY <1>1, <2>1, <3>2 DEF SubmitEnds, Reconcile
    <3>3. CASE loop.order \notin Entries
      BY <1>2, <2>1, <3>1, <3>3 DEF SubmitEnds
    <3> QED
      BY <3>2, <3>3
  <2>2. CASE SubmitRaises
    <3>1. CASE Reconcile(ost, track)
      BY <1>1, <3>1 DEF Reconcile
    <3>2. CASE loop' = [Waiting EXCEPT !.at = "dead"]
      BY <3>2 DEF Waiting
    <3> QED
      BY <2>2, <3>1, <3>2 DEF SubmitRaises
  <2> QED
    BY <1>7, <2>1, <2>2 DEF SubmitStep, SubmitReturns, SubmitRejected, SubmitTimesOut
<1> QED
  BY <1>3, <1>4, <1>5, <1>6, <1>7 DEF LoopStep, TurnStep

\* What the others do to the manager and to the session while the loop stands still.
LEMMA OthersKeep ==
    ASSUME Typed, VenueStep \/ (\E c \in Orders : StreamOrder(c) \/ Retire(c)) \/ UNCHANGED vars
    PROVE  /\ UNCHANGED <<halt, loop>> /\ track'.plan = track.plan
           /\ Unresolved(ost') \subseteq Unresolved(ost)
           /\ Settled(ost, track) => Settled(ost', track')
<1>1. CASE VenueStep \/ UNCHANGED vars
  <2>1. UNCHANGED <<ost, track, halt, loop>>
    BY <1>1 DEF VenueStep, VenueAccepts, VenueFills, VenueEnds, ExternalClose, OtherSymbol
  <2> QED
    BY <2>1
<1>2. ASSUME NEW c \in Orders, StreamOrder(c)
      PROVE  UNCHANGED <<track, halt, loop>> /\ Unresolved(ost') \subseteq Unresolved(ost)
  <2>1. PICK s \in VenueFacingStates \ ({"submitting"} \cup UnresolvedStates) :
            ost' = ost \/ ost' = [ost EXCEPT ![c] = s]
    BY <1>2, StreamNeverDoubts
  <2> QED
    BY <1>2, <2>1 DEF StreamOrder, Unresolved, Typed, TypeOK
<1>3. ASSUME NEW c \in Orders, Retire(c)
      PROVE  /\ UNCHANGED <<halt, loop>> /\ track'.plan = track.plan
             /\ Unresolved(ost') \subseteq Unresolved(ost)
             /\ Settled(ost, track) => Settled(ost', track')
  <2>1. UNCHANGED <<halt, loop>> /\ track'.plan = track.plan
    BY <1>3 DEF Retire
  <2>2. Unresolved(ost') \subseteq Unresolved(ost)
    BY <1>3 DEF Retire, Unresolved, UnresolvedStates, Typed, TypeOK
  <2>3. track.parked = {} => track'.parked = {}
    BY <1>3 DEF Retire
  <2>4. track.pending = NothingPending => track'.pending = NothingPending
    BY <1>3 DEF Retire, NothingPending
  <2> QED
    BY <2>1, <2>2, <2>3, <2>4 DEF Settled
<1> QED
  BY <1>1, <1>2, <1>3 DEF Settled

LEMMA JudgedInvariant == Spec => [](Typed /\ Judged /\ Admitted)
<1>1. Init => Judged /\ Admitted
  BY DEF Init, Judged, Admitted, Waiting
<1>2. Typed /\ Judged /\ Admitted /\ [Next]_vars => (Judged /\ Admitted)'
  <2> SUFFICES ASSUME Typed, Judged, Admitted, [Next]_vars PROVE (Judged /\ Admitted)'
    OBVIOUS
  <2>1. CASE LoopStep
    BY <2>1, LoopLands DEF Lands, Judged, Admitted
  <2>2. CASE VenueStep \/ (\E c \in Orders : StreamOrder(c) \/ Retire(c)) \/ UNCHANGED vars
    BY <2>2, OthersKeep DEF Judged, Admitted
  <2> QED
    BY <2>1, <2>2 DEF Next
<1> QED
  BY TypeInvariant, <1>1, <1>2, PTL DEF Spec

\* Only the comparison of the positions lifts a halt.
LEMMA HaltLiftedWhere ==
    ASSUME Typed, LoopStep, halt, ~halt'
    PROVE  loop.at \in {"settle", "diverge"}
<1>1. ~TurnStep
  BY DEF TurnStep, TickWithoutStop, TickStop, BarWithoutExit, BarExit
<1>2. ReconcileStep => loop.at \in {"settle", "diverge"}
  BY DEF ReconcileStep, FetchAnswers, FetchUnmappable, FetchRaises, PositionsMismatch,
     FlatAndAgreed, HeldSomewhere, SettleReadFails, PlanAgreed, PlanDiverges
<1>3. ~ExitStep
  BY DEF ExitStep, ExitPositionsFail, ExitFindsFlat, ExitFindsPosition, ExitAccountFails,
     ExitWaits, ExitRefused, SendExit, ReadFails
<1>4. ~EntryStep
  BY DEF EntryStep, EntryAccountFails, EntryRefused, SendEntry, ReadFails
<1>5. ~SubmitStep
  BY DEF SubmitStep, SubmitReturns, SubmitRejected, SubmitTimesOut, SubmitRaises, SubmitEnds
<1> QED
  BY <1>1, <1>2, <1>3, <1>4, <1>5 DEF LoopStep, TurnStep

\* Entries are re-opened only on a settled account: when a standing halt is lifted no
\* order is in doubt, none is parked and none is pending, although all three were
\* looked at one or two account reads earlier and the private stream has moved orders
\* since.
THEOREM HaltLifted == Spec => HaltLiftedOnlyWhenSettled
<1>1. Typed /\ Judged /\ [Next]_vars => [halt /\ ~halt' => ~InFlight]_vars
  <2> SUFFICES ASSUME Typed, Judged, [Next]_vars, halt, ~halt' PROVE ~InFlight
    OBVIOUS
  <2>1. LoopStep
    BY OthersKeep DEF Next
  <2>2. Settled(ost, track)
    BY <2>1, HaltLiftedWhere DEF Judged
  <2> QED
    BY <2>2 DEF Settled, InFlight
<1> QED
  BY JudgedInvariant, <1>1, PTL DEF Spec, HaltLiftedOnlyWhenSettled

\* A new order goes out by SendEntry or SendExit and in no other way.
LEMMA EntrySentBy ==
    ASSUME Typed, [Next]_vars, NEW c \in Entries, ost[c] = "none", ost'[c] = "submitting"
    PROVE  \E e \in Entries : SendEntry(e)
<1>1. ASSUME NEW o \in OrderTable, NEW t \in Tracks, NEW todo \in SUBSET Orders,
             NEW ids \in SUBSET Orders, NEW halted,
             Resolving(o, t, todo, ids) \/ AfterExit(o, t, halted), o[c] # "submitting"
      PROVE  FALSE
  BY <1>1, ResolvingTyped, AfterExitTyped
<1>2. ~TurnStep
  <2>1. ~Reconcile(ost, track)
    BY <1>1, TypedParts DEF Reconcile
  <2> QED
    BY <2>1 DEF TurnStep, TickWithoutStop, TickStop, BarWithoutExit, BarExit
<1>3. ~ReconcileStep
  <2>1. ~FetchAnswers
    <3> SUFFICES ASSUME FetchAnswers PROVE FALSE
      OBVIOUS
    <3> DEFINE target == VenueOrderState(venue[loop.order])
               o == [ost EXCEPT ![loop.order] = target]
    <3>1. loop.order \in Orders
      BY DEF FetchAnswers, Typed, InPlace
    <3>2. target \in VenueFacingStates \ {"submitting"}
      BY <3>1 DEF VenueOrderState, Typed, TypeOK, VenueStatuses, VenueFacingStates
    <3>3. o \in OrderTable /\ o[c] # "submitting"
      BY <3>1, <3>2, TypedParts DEF OrderTable
    <3>4. Resolving(o, track, loop.todo, loop.answered \cup {loop.order})
      BY DEF FetchAnswers
    <3>5. loop.answered \cup {loop.order} \in SUBSET Orders
      BY <3>1, TypedParts
    <3> HIDE DEF o
    <3> QED
      BY <1>1, <3>3, <3>4, <3>5, TypedParts
  <2>2. ~FetchUnmappable
    BY <1>1, TypedParts DEF FetchUnmappable
  <2> QED
    BY <2>1, <2>2 DEF ReconcileStep, FetchRaises, PositionsMismatch, FlatAndAgreed,
       HeldSomewhere, SettleReadFails, PlanAgreed, PlanDiverges
<1>4. ~ExitStep
  <2>1. \A t \in Tracks : \A halted : ~AfterExit(ost, t, halted)
    BY <1>1, TypedParts
  <2>2. \A x \in Exits : ~SendExit(x)
    BY DEF SendExit, Typed, TypeOK
  <2> QED
    BY <2>1, <2>2, TypedParts, ClearedTyped, PoppedTyped
    DEF ExitStep, ExitPositionsFail, ExitFindsFlat, ExitFindsPosition, ExitAccountFails,
        ExitWaits, ExitRefused
<1>5. ~SubmitStep
  <2>1. loop.order \in Orders \/ ~SubmitStep
    BY DEF SubmitStep, SubmitReturns, SubmitRejected, SubmitTimesOut, SubmitRaises, Typed, InPlace
  <2>2. ASSUME loop.order \in Orders, NEW s \in (VenueFacingStates \cup {"none"}) \ {"submitting"},
               SubmitEnds(s)
        PROVE  FALSE
    <3> DEFINE o == [ost EXCEPT ![loop.order] = s]
    <3>1. o \in OrderTable /\ o[c] # "submitting" /\ Unresolved(o) \in SUBSET Orders
      BY <2>2, TypedParts DEF OrderTable, Unresolved
    <3>2. loop.order \in Entries => AfterEntrySubmit(loop.order, s) \in Tracks
      BY TypedParts DEF AfterEntrySubmit, Tracks
    <3>3. loop.order \in Exits => AfterExitSubmit(loop.order, s) \in Tracks
      BY TypedParts, ClearedTyped DEF AfterExitSubmit, LoopStates, Tracks
    <3>4. \/ /\ loop.order \in Entries
             /\ Reconcile(o, AfterEntrySubmit(loop.order, s))
          \/ /\ loop.order \in Exits
             /\ AfterExit(o, AfterExitSubmit(loop.order, s), halt)
      BY <2>2 DEF SubmitEnds
    <3> HIDE DEF o
    <3> QED
      BY <1>1, <3>1, <3>2, <3>3, <3>4 DEF Reconcile
  <2>3. ~SubmitReturns
    BY <2>1, <2>2, TypedParts DEF SubmitReturns, SubmitStep, OrderTable, VenueFacingStates
  <2>4. ~SubmitRejected /\ ~SubmitTimesOut
    BY <2>1, <2>2 DEF SubmitRejected, SubmitTimesOut, SubmitStep, VenueFacingStates
  <2>5. ~SubmitRaises
    <3>1. ~Reconcile(ost, track)
      BY <1>1, TypedParts DEF Reconcile
    <3> QED
      BY <3>1 DEF SubmitRaises
  <2> QED
    BY <2>3, <2>4, <2>5 DEF SubmitStep
<1>6. ~(EntryAccountFails \/ EntryRefused)
  <2>1. ~Reconcile(ost, track)
    BY <1>1, TypedParts DEF Reconcile
  <2> QED
    BY <2>1 DEF EntryAccountFails, EntryRefused
<1>7. ~VenueStep /\ ~UNCHANGED vars
  BY DEF VenueStep, VenueAccepts, VenueFills, VenueEnds, ExternalClose, OtherSymbol
<1>8. \A d \in Orders : ~StreamOrder(d) /\ ~Retire(d)
  <2>1. ASSUME NEW d \in Orders, StreamOrder(d) PROVE FALSE
    BY <2>1, StreamNeverDoubts DEF Typed, TypeOK
  <2>2. ASSUME NEW d \in Orders, Retire(d) PROVE FALSE
    BY <2>2 DEF Retire, Typed, TypeOK
  <2> QED
    BY <2>1, <2>2
<1> QED
  BY <1>2, <1>3, <1>4, <1>5, <1>6, <1>7, <1>8 DEF Next, LoopStep, TurnStep, EntryStep

\* An entry goes out only while entries are not halted, no trade is open and no order is in
\* doubt, one account read after the gate has looked.
THEOREM EntriesAllowed == Spec => EntriesOnlyWhenAllowed
<1>1. Typed /\ Admitted /\ [Next]_vars
      => [\A c \in Entries :
             ost[c] = "none" /\ ost'[c] = "submitting"
             => ~halt /\ ~track.plan /\ Unresolved(ost) = {}]_vars
  <2> SUFFICES ASSUME Typed, Admitted, [Next]_vars, NEW c \in Entries,
                      ost[c] = "none", ost'[c] = "submitting"
               PROVE  ~halt /\ ~track.plan /\ Unresolved(ost) = {}
    OBVIOUS
  <2>1. PICK e \in Entries : SendEntry(e)
    BY EntrySentBy
  <2> QED
    BY <2>1 DEF SendEntry, Admitted
<1> QED
  BY JudgedInvariant, <1>1, PTL DEF Spec, EntriesOnlyWhenAllowed

-------------------------------------------------------------------------------
(* Orders in doubt. *)

\* DoubtIsTracked, of any orders and any tracking: the step that is under way looks at
\* both before they are stored.
Tracked(o, t) ==
    /\ \A c \in Entries : o[c] \in UnresolvedStates => c \in t.parked
    /\ \A c \in Exits : o[c] \in UnresolvedStates /\ t.plan => \E r \in Reasons : t.pending[r] = c

\* The entries whose fate this pass is about: in doubt, or among the ids answered in it.
Asked(o, ids) == {c \in Entries : o[c] \in UnresolvedStates \/ c \in ids}

\* While an entry's fate is being asked for there is no other, no trade and no exit in
\* doubt: so its answer never opens a trade over an exit that nobody tracks.
EntryAlone(o, t, ids) ==
    \A c \in Asked(o, ids) :
        /\ ~t.plan
        /\ \A x \in Exits : o[x] \notin UnresolvedStates
        /\ \A d \in Asked(o, ids) : d = c

PendingNeedsPlan(t) == t.pending # NothingPending => t.plan

Sound(o, t, ids) == Tracked(o, t) /\ EntryAlone(o, t, ids) /\ PendingNeedsPlan(t)

Asking == IF loop.at = "fetch" THEN loop.answered \cup {loop.order} ELSE {}

\* What the awaits of an exit and of a submit call rely on.
Placed ==
    /\ loop.at \in {"exitPositions", "exitAccount"} => track.plan
    /\ loop.at = "submit" /\ loop.order \in Exits
       => track.plan /\ track.pending[loop.turn] = NoOrder
    /\ loop.at = "submit" /\ loop.order \in Entries
       => ~track.plan /\ Unresolved(ost) = {}

AnsweredIsSettled ==
    loop.at = "fetch" => \A c \in loop.answered : ost[c] \notin UnresolvedStates

Followed == Sound(ost, track, Asking) /\ Placed /\ AnsweredIsSettled

\* Fewer orders in doubt and fewer ids asked for.
LEMMA SoundWithLess ==
    ASSUME NEW o, NEW p, NEW t, NEW ids, NEW jds, Sound(o, t, ids), jds \subseteq ids,
           \A c \in Orders : p[c] \in UnresolvedStates => o[c] \in UnresolvedStates
    PROVE  Sound(p, t, jds)
<1>1. Tracked(p, t)
  BY DEF Sound, Tracked
<1>2. Asked(p, jds) \subseteq Asked(o, ids)
  BY DEF Asked
<1>3. EntryAlone(p, t, jds)
  BY <1>2 DEF Sound, EntryAlone
<1> QED
  BY <1>1, <1>3 DEF Sound

LEMMA SoundWhenCleared ==
    ASSUME NEW o, NEW t \in Tracks, NEW ids, Sound(o, t, ids)
    PROVE  Sound(o, Cleared(t), ids)
BY DEF Sound, Tracked, EntryAlone, PendingNeedsPlan, Cleared, Tracks

\* A pass that goes on to the next fetch, or comes to its end.
LEMMA ResolvingFollowed ==
    ASSUME NEW o \in OrderTable, NEW t \in Tracks, NEW todo \in SUBSET Orders,
           NEW ids \in SUBSET Orders, Resolving(o, t, todo, ids),
           Sound(o, t, ids), \A c \in ids : o[c] \notin UnresolvedStates
    PROVE  Followed'
<1>1. CASE \E c \in {d \in todo : o[d] \in UnresolvedStates} :
              /\ ost' = [o EXCEPT ![c] = "reconciling"]
              /\ track' = t
              /\ loop' = [Waiting EXCEPT !.at = "fetch", !.order = c,
                                         !.todo = todo \ {c}, !.answered = ids]
  <2>1. PICK c \in todo :
              /\ o[c] \in UnresolvedStates
              /\ ost' = [o EXCEPT ![c] = "reconciling"]
              /\ track' = t
              /\ loop' = [Waiting EXCEPT !.at = "fetch", !.order = c,
                                         !.todo = todo \ {c}, !.answered = ids]
    BY <1>1
  <2>2. loop'.at = "fetch" /\ loop'.order = c /\ loop'.answered = ids
    BY <2>1 DEF Waiting
  <2>3. \A d \in Orders : ost'[d] \in UnresolvedStates <=> o[d] \in UnresolvedStates
    BY <2>1 DEF OrderTable, UnresolvedStates
  <2>4. Asked(ost', ids \cup {c}) = Asked(o, ids)
    BY <2>1, <2>3 DEF Asked
  <2>5. Sound(ost', t, ids \cup {c})
    BY <2>3, <2>4 DEF Sound, Tracked, EntryAlone
  <2>6. Asking' = ids \cup {c}
    BY <2>2 DEF Asking
  <2>7. Sound(ost', track', Asking')
    BY <2>1, <2>5, <2>6
  <2> QED
    BY <2>2, <2>3, <2>7 DEF Followed, Placed, AnsweredIsSettled
<1>2. CASE /\ ost' = o
           /\ \E t1 \in AfterAnswers(o, t, ids) :
                /\ track' = t1
                /\ loop' = IF Settled(o, t1) THEN [Waiting EXCEPT !.at = "settle"]
                           ELSE Waiting
  <2>1. track' \in AfterAnswers(o, t, ids) /\ loop'.at \in {"settle", "wait"}
    BY <1>2 DEF Waiting
  <2> DEFINE resumed == ResumedEntries(o, t, ids) # {}
             kept == [[t EXCEPT !.parked = @ \ ids] EXCEPT !.pending = PendingAfter(o, t, ids)]
  <2>2. Asking' = {}
    BY <2>1 DEF Asking
  <2>3. Sound(o, t, {})
    BY SoundWithLess
  <2>4. ASSUME NEW c \in Entries, o[c] \in UnresolvedStates PROVE c \in t.parked \ ids
    BY <2>4 DEF Sound, Tracked
  <2>5. ASSUME resumed PROVE ~t.plan /\ Unresolved(o) = {}
    <3>1. PICK c \in Entries : c \in ids
      BY <2>5 DEF ResumedEntries, Tracks
    <3>2. c \in Asked(o, ids)
      BY <3>1 DEF Asked
    <3>3. /\ ~t.plan
          /\ \A x \in Exits : o[x] \notin UnresolvedStates
          /\ \A d \in Asked(o, ids) : d = c
      BY <3>2 DEF Sound, EntryAlone
    <3>4. \A d \in Entries : o[d] \notin UnresolvedStates
      BY <3>1, <3>3 DEF Asked
    <3> QED
      BY <3>3, <3>4 DEF Unresolved
  <2>6. ExitIsFilled(o, t, ids) => t.plan
    <3>1. ASSUME ExitIsFilled(o, t, ids) PROVE t.pending # NothingPending
      BY <3>1 DEF ExitIsFilled, NothingPending
    <3> QED
      BY <3>1 DEF Sound, PendingNeedsPlan
  <2>7. CASE ExitIsFilled(o, t, ids)
    <3>1. track' = Cleared(kept)
      BY <2>1, <2>5, <2>6, <2>7 DEF AfterAnswers
    <3>2. track'.parked = t.parked \ ids /\ track'.plan = FALSE /\ track'.pending = NothingPending
      BY <3>1 DEF Cleared, Tracks
    <3>3. Sound(o, track', {})
      BY <2>3, <2>4, <3>2 DEF Sound, Tracked, EntryAlone, PendingNeedsPlan
    <3> QED
      BY <1>2, <2>1, <2>2, <3>3 DEF Followed, Placed, AnsweredIsSettled
  <2>8. CASE ~ExitIsFilled(o, t, ids)
    <3>1. track' = [kept EXCEPT !.plan = t.plan \/ resumed]
      BY <2>1, <2>8 DEF AfterAnswers
    <3>2. /\ track'.parked = t.parked \ ids /\ track'.plan = (t.plan \/ resumed)
          /\ track'.pending = PendingAfter(o, t, ids)
      BY <3>1 DEF Tracks
    <3>3. \A r \in Reasons : o[t.pending[r]] \in UnresolvedStates
                              => track'.pending[r] = t.pending[r]
      BY <3>2 DEF PendingAfter, RetryableStates, UnresolvedStates
    <3>4. Tracked(o, track')
      BY <2>3, <2>4, <2>5, <3>2, <3>3 DEF Sound, Tracked, Unresolved
    <3>5. EntryAlone(o, track', {})
      BY <2>3, <2>5, <3>2 DEF Sound, EntryAlone, Asked, Unresolved
    <3>6. PendingNeedsPlan(track')
      <4>1. t.pending = NothingPending => PendingAfter(o, t, ids) = NothingPending
        BY DEF PendingAfter, NothingPending
      <4> QED
        BY <2>3, <3>2, <4>1 DEF Sound, PendingNeedsPlan
    <3> QED
      BY <1>2, <2>1, <2>2, <3>4, <3>5, <3>6 DEF Followed, Sound, Placed, AnsweredIsSettled
  <2> QED
    BY <2>7, <2>8
<1> QED
  BY <1>1, <1>2 DEF Resolving

LEMMA ReconcileFollowed ==
    ASSUME NEW o \in OrderTable, NEW t \in Tracks, Reconcile(o, t), Sound(o, t, {})
    PROVE  Followed'
<1>1. Unresolved(o) \in SUBSET Orders
  BY DEF Unresolved
<1> QED
  BY <1>1, ResolvingFollowed DEF Reconcile

LEMMA AfterExitFollowed ==
    ASSUME NEW o \in OrderTable, NEW t \in Tracks, NEW halted, AfterExit(o, t, halted),
           Sound(o, t, {})
    PROVE  Followed'
<1>1. CASE Reconcile(o, t)
  BY <1>1, ReconcileFollowed
<1>2. CASE /\ ost' = o /\ track' = t
           /\ loop' = [Waiting EXCEPT !.at = "entryAccount", !.turn = "bar"]
  BY <1>2 DEF Followed, Placed, AnsweredIsSettled, Asking, Waiting
<1> QED
  BY <1>1, <1>2 DEF AfterExit

LEMMA SoundHere ==
    ASSUME Followed
    PROVE  Sound(ost, track, {})
BY SoundWithLess DEF Followed

LEMMA TurnStepFollowed == Typed /\ Followed /\ TurnStep => Followed'
<1> SUFFICES ASSUME Typed, Followed, TurnStep PROVE Followed'
  OBVIOUS
<1>1. ASSUME Reconcile(ost, track) PROVE Followed'
  BY <1>1, TypedParts, SoundHere, ReconcileFollowed
<1>2. ASSUME UNCHANGED <<ost, track>>, loop'.at \in {"exitPositions", "entryAccount"},
             loop'.at = "exitPositions" => track.plan
      PROVE  Followed'
  BY <1>2, SoundHere DEF Followed, Placed, AnsweredIsSettled, Asking
<1>3. CASE TickWithoutStop
  BY <1>1, <1>3 DEF TickWithoutStop
<1>4. CASE TickStop
  BY <1>2, <1>4 DEF TickStop, Waiting
<1>5. CASE BarWithoutExit
  BY <1>1, <1>2, <1>5 DEF BarWithoutExit, Waiting
<1>6. CASE BarExit
  BY <1>2, <1>6 DEF BarExit, Waiting
<1> QED
  BY <1>3, <1>4, <1>5, <1>6 DEF TurnStep

LEMMA ReconcileStepFollowed == Typed /\ Followed /\ ReconcileStep => Followed'
<1> SUFFICES ASSUME Typed, Followed, ReconcileStep PROVE Followed'
  OBVIOUS
<1>1. CASE FetchAnswers
  <2> DEFINE target == VenueOrderState(venue[loop.order])
             o == [ost EXCEPT ![loop.order] = target]
             ids == loop.answered \cup {loop.order}
  <2>1. loop.order \in Orders /\ ids \in SUBSET Orders
    BY <1>1, TypedParts DEF FetchAnswers, Typed, InPlace
  <2>2. target \in VenueFacingStates \ UnresolvedStates
    BY <2>1 DEF VenueOrderState, Typed, TypeOK, VenueStatuses, VenueFacingStates, UnresolvedStates
  <2>3. /\ o \in OrderTable
        /\ \A c \in Orders : o[c] \in UnresolvedStates => ost[c] \in UnresolvedStates
        /\ \A c \in ids : o[c] \notin UnresolvedStates
    BY <1>1, <2>1, <2>2, TypedParts DEF OrderTable, Followed, AnsweredIsSettled, FetchAnswers
  <2>4. Sound(ost, track, ids)
    BY <1>1 DEF Followed, Asking, FetchAnswers
  <2>5. Resolving(o, track, loop.todo, ids)
    BY <1>1 DEF FetchAnswers
  <2> HIDE DEF o, ids
  <2>6. Sound(o, track, ids)
    BY <2>3, <2>4, SoundWithLess
  <2> QED
    BY <2>1, <2>3, <2>5, <2>6, TypedParts, ResolvingFollowed
<1>2. CASE FetchUnmappable
  <2>1. Sound(ost, track, loop.answered)
    BY <1>2, SoundWithLess DEF Followed, Asking, FetchUnmappable
  <2> QED
    BY <1>2, <2>1, TypedParts, ResolvingFollowed DEF FetchUnmappable, Followed, AnsweredIsSettled
<1>3. ASSUME ost' = ost, track' \in {track, Cleared(track)}, loop'.at \in {"wait", "diverge"}
      PROVE  Followed'
  <2>1. Sound(ost', track', {})
    BY <1>3, SoundHere, SoundWhenCleared, TypedParts
  <2> QED
    BY <1>3, <2>1 DEF Followed, Placed, AnsweredIsSettled, Asking
<1>4. CASE FetchRaises \/ PositionsMismatch \/ FlatAndAgreed \/ HeldSomewhere \/ SettleReadFails
            \/ PlanAgreed \/ PlanDiverges
  <2>1. ost' = ost /\ track' \in {track, Cleared(track)}
    BY <1>4 DEF FetchRaises, PositionsMismatch, FlatAndAgreed, HeldSomewhere, SettleReadFails,
       PlanAgreed, PlanDiverges
  <2>2. loop' \in {Waiting, [Waiting EXCEPT !.at = "diverge"]}
    BY <1>4 DEF FetchRaises, PositionsMismatch, FlatAndAgreed, HeldSomewhere, SettleReadFails,
       PlanAgreed, PlanDiverges
  <2>3. loop'.at \in {"wait", "diverge"}
    BY <2>2 DEF Waiting
  <2> QED
    BY <1>3, <2>1, <2>3
<1> QED
  BY <1>1, <1>2, <1>4 DEF ReconcileStep

\* What was pending under this turn's key is out of doubt when it is popped.
LEMMA SoundWhenPopped ==
    ASSUME Typed, Followed, ~ExitInDoubt
    PROVE  Sound(ost, Popped, {})
<1>1. Sound(ost, track, {})
  BY SoundHere
<1>2. /\ Popped.plan = track.plan /\ Popped.parked = track.parked
      /\ \A r \in Reasons : Popped.pending[r] = IF r = loop.turn THEN NoOrder ELSE track.pending[r]
  BY DEF Popped, Typed, TypeOK, Tracks
<1>3. Tracked(ost, Popped)
  BY <1>1, <1>2 DEF Sound, Tracked, ExitInDoubt
<1>4. track.pending = NothingPending => Popped.pending = NothingPending
  BY DEF Popped, NothingPending, Typed, TypeOK, Tracks
<1> QED
  BY <1>1, <1>2, <1>3, <1>4 DEF Sound, EntryAlone, PendingNeedsPlan

LEMMA ExitStepFollowed == Typed /\ Followed /\ ExitStep => Followed'
<1> SUFFICES ASSUME Typed, Followed, ExitStep PROVE Followed'
  OBVIOUS
<1>1. ASSUME NEW t \in Tracks, NEW halted, AfterExit(ost, t, halted), Sound(ost, t, {})
      PROVE  Followed'
  BY <1>1, TypedParts, AfterExitFollowed
<1>2. CASE ExitPositionsFail \/ ExitAccountFails \/ ExitWaits
  BY <1>1, <1>2, TypedParts, SoundHere DEF ExitPositionsFail, ExitAccountFails, ExitWaits
<1>3. CASE ExitFindsFlat
  BY <1>1, <1>3, TypedParts, ClearedTyped, SoundHere, SoundWhenCleared DEF ExitFindsFlat
<1>4. CASE ExitRefused
  BY <1>1, <1>4, PoppedTyped, SoundWhenPopped DEF ExitRefused
<1>5. CASE ExitFindsPosition
  <2>1. loop.at = "exitPositions" /\ loop'.at = "exitAccount" /\ UNCHANGED <<ost, track>>
    BY <1>5 DEF ExitFindsPosition, Typed, TypeOK
  <2> QED
    BY <2>1, SoundHere DEF Followed, Placed, AnsweredIsSettled, Asking
<1>6. ASSUME NEW c \in Exits, SendExit(c) PROVE Followed'
  <2>1. /\ loop.at = "exitAccount" /\ ~ExitInDoubt /\ track' = Popped
        /\ ost' = [ost EXCEPT ![c] = "submitting"]
        /\ loop'.at = "submit" /\ loop'.order = c /\ loop'.turn = loop.turn
    BY <1>6 DEF SendExit, Typed, TypeOK
  <2>2. \A d \in Orders : ost'[d] \in UnresolvedStates => ost[d] \in UnresolvedStates
    BY <2>1 DEF UnresolvedStates, Typed, TypeOK
  <2>3. Sound(ost', track', {})
    BY <2>1, <2>2, SoundWhenPopped, SoundWithLess
  <2>4. track'.plan = track.plan /\ track'.pending[loop.turn] = NoOrder
    BY <2>1 DEF Popped, Typed, TypeOK, Tracks
  <2> QED
    BY <2>1, <2>3, <2>4 DEF Followed, Placed, AnsweredIsSettled, Asking
<1> QED
  BY <1>2, <1>3, <1>4, <1>5, <1>6 DEF ExitStep

LEMMA EntryStepFollowed == Typed /\ Followed /\ Admitted /\ EntryStep => Followed'
<1> SUFFICES ASSUME Typed, Followed, Admitted, EntryStep PROVE Followed'
  OBVIOUS
<1>1. CASE EntryAccountFails \/ EntryRefused
  BY <1>1, TypedParts, SoundHere, ReconcileFollowed DEF EntryAccountFails, EntryRefused
<1>2. ASSUME NEW c \in Entries, SendEntry(c) PROVE Followed'
  <2>1. /\ loop.at = "entryAccount" /\ track' = track /\ ~track.plan /\ Unresolved(ost) = {}
        /\ ost' = [ost EXCEPT ![c] = "submitting"]
        /\ loop'.at = "submit" /\ loop'.order = c
    BY <1>2 DEF SendEntry, Admitted, Typed, TypeOK
  <2>2. Unresolved(ost') = {} /\ \A d \in Orders : ost'[d] \notin UnresolvedStates
    BY <2>1 DEF Unresolved, UnresolvedStates, Typed, TypeOK
  <2>3. Sound(ost', track', {})
    BY <2>1, <2>2, SoundHere, SoundWithLess
  <2> QED
    BY <2>1, <2>2, <2>3 DEF Followed, Placed, AnsweredIsSettled, Asking, Unresolved
<1> QED
  BY <1>1, <1>2 DEF EntryStep

\* The answer of an entry's submit call: in doubt and parked, or out of doubt.
LEMMA EntrySubmitSound ==
    ASSUME Typed, Followed, loop.at = "submit", loop.order \in Entries,
           NEW s \in (VenueFacingStates \cup {"none"}) \ {"reconciling"}
    PROVE  Sound([ost EXCEPT ![loop.order] = s], AfterEntrySubmit(loop.order, s), {})
<1> DEFINE o == [ost EXCEPT ![loop.order] = s]
           t == AfterEntrySubmit(loop.order, s)
<1>1. /\ ~track.plan /\ \A c \in Orders : ost[c] \notin UnresolvedStates
      /\ track.pending = NothingPending
  BY DEF Followed, Placed, Sound, PendingNeedsPlan, Unresolved
<1>2. \A c \in Orders : o[c] \in UnresolvedStates => c = loop.order /\ s = "timeout_unknown"
  BY <1>1 DEF UnresolvedStates, Typed, TypeOK
<1>3. t.pending = track.pending
  BY DEF AfterEntrySubmit, Typed, TypeOK, Tracks
<1>4. s = "timeout_unknown" => t.plan = track.plan /\ t.parked = track.parked \cup {loop.order}
  BY DEF AfterEntrySubmit, Typed, TypeOK, Tracks
<1> HIDE DEF o, t
<1>5. Tracked(o, t)
  BY <1>1, <1>2, <1>4 DEF Tracked
<1>6. EntryAlone(o, t, {})
  BY <1>1, <1>2, <1>4 DEF EntryAlone, Asked
<1>7. PendingNeedsPlan(t)
  BY <1>1, <1>3 DEF PendingNeedsPlan
<1>8. Sound(o, t, {})
  BY <1>5, <1>6, <1>7 DEF Sound
<1> QED
  BY <1>8 DEF o, t

LEMMA ExitSubmitSound ==
    ASSUME Typed, Followed, loop.at = "submit", loop.order \in Exits,
           NEW s \in VenueFacingStates \cup {"none"}
    PROVE  Sound([ost EXCEPT ![loop.order] = s], AfterExitSubmit(loop.order, s), {})
<1> DEFINE o == [ost EXCEPT ![loop.order] = s]
           t == AfterExitSubmit(loop.order, s)
<1>1. track.plan /\ track.pending[loop.turn] = NoOrder /\ Sound(ost, track, {})
  BY SoundHere DEF Followed, Placed
<1>2. \A c \in Entries : ost[c] \notin UnresolvedStates
  BY <1>1 DEF Sound, EntryAlone, Asked
<1>3. \A c \in Orders : c # loop.order => o[c] = ost[c]
  BY DEF Typed, TypeOK
<1>4. o[loop.order] = s
  BY DEF Typed, TypeOK
<1>5. \A c \in Entries : o[c] \notin UnresolvedStates
  BY <1>2, <1>3
<1>6. EntryAlone(o, t, {})
  BY <1>5 DEF EntryAlone, Asked
<1>7. CASE s = "filled"
  <2>1. t.plan = FALSE /\ t.pending = NothingPending
    <3>1. t = Cleared(track)
      BY <1>7 DEF AfterExitSubmit, UnresolvedStates
    <3> HIDE DEF t
    <3> QED
      BY <3>1 DEF Cleared, Typed, TypeOK, Tracks
  <2> HIDE DEF o, t
  <2>2. Sound(o, t, {})
    BY <1>5, <1>6, <2>1 DEF Sound, Tracked, PendingNeedsPlan
  <2> QED
    BY <2>2 DEF o, t
<1>8. CASE s \in {"acknowledged", "partially_filled"} \cup UnresolvedStates
  <2>1. t.plan = TRUE /\ t.pending = [track.pending EXCEPT ![loop.turn] = loop.order]
    BY <1>1, <1>8 DEF AfterExitSubmit, UnresolvedStates, Typed, TypeOK, Tracks
  <2>2. \A c \in Exits : o[c] \in UnresolvedStates => \E r \in Reasons : t.pending[r] = c
    <3> SUFFICES ASSUME NEW c \in Exits, o[c] \in UnresolvedStates
                 PROVE  \E r \in Reasons : t.pending[r] = c
      OBVIOUS
    <3>1. loop.turn \in Reasons /\ track.pending \in [Reasons -> Exits \cup {NoOrder, PastOrder}]
      BY DEF Typed, TypeOK, Tracks
    <3>2. CASE c = loop.order
      BY <2>1, <3>1, <3>2
    <3>3. CASE c # loop.order
      <4>1. ost[c] \in UnresolvedStates
        BY <1>3, <3>3
      <4>2. PICK r \in Reasons : track.pending[r] = c
        BY <1>1, <4>1 DEF Sound, Tracked
      <4>3. r # loop.turn
        BY <1>1, <4>2
      <4> QED
        BY <2>1, <3>1, <4>2, <4>3
    <3> QED
      BY <3>2, <3>3
  <2> HIDE DEF o, t
  <2>3. Sound(o, t, {})
    BY <1>5, <1>6, <2>1, <2>2 DEF Sound, Tracked, PendingNeedsPlan
  <2> QED
    BY <2>3 DEF o, t
<1>9. CASE s # "filled" /\ s \notin {"acknowledged", "partially_filled"} \cup UnresolvedStates
  <2>1. t = track
    BY <1>9 DEF AfterExitSubmit
  <2>2. \A c \in Orders : o[c] \in UnresolvedStates => ost[c] \in UnresolvedStates
    BY <1>3, <1>4, <1>9
  <2> HIDE DEF o, t
  <2>3. Sound(o, t, {})
    BY <1>1, <2>1, <2>2, SoundWithLess
  <2> QED
    BY <2>3 DEF o, t
<1> QED
  BY <1>7, <1>8, <1>9

LEMMA SubmitStepFollowed == Typed /\ Followed /\ SubmitStep => Followed'
<1> SUFFICES ASSUME Typed, Followed, SubmitStep PROVE Followed'
  OBVIOUS
<1>1. loop.at = "submit" /\ loop.order \in Orders
  BY DEF SubmitStep, SubmitReturns, SubmitRejected, SubmitTimesOut, SubmitRaises, Typed, InPlace
<1>2. ASSUME NEW s \in VenueFacingStates \cup {"none"}, SubmitEnds(s),
             loop.order \in Entries => s # "reconciling"
      PROVE  Followed'
  <2> DEFINE o == [ost EXCEPT ![loop.order] = s]
  <2>1. o \in OrderTable
    BY <1>1, TypedParts DEF OrderTable
  <2>2. CASE loop.order \in Entries
    <3>1. Reconcile(o, AfterEntrySubmit(loop.order, s)) /\ Sound(o, AfterEntrySubmit(loop.order, s), {})
      BY <1>1, <1>2, <2>2, EntrySubmitSound DEF SubmitEnds
    <3>2. AfterEntrySubmit(loop.order, s) \in Tracks
      BY <2>2, TypedParts DEF AfterEntrySubmit, Tracks
    <3> HIDE DEF o
    <3> QED
      BY <2>1, <3>1, <3>2, ReconcileFollowed
  <2>3. CASE loop.order \in Exits
    <3>1. AfterExit(o, AfterExitSubmit(loop.order, s), halt) /\ Sound(o, AfterExitSubmit(loop.order, s), {})
      BY <1>1, <1>2, <2>3, ExitSubmitSound DEF SubmitEnds
    <3>2. AfterExitSubmit(loop.order, s) \in Tracks
      BY <2>3, TypedParts, ClearedTyped DEF AfterExitSubmit, LoopStates, Tracks
    <3> HIDE DEF o
    <3> QED
      BY <2>1, <3>1, <3>2, AfterExitFollowed
  <2> QED
    BY <1>1, <2>2, <2>3
<1>3. CASE SubmitReturns
  <2>1. PICK s \in {"acknowledged", ost[loop.order]} : SubmitEnds(s)
    BY <1>3 DEF SubmitReturns
  <2>2. loop.order \in Entries => ost[loop.order] # "reconciling"
    BY <1>1 DEF Followed, Placed, Unresolved, UnresolvedStates
  <2> QED
    BY <1>1, <1>2, <2>1, <2>2, TypedParts DEF OrderTable, VenueFacingStates
<1>4. CASE SubmitRejected
  BY <1>2, <1>4 DEF SubmitRejected, VenueFacingStates
<1>5. CASE SubmitTimesOut
  BY <1>2, <1>5 DEF SubmitTimesOut, VenueFacingStates
<1>6. CASE SubmitRaises
  <2>1. CASE Reconcile(ost, track)
    BY <2>1, TypedParts, SoundHere, ReconcileFollowed
  <2>2. CASE /\ loop' = [Waiting EXCEPT !.at = "dead"]
             /\ UNCHANGED <<ost, track>>
    <3>1. loop'.at = "dead"
      BY <2>2 DEF Waiting
    <3> QED
      BY <2>2, <3>1, SoundHere DEF Followed, Placed, AnsweredIsSettled, Asking
  <2> QED
    BY <1>6, <2>1, <2>2 DEF SubmitRaises
<1> QED
  BY <1>3, <1>4, <1>5, <1>6 DEF SubmitStep

LEMMA RetireFollowed ==
    ASSUME Typed, Followed, NEW c \in Orders, Retire(c)
    PROVE  Followed'
<1>1. /\ loop' = loop /\ ost[c] \notin UnresolvedStates /\ ost' = [ost EXCEPT ![c] = "none"]
      /\ track' = [plan |-> track.plan,
                   parked |-> {IF p = c THEN PastOrder ELSE p : p \in track.parked},
                   pending |-> [r \in Reasons |-> IF track.pending[r] = c THEN PastOrder
                                                  ELSE track.pending[r]]]
  BY DEF Retire
<1>2. \A d \in Orders : ost'[d] \in UnresolvedStates => ost[d] \in UnresolvedStates /\ d # c
  BY <1>1 DEF UnresolvedStates, Typed, TypeOK
<1>3. \A d \in Orders : d # c /\ d \in track.parked => d \in track'.parked
  BY <1>1
<1>4. \A r \in Reasons : track.pending[r] # c => track'.pending[r] = track.pending[r]
  BY <1>1
<1>5. Sound(ost', track, Asking)
  BY <1>2, SoundWithLess DEF Followed
<1>6. Tracked(ost', track')
  BY <1>1, <1>2, <1>3, <1>4, <1>5 DEF Sound, Tracked
<1>7. track.pending = NothingPending => track'.pending = NothingPending
  BY <1>1 DEF NothingPending
<1>8. Sound(ost', track', Asking)
  BY <1>1, <1>5, <1>6, <1>7 DEF Sound, EntryAlone, PendingNeedsPlan
<1>9. Placed'
  <2>1. loop.turn \in Reasons
    BY DEF Typed, TypeOK
  <2>2. track.pending[loop.turn] = NoOrder => track'.pending[loop.turn] = NoOrder
    BY <1>4, <2>1
  <2>3. Unresolved(ost) = {} => Unresolved(ost') = {}
    BY <1>2 DEF Unresolved
  <2> QED
    BY <1>1, <2>2, <2>3 DEF Followed, Placed
<1>10. AnsweredIsSettled'
  BY <1>1, <1>2, TypedParts DEF Followed, AnsweredIsSettled
<1> QED
  BY <1>1, <1>8, <1>9, <1>10 DEF Followed, Asking

LEMMA OthersFollowed ==
    ASSUME Typed, Followed,
           VenueStep \/ (\E c \in Orders : StreamOrder(c)) \/ UNCHANGED vars
    PROVE  Followed'
<1>1. UNCHANGED <<track, loop>>
  BY DEF VenueStep, VenueAccepts, VenueFills, VenueEnds, ExternalClose, OtherSymbol, StreamOrder
<1>2. \A d \in Orders : ost'[d] \in UnresolvedStates => ost[d] \in UnresolvedStates
  BY OthersKeep DEF Unresolved
<1>3. Sound(ost', track, Asking)
  BY <1>2, SoundWithLess DEF Followed
<1> QED
  BY <1>1, <1>2, <1>3, TypedParts DEF Followed, Placed, AnsweredIsSettled, Asking, Unresolved

\* The whole inductive invariant of the session.
SessionInv == Typed /\ Judged /\ Admitted /\ Followed

LEMMA SessionInvariant == Spec => []SessionInv
<1>1. Init => Followed
  BY DEF Init, Followed, Sound, Tracked, EntryAlone, Asked, PendingNeedsPlan, Placed,
     AnsweredIsSettled, Asking, Waiting, UnresolvedStates
<1>2. Typed /\ Admitted /\ Followed /\ [Next]_vars => Followed'
  <2>1. Typed /\ Admitted /\ Followed /\ LoopStep => Followed'
    BY TurnStepFollowed, ReconcileStepFollowed, ExitStepFollowed, EntryStepFollowed,
       SubmitStepFollowed DEF LoopStep, TurnStep
  <2> QED
    BY <2>1, OthersFollowed, RetireFollowed DEF Next
<1> QED
  BY JudgedInvariant, <1>1, <1>2, PTL DEF Spec, SessionInv

\* Nothing of unknown fate is lost from sight: an entry in doubt stays parked, and an
\* exit in doubt stays pending while its trade is open, whatever passes fail, whatever
\* the stream resolves meanwhile, and however many exits the trade has sent.
THEOREM DoubtTracked == Spec => []DoubtIsTracked
<1>1. SessionInv => DoubtIsTracked
  BY DEF SessionInv, Followed, Sound, Tracked, DoubtIsTracked
<1> QED
  BY SessionInvariant, <1>1, PTL

-------------------------------------------------------------------------------
(* Legal transitions. *)

\* An event of the private stream moves an order along the table, whatever it reports.
LEMMA StreamFollowsTable ==
    ASSUME NEW s \in VenueFacingStates, NEW target \in VenueFacingStates,
           StreamResult(s, target) # s
    PROVE  LegalRoute(s, StreamResult(s, target))
<1>1. StreamResult(s, target) = target /\ s # target
  BY DEF StreamResult
<1>2. s \notin TerminalStates /\ Legal(StreamStagingState(s, target), target)
  BY <1>1 DEF StreamResult, StreamApplies
<1>3. CASE s = "timeout_unknown"
  BY <1>1, <1>2, <1>3 DEF StreamStagingState, AfterTimeout, LegalRoute
<1>4. CASE s = "submitting"
  BY <1>1, <1>2, <1>4 DEF StreamStagingState, AfterTimeout, LegalRoute
<1>5. CASE s \notin {"timeout_unknown", "submitting"}
  <2>1. AfterTimeout(s) = s
    BY <1>5 DEF AfterTimeout
  <2>2. CASE target = "cancelled" /\ s \in {"acknowledged", "partially_filled"}
    BY <1>1, <2>2 DEF LegalRoute, Legal, LegalTransitions
  <2>3. CASE ~(target = "cancelled" /\ s \in {"acknowledged", "partially_filled"})
    <3>1. StreamStagingState(s, target) = s
      BY <1>5, <2>1, <2>3 DEF StreamStagingState
    <3> QED
      BY <1>1, <1>2, <3>1 DEF LegalRoute
  <2> QED
    BY <2>2, <2>3
<1> QED
  BY <1>3, <1>4, <1>5

\* While the submit call is under way the order is where the manager put it, or where
\* the stream, of an order the venue has, took it: in no other case is there something
\* that the end of the call could contradict.
InCall ==
    loop.at = "submit" =>
        /\ ost[loop.order] \in {"submitting", "acknowledged", "partially_filled", "filled",
                                "cancelled"}
        /\ ost[loop.order] # "submitting" => venue[loop.order] # "absent"

\* OrdersFollowTheTable, of one step.
FollowsTable ==
    \A c \in Orders :
        ost[c] # "none" /\ ost'[c] \notin {ost[c], "none"} => LegalRoute(ost[c], ost'[c])

\* A pass that starts from the orders o begins to reconcile at most one of them.
PassFrom(o) ==
    \A d \in Orders :
        ost'[d] = o[d] \/ (o[d] \in UnresolvedStates /\ ost'[d] = "reconciling")

LEMMA ResolvingPass ==
    ASSUME NEW o \in OrderTable, NEW t, NEW todo, NEW ids, Resolving(o, t, todo, ids)
    PROVE  PassFrom(o) /\ loop'.at # "submit"
<1>1. PassFrom(o)
  BY DEF Resolving, PassFrom, OrderTable
<1> QED
  BY <1>1, ResolvingLands

LEMMA AfterExitPass ==
    ASSUME NEW o \in OrderTable, NEW t, NEW halted, AfterExit(o, t, halted)
    PROVE  PassFrom(o) /\ loop'.at # "submit"
<1>1. PassFrom(o)
  BY ResolvingPass DEF AfterExit, Reconcile, PassFrom
<1> QED
  BY <1>1, AfterExitLands

LEMMA PassFromHere ==
    ASSUME Typed, PassFrom(ost)
    PROVE  FollowsTable
<1>1. Legal("timeout_unknown", "reconciling")
  BY DEF Legal, LegalTransitions
<1> QED
  BY <1>1 DEF PassFrom, FollowsTable, LegalRoute, UnresolvedStates

LEMMA NoChangeFollows ==
    ASSUME UNCHANGED ost
    PROVE  FollowsTable
BY DEF FollowsTable

LEMMA TurnStepOnTable == Typed /\ TurnStep => FollowsTable /\ loop'.at # "submit"
<1> SUFFICES ASSUME Typed, TurnStep PROVE FollowsTable /\ loop'.at # "submit"
  OBVIOUS
<1>1. CASE Reconcile(ost, track)
  BY <1>1, TypedParts, ResolvingPass, PassFromHere DEF Reconcile
<1>2. CASE ~Reconcile(ost, track)
  <2>1. UNCHANGED ost /\ loop'.at \in {"entryAccount", "exitPositions"}
    BY <1>2 DEF TurnStep, TickWithoutStop, TickStop, BarWithoutExit, BarExit, Waiting
  <2> QED
    BY <2>1, NoChangeFollows
<1> QED
  BY <1>1, <1>2

LEMMA ReconcileStepOnTable == Typed /\ ReconcileStep => FollowsTable /\ loop'.at # "submit"
<1> SUFFICES ASSUME Typed, ReconcileStep PROVE FollowsTable /\ loop'.at # "submit"
  OBVIOUS
<1>1. CASE FetchAnswers
  <2> DEFINE target == VenueOrderState(venue[loop.order])
             o == [ost EXCEPT ![loop.order] = target]
  <2>1. loop.order \in Orders /\ Legal(ost[loop.order], target)
    BY <1>1 DEF FetchAnswers, Typed, InPlace
  <2>2. target \in VenueFacingStates \ UnresolvedStates
    BY <2>1 DEF VenueOrderState, Typed, TypeOK, VenueStatuses, VenueFacingStates,
       UnresolvedStates
  <2>3. o \in OrderTable /\ Resolving(o, track, loop.todo, loop.answered \cup {loop.order})
    BY <1>1, <2>1, <2>2, TypedParts DEF OrderTable, FetchAnswers
  <2>4. PassFrom(o) /\ loop'.at # "submit"
    BY <2>3, ResolvingPass
  <2>5. ost'[loop.order] = target
    BY <2>1, <2>2, <2>4, TypedParts DEF PassFrom, OrderTable
  <2>6. \A d \in Orders \ {loop.order} :
            ost'[d] = ost[d] \/ (ost[d] \in UnresolvedStates /\ ost'[d] = "reconciling")
    BY <2>4, TypedParts DEF PassFrom, OrderTable
  <2>7. Legal("timeout_unknown", "reconciling")
    BY DEF Legal, LegalTransitions
  <2> QED
    BY <2>1, <2>4, <2>5, <2>6, <2>7 DEF FollowsTable, LegalRoute, UnresolvedStates
<1>2. CASE FetchUnmappable
  BY <1>2, TypedParts, ResolvingPass, PassFromHere DEF FetchUnmappable
<1>3. CASE \/ FetchRaises \/ PositionsMismatch \/ FlatAndAgreed \/ HeldSomewhere
           \/ SettleReadFails \/ PlanAgreed \/ PlanDiverges
  <2>1. UNCHANGED ost /\ loop'.at \in {"wait", "diverge"}
    BY <1>3 DEF FetchRaises, PositionsMismatch, FlatAndAgreed, HeldSomewhere, SettleReadFails,
       PlanAgreed, PlanDiverges, Waiting
  <2> QED
    BY <2>1, NoChangeFollows
<1> QED
  BY <1>1, <1>2, <1>3 DEF ReconcileStep

\* A new order goes out: its state before was "none".
LEMMA SentOnTable ==
    ASSUME Typed, NEW c \in Orders, ost[c] = "none", ost' = [ost EXCEPT ![c] = "submitting"],
           loop'.order = c
    PROVE  FollowsTable /\ InCall'
<1>1. ost'[c] = "submitting" /\ \A d \in Orders \ {c} : ost'[d] = ost[d]
  BY DEF Typed, TypeOK
<1> QED
  BY <1>1 DEF FollowsTable, InCall

LEMMA ExitStepOnTable == Typed /\ ExitStep => FollowsTable /\ InCall'
<1> SUFFICES ASSUME Typed, ExitStep PROVE FollowsTable /\ InCall'
  OBVIOUS
<1>1. ASSUME NEW t, NEW halted, AfterExit(ost, t, halted) PROVE FollowsTable /\ InCall'
  BY <1>1, TypedParts, AfterExitPass, PassFromHere DEF InCall
<1>2. CASE ExitFindsPosition
  <2>1. UNCHANGED ost /\ loop'.at = "exitAccount"
    BY <1>2 DEF ExitFindsPosition, Typed, TypeOK
  <2> QED
    BY <2>1, NoChangeFollows DEF InCall
<1>3. ASSUME NEW c \in Exits, SendExit(c) PROVE FollowsTable /\ InCall'
  <2>1. loop'.order = c
    BY <1>3 DEF SendExit, Typed, TypeOK
  <2> QED
    BY <1>3, <2>1, SentOnTable DEF SendExit, Fresh
<1> QED
  BY <1>1, <1>2, <1>3 DEF ExitStep, ExitPositionsFail, ExitFindsFlat, ExitAccountFails,
     ExitWaits, ExitRefused

LEMMA EntryStepOnTable == Typed /\ EntryStep => FollowsTable /\ InCall'
<1> SUFFICES ASSUME Typed, EntryStep PROVE FollowsTable /\ InCall'
  OBVIOUS
<1>1. CASE EntryAccountFails \/ EntryRefused
  <2>1. Resolving(ost, track, Unresolved(ost), {})
    BY <1>1 DEF EntryAccountFails, EntryRefused, Reconcile
  <2> QED
    BY <2>1, TypedParts, ResolvingPass, PassFromHere DEF InCall
<1>2. ASSUME NEW c \in Entries, SendEntry(c) PROVE FollowsTable /\ InCall'
  <2>1. loop'.order = c /\ ost[c] = "none" /\ ost' = [ost EXCEPT ![c] = "submitting"]
    BY <1>2 DEF SendEntry, Fresh, Typed, TypeOK
  <2> QED
    BY <2>1, SentOnTable
<1> QED
  BY <1>1, <1>2 DEF EntryStep

LEMMA SubmitStepOnTable == Typed /\ InCall /\ SubmitStep => FollowsTable /\ loop'.at # "submit"
<1> SUFFICES ASSUME Typed, InCall, SubmitStep PROVE FollowsTable /\ loop'.at # "submit"
  OBVIOUS
<1>1. /\ loop.at = "submit" /\ loop.order \in Orders
      /\ ost[loop.order] \in {"submitting", "acknowledged", "partially_filled", "filled",
                              "cancelled"}
      /\ ost[loop.order] # "submitting" => venue[loop.order] # "absent"
  BY DEF SubmitStep, SubmitReturns, SubmitRejected, SubmitTimesOut, SubmitRaises, Typed,
         InPlace, InCall
<1>2. ASSUME NEW s \in VenueFacingStates, SubmitEnds(s),
             s = ost[loop.order] \/ (/\ ost[loop.order] = "submitting"
                                     /\ s \in {"acknowledged", "rejected", "timeout_unknown"})
      PROVE  FollowsTable /\ loop'.at # "submit"
  <2> DEFINE o == [ost EXCEPT ![loop.order] = s]
  <2>1. o \in OrderTable
    BY TypedParts DEF OrderTable
  <2>2. PassFrom(o) /\ loop'.at # "submit"
    BY <1>2, <2>1, ResolvingPass, AfterExitPass DEF SubmitEnds, Reconcile
  <2>3. ost'[loop.order] = s \/ (s \in UnresolvedStates /\ ost'[loop.order] = "reconciling")
    BY <1>1, <2>2, TypedParts DEF PassFrom, OrderTable
  <2>4. \A d \in Orders \ {loop.order} :
            ost'[d] = ost[d] \/ (ost[d] \in UnresolvedStates /\ ost'[d] = "reconciling")
    BY <2>2, TypedParts DEF PassFrom, OrderTable
  <2>5. /\ Legal("timeout_unknown", "reconciling") /\ Legal("submitting", "acknowledged")
        /\ Legal("submitting", "rejected") /\ Legal("submitting", "timeout_unknown")
    BY DEF Legal, LegalTransitions
  <2>6. ost'[loop.order] # ost[loop.order] => LegalRoute(ost[loop.order], ost'[loop.order])
    BY <1>1, <1>2, <2>3, <2>5 DEF LegalRoute, UnresolvedStates
  <2> QED
    BY <2>2, <2>4, <2>5, <2>6 DEF FollowsTable, LegalRoute, UnresolvedStates
<1>3. CASE SubmitReturns
  BY <1>1, <1>2, <1>3 DEF SubmitReturns, VenueFacingStates
<1>4. CASE SubmitRejected
  BY <1>1, <1>2, <1>4 DEF SubmitRejected, VenueFacingStates
<1>5. CASE SubmitTimesOut
  BY <1>1, <1>2, <1>5 DEF SubmitTimesOut, VenueFacingStates
<1>6. CASE SubmitRaises
  <2>1. CASE Reconcile(ost, track)
    BY <2>1, TypedParts, ResolvingPass, PassFromHere DEF Reconcile
  <2>2. CASE loop' = [Waiting EXCEPT !.at = "dead"] /\ UNCHANGED ost
    BY <2>2, NoChangeFollows DEF Waiting
  <2> QED
    BY <1>6, <2>1, <2>2 DEF SubmitRaises
<1> QED
  BY <1>3, <1>4, <1>5, <1>6 DEF SubmitStep

LEMMA StreamOnTable ==
    ASSUME Typed, InCall, NEW c \in Orders, StreamOrder(c)
    PROVE  FollowsTable /\ InCall'
<1>1. PICK v \in StreamStatuses(c) : ost' = [ost EXCEPT ![c] = StreamResult(@, VenueOrderState(v))]
  BY DEF StreamOrder
<1>2. /\ ost[c] \in VenueFacingStates /\ venue[c] # "absent"
      /\ VenueOrderState(v) \in {"acknowledged", "partially_filled", "filled", "cancelled"}
      /\ UNCHANGED <<loop, venue>>
  BY <1>1 DEF StreamOrder, StreamStatuses, VenueOrderState, VenueStatuses, Typed, TypeOK
<1>3. ost'[c] # ost[c] => LegalRoute(ost[c], ost'[c])
  BY <1>1, <1>2, StreamFollowsTable DEF VenueFacingStates, Typed, TypeOK
<1>4. ost'[c] \in {ost[c], "acknowledged", "partially_filled", "filled", "cancelled"}
  BY <1>1, <1>2 DEF StreamResult, Typed, TypeOK
<1>5. \A d \in Orders \ {c} : ost'[d] = ost[d]
  BY <1>1 DEF Typed, TypeOK
<1>6. FollowsTable
  BY <1>3, <1>5 DEF FollowsTable
<1>7. loop.at = "submit" => loop.order \in Orders
  BY DEF Typed, InPlace
<1> QED
  BY <1>2, <1>4, <1>5, <1>6, <1>7 DEF InCall

LEMMA RetireOnTable ==
    ASSUME Typed, InCall, NEW c \in Orders, Retire(c)
    PROVE  FollowsTable /\ InCall'
<1>1. /\ ost' = [ost EXCEPT ![c] = "none"] /\ venue' = [venue EXCEPT ![c] = "absent"]
      /\ loop' = loop /\ c # loop.order
  BY DEF Retire, ReadAgain
<1>2. /\ ost'[c] = "none"
      /\ \A d \in Orders \ {c} : ost'[d] = ost[d] /\ venue'[d] = venue[d]
  BY <1>1 DEF Typed, TypeOK
<1>3. loop.at = "submit" => loop.order \in Orders
  BY DEF Typed, InPlace
<1> QED
  BY <1>1, <1>2, <1>3 DEF FollowsTable, InCall

LEMMA VenueOnTable ==
    ASSUME Typed, InCall, VenueStep \/ UNCHANGED vars
    PROVE  FollowsTable /\ InCall'
<1>1. UNCHANGED <<ost, loop>>
  BY DEF VenueStep, VenueAccepts, VenueFills, VenueEnds, ExternalClose, OtherSymbol
<1>2. \A d \in Orders : venue[d] # "absent" => venue'[d] # "absent"
  BY DEF VenueStep, VenueAccepts, VenueFills, VenueEnds, ExternalClose, OtherSymbol, Typed, TypeOK
<1>3. loop.at = "submit" => loop.order \in Orders
  BY DEF Typed, InPlace
<1> QED
  BY <1>1, <1>2, <1>3, NoChangeFollows DEF InCall

\* Every change of an order is one the whitelist allows, whichever of the submit call,
\* the private stream and the reconciler is faster: IllegalTransition leaves the order
\* manager only where the model says so, and an order that has ended stays as it ended.
THEOREM TransitionsAreLegal == Spec => OrdersFollowTheTable
<1>1. Init => InCall
  BY DEF Init, InCall, Waiting
<1>2. Typed /\ InCall /\ [Next]_vars => FollowsTable /\ InCall'
  <2>1. Typed /\ InCall /\ LoopStep => FollowsTable /\ InCall'
    BY TurnStepOnTable, ReconcileStepOnTable, ExitStepOnTable, EntryStepOnTable,
       SubmitStepOnTable DEF LoopStep, TurnStep, InCall
  <2> QED
    BY <2>1, StreamOnTable, RetireOnTable, VenueOnTable DEF Next
<1>3. Typed /\ InCall /\ [Next]_vars
      => [\A c \in Orders :
             ost[c] # "none" /\ ost'[c] \notin {ost[c], "none"}
             => LegalRoute(ost[c], ost'[c])]_vars
  BY <1>2 DEF FollowsTable
<1> QED
  BY TypeInvariant, <1>1, <1>2, <1>3, PTL DEF Spec, OrdersFollowTheTable
===============================================================================
