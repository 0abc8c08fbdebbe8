-------------------------- MODULE PaperSessionProofs --------------------------
(***************************************************************************)
(* Theorems about PaperSession, for any number of orders, funding prints,  *)
(* bars and crashes: the properties its run checks on a small instance.    *)
(***************************************************************************)
EXTENDS PaperSession, FiniteSetTheorems, TLAPS

USE PaperSessionAssumption
USE DEF PaperSessionAssumption, Orders, vars, sessionVars, venueVars, diskVars,
        otherVars

-------------------------------------------------------------------------------
(* Type correctness. *)

\* In a submit call the loop is about one order, which nobody else looks at yet.
InSubmit ==
    /\ loop.at = "exitSubmit" => loop.order \in Exits
    /\ loop.at = "entrySubmit" => loop.order \in Entries

Typed == TypeOK /\ InSubmit

\* A quote fills finitely many orders.
LEMMA RestingIsFinite ==
    ASSUME TypeOK, NEW S \in SUBSET RestingOrders
    PROVE  IsFiniteSet(S) /\ Cardinality(S) \in Nat
<1>1. IsFiniteSet(Orders)
  BY FS_Union
<1>2. S \in SUBSET Orders
  BY DEF RestingOrders
<1> QED
  BY <1>1, <1>2, FS_Subset, FS_CardinalityType

LEMMA ZeroWaits == 0 \in 0 .. Ttl - 1
OBVIOUS

LEMMA QuoteTyped ==
    ASSUME TypeOK, QuoteMoves
    PROVE  venue' \in [Orders -> VenueStatuses] /\ pos' \in Nat
<1>1. PICK S \in SUBSET RestingOrders : Fill(S)
  BY DEF QuoteMoves
<1>2. Cardinality(S) \in Nat
  BY RestingIsFinite
<1> QED
  BY <1>1, <1>2 DEF Fill, TypeOK, VenueStatuses

LEMMA FundingTyped ==
    ASSUME TypeOK, SettledFunding
    PROVE  /\ dispatched' \in SUBSET Prints
           /\ paid' \in [Prints -> Nat]
           /\ journaled' \in SUBSET Prints
           /\ consumed' \in SUBSET Prints /\ unrecorded' \in SUBSET Prints
           /\ journalUp' \in BOOLEAN
BY DEF SettledFunding, TypeOK

LEMMA InitTyped == Init => Typed
<1> SUFFICES ASSUME Init PROVE Typed
  OBVIOUS
<1> USE DEF Init
<1>1. track \in Tracks
  BY DEF Flat, Tracks, NothingPending
<1>2. snap \in Snapshots
  BY DEF Snapshots
<1>3. ost \in [Orders -> VenueFacingStates \cup {"none"}] /\ venue \in [Orders -> VenueStatuses]
  BY DEF VenueStatuses
<1>4. crashes \in 0 .. MaxCrashes
  OBVIOUS
<1> QED
  BY <1>1, <1>2, <1>3, <1>4 DEF Typed, TypeOK, InSubmit, Idle, Locations, Reasons

LEMMA TickTyped == Typed /\ TickStep => Typed'
<1> SUFFICES ASSUME Typed, TickStep PROVE Typed'
  OBVIOUS
<1> USE DEF Typed, InSubmit
<1>1. CASE TickWithoutStop
  BY <1>1, QuoteTyped, FundingTyped DEF TickWithoutStop, TypeOK
<1>2. CASE TickStop
  BY <1>2, QuoteTyped, FundingTyped DEF TickStop, TypeOK, Idle, Locations, Reasons
<1>3. CASE TickEnds
  BY <1>3, QuoteTyped DEF TickEnds, TypeOK, Idle, Locations, Reasons
<1> QED
  BY <1>1, <1>2, <1>3 DEF TickStep

LEMMA ExitTyped == Typed /\ ExitStep => Typed'
<1> SUFFICES ASSUME Typed, ExitStep PROVE Typed'
  OBVIOUS
<1> USE DEF Typed, InSubmit, TypeOK, Tracks, Idle, Locations, Reasons, Cleared, Popped,
            NothingPending, NoExit, AfterExit
<1>1. CASE ExitFindsFlat
  BY <1>1 DEF ExitFindsFlat
<1>2. CASE ExitWaits
  BY <1>2 DEF ExitWaits
<1>3. CASE ExitRefused
  BY <1>3 DEF ExitRefused
<1>4. ASSUME NEW c \in Exits, SendExit(c) PROVE Typed'
  BY <1>4 DEF SendExit, Submit, VenueFacingStates, VenueStatuses
<1>5. CASE ExitFills
  BY <1>5 DEF ExitFills, FillExit, Ends, VenueFacingStates, VenueStatuses
<1>6. CASE ExitRejected
  BY <1>6 DEF ExitRejected, Ends, VenueFacingStates
<1>7. CASE ExitTimesOut
  <2>1. track' \in Tracks
    BY <1>7 DEF ExitTimesOut
  <2>2. ost' \in [Orders -> VenueFacingStates \cup {"none"}]
    BY <1>7 DEF ExitTimesOut, Ends, VenueFacingStates
  <2>3. venue' \in [Orders -> VenueStatuses] /\ pos' \in Nat
    BY <1>7 DEF ExitTimesOut, FillExit, VenueStatuses
  <2>4. last' \in [Orders -> {"none", "unresolved", "rejected", "done"}]
    BY <1>7 DEF ExitTimesOut, Ends
  <2> QED
    BY <1>7, <2>1, <2>2, <2>3, <2>4 DEF ExitTimesOut
<1> QED
  BY <1>1, <1>2, <1>3, <1>4, <1>5, <1>6, <1>7 DEF ExitStep

LEMMA EntryTyped == Typed /\ EntryStep => Typed'
<1> SUFFICES ASSUME Typed, EntryStep PROVE Typed'
  OBVIOUS
<1> USE DEF Typed, InSubmit, TypeOK, Tracks, Idle, Locations, Reasons, EntryDone
<1>1. CASE NoEntry
  BY <1>1 DEF NoEntry
<1>2. ASSUME NEW c \in Entries, SendEntry(c) PROVE Typed'
  BY <1>2 DEF SendEntry, Submit, VenueFacingStates, VenueStatuses
<1>3. ASSUME loop.at = "entrySubmit",
             EntryFills \/ EntryRests \/ UNCHANGED <<venue, pos>>
      PROVE  venue' \in [Orders -> VenueStatuses] /\ pos' \in Nat
  <2>1. CASE EntryFills
    <3>1. Cardinality({loop.order}) = 1
      BY FS_Singleton
    <3> QED
      BY <2>1, <3>1 DEF EntryFills, Fill, VenueStatuses
  <2>2. CASE EntryRests
    BY <1>3, <2>2 DEF EntryRests, VenueStatuses
  <2> QED
    BY <1>3, <2>1, <2>2
<1>4. ASSUME loop.at = "entrySubmit", NEW s \in VenueFacingStates, Ends(loop.order, s)
      PROVE  /\ ost' \in [Orders -> VenueFacingStates \cup {"none"}]
             /\ last' \in [Orders -> {"none", "unresolved", "rejected", "done"}]
  BY <1>4 DEF Ends
<1>5. CASE EntryAcknowledged
  <2>1. track' \in Tracks
    BY <1>5 DEF EntryAcknowledged
  <2>2. EntryFills \/ EntryRests
    BY <1>5 DEF EntryAcknowledged
  <2> QED
    BY <1>5, <1>3, <1>4, <2>1, <2>2 DEF EntryAcknowledged, VenueFacingStates
<1>6. CASE EntryRejected
  BY <1>6, <1>4 DEF EntryRejected, VenueFacingStates
<1>7. CASE EntryTimesOut
  <2>1. track' \in Tracks
    BY <1>7 DEF EntryTimesOut
  <2>2. EntryFills \/ EntryRests \/ UNCHANGED <<venue, pos>>
    BY <1>7 DEF EntryTimesOut
  <2> QED
    BY <1>7, <1>3, <1>4, <2>1, <2>2 DEF EntryTimesOut, VenueFacingStates
<1> QED
  BY <1>1, <1>2, <1>5, <1>6, <1>7 DEF EntryStep

LEMMA BarTyped == Typed /\ BarStep => Typed'
<1> SUFFICES ASSUME Typed, BarStep PROVE Typed'
  OBVIOUS
<1> USE DEF Typed, InSubmit, TypeOK, Idle, Locations, Reasons
<1>1. CASE BarExits
  BY <1>1, QuoteTyped DEF BarExits, BarBegins
<1>2. CASE BarKeeps
  BY <1>2, QuoteTyped DEF BarKeeps, BarBegins
<1>3. CASE PendingKeeps
  <2>1. ~Expired(track) => Aged(track) \in Tracks
    BY DEF Expired, Aged, Tracks
  <2>2. track' \in Tracks
    BY <1>3, <2>1, ZeroWaits DEF PendingKeeps, ToEntry, Tracks
  <2>3. killed' \in BOOLEAN
    BY <1>3 DEF PendingKeeps, ToEntry, Guarded, Tracks
  <2> QED
    BY <1>3, <2>2, <2>3 DEF PendingKeeps, ToEntry
<1>4. CASE PendingCancelled
  <2>1. track' \in Tracks
    BY <1>4, ZeroWaits DEF PendingCancelled, ToEntry, Tracks
  <2>2. killed' \in BOOLEAN
    BY <1>4 DEF PendingCancelled, ToEntry, Guarded, Tracks
  <2>3. /\ venue' \in [Orders -> VenueStatuses]
        /\ ost' \in [Orders -> VenueFacingStates \cup {"none"}]
        /\ last' \in [Orders -> {"none", "unresolved", "rejected", "done"}]
    BY <1>4 DEF PendingCancelled, VenueCancel, VenueStatuses, VenueFacingStates, Tracks
  <2> QED
    BY <1>4, <2>1, <2>2, <2>3 DEF PendingCancelled, ToEntry
<1>5. CASE Reconcile
  <2>1. Reconciled(ost) \in [Orders -> VenueFacingStates \cup {"none"}]
    BY DEF Reconciled, VenueSays, VenueStatuses, VenueFacingStates
  <2>2. ASSUME NEW o, NEW ids PROVE AfterAnswers(o, ids) \in Tracks
    BY DEF AfterAnswers, Cleared, NothingPending, Tracks
  <2>3. track' \in Tracks
    BY <1>5, <2>2 DEF Reconcile
  <2>4. killed' \in BOOLEAN
    BY <1>5 DEF Reconcile
  <2>5. last' \in [Orders -> {"none", "unresolved", "rejected", "done"}]
    BY <1>5 DEF Reconcile
  <2> QED
    BY <1>5, <2>1, <2>3, <2>4, <2>5 DEF Reconcile
<1>6. CASE NoReconcile
  BY <1>6 DEF NoReconcile
<1>7. CASE Persist
  BY <1>7 DEF Persist, AfterPersist, Snapshots, Tracks
<1>8. CASE PersistFails
  BY <1>8 DEF PersistFails, AfterPersist
<1> QED
  BY <1>1, <1>2, <1>3, <1>4, <1>5, <1>6, <1>7, <1>8 DEF BarStep

LEMMA RestartTyped == Typed /\ CrashAndRestart => Typed'
<1> SUFFICES ASSUME Typed, CrashAndRestart PROVE Typed'
  OBVIOUS
<1> USE DEF Typed, TypeOK, CrashAndRestart
<1>1. track' \in Tracks
  <2>1. PICK p \in BOOLEAN : track' = [Flat EXCEPT !.plan = p /\ snap.pos > 0]
    OBVIOUS
  <2>2. (p /\ snap.pos > 0) \in BOOLEAN
    OBVIOUS
  <2> QED
    BY <2>1, <2>2, ZeroWaits DEF Flat, Tracks, NothingPending
<1>2. ost' \in [Orders -> VenueFacingStates \cup {"none"}]
  BY DEF Rehydrated, VenueFacingStates
<1>3. crashes' \in 0 .. MaxCrashes
  OBVIOUS
<1>4. pos' \in Nat /\ paid' \in [Prints -> Nat] /\ dispatched' \in SUBSET Prints
  BY DEF Snapshots, RestoredKeys
<1> QED
  BY <1>1, <1>2, <1>3, <1>4 DEF VenueStatuses, Idle, InSubmit, Locations, Reasons

LEMMA StutterTyped == Typed /\ UNCHANGED vars => Typed'
BY DEF Typed, TypeOK, InSubmit

LEMMA TypeInvariant == Spec => []Typed
<1>1. Typed /\ [Next]_vars => Typed'
  BY TickTyped, BarTyped, ExitTyped, EntryTyped, RestartTyped, StutterTyped DEF Next
<1> QED
  BY InitTyped, <1>1, PTL DEF Spec

\* Every reachable state of the session, its venue and what is on disk is well typed;
\* among others, a resting entry never waits longer than maker_fill_ttl_bars.
THEOREM PaperTypeCorrect == Spec => []TypeOK
<1>1. Typed => TypeOK
  BY DEF Typed
<1> QED
  BY TypeInvariant, <1>1, PTL

-------------------------------------------------------------------------------
(* Settled funding. *)

\* What has been charged, in memory and in the snapshot, has a record, unless that was
\* lost, and what has a record is not dispatched again.
FundingAccounted ==
    /\ journaled \subseteq dispatched
    /\ \A p \in Prints \ unrecorded :
          /\ paid[p] <= 1 /\ (p \notin journaled => paid[p] = 0)
          /\ snap.paid[p] <= 1 /\ (p \notin journaled => snap.paid[p] = 0)

LEMMA FundingStep == Typed /\ FundingAccounted /\ [Next]_vars => FundingAccounted'
<1> SUFFICES ASSUME Typed, FundingAccounted, [Next]_vars PROVE FundingAccounted'
  OBVIOUS
<1> USE DEF FundingAccounted
<1>1. ASSUME SettledFunding, snap' = snap PROVE FundingAccounted'
  <2>1. PICK due \in SUBSET (Prints \ dispatched) :
          LET charged == IF pos > 0 THEN due ELSE {}
          IN  \E lost \in SUBSET charged :
                 /\ dispatched' = dispatched \cup due
                 /\ paid' = [p \in Prints |->
                               IF p \in charged THEN paid[p] + 1 ELSE paid[p]]
                 /\ journaled' = journaled \cup (charged \ lost)
                 /\ unrecorded' = unrecorded \cup lost
    BY <1>1 DEF SettledFunding
  <2>2. \A p \in due : p \notin journaled
    OBVIOUS
  <2> QED
    BY <1>1, <2>1, <2>2 DEF Typed, TypeOK
<1>2. CASE TickStep
  BY <1>1, <1>2 DEF TickStep, TickWithoutStop, TickStop, TickEnds
<1>3. CASE Persist
  BY <1>3 DEF Persist, Typed, TypeOK, Snapshots
<1>4. ASSUME UNCHANGED <<dispatched, paid, journaled, snap, unrecorded>> PROVE FundingAccounted'
  BY <1>4
<1>5. CASE BarStep
  BY <1>3, <1>4, <1>5 DEF BarStep, BarExits, BarKeeps, BarBegins, PendingKeeps, PendingCancelled,
     ToEntry, Reconcile, NoReconcile, PersistFails
<1>6. CASE ExitStep
  BY <1>4, <1>6 DEF ExitStep, ExitFindsFlat, ExitWaits, ExitRefused, SendExit, ExitFills,
     ExitRejected, ExitTimesOut
<1>7. CASE EntryStep
  BY <1>4, <1>7 DEF EntryStep, NoEntry, SendEntry, EntryAcknowledged, EntryRejected,
     EntryTimesOut, EntryDone
<1>8. CASE CrashAndRestart
  BY <1>8 DEF CrashAndRestart, RestoredKeys
<1>9. CASE UNCHANGED vars
  BY <1>4, <1>9
<1> QED
  BY <1>2, <1>5, <1>6, <1>7, <1>8, <1>9 DEF Next

\* A settled funding print is charged to the book once at most, whatever crashes come
\* between the charge, its record and the snapshot, and whatever the feed repeats, as
\* long as the journal has not refused its record.
THEOREM FundingChargedOnce == Spec => []FundingAtMostOnce
<1>1. Init => FundingAccounted
  BY DEF Init, FundingAccounted
<1>2. Typed /\ FundingAccounted => FundingAtMostOnce
  BY DEF FundingAccounted, FundingAtMostOnce
<1> QED
  BY TypeInvariant, <1>1, FundingStep, <1>2, PTL DEF Spec

-------------------------------------------------------------------------------
(* The manager and the venue. *)

\* The order of a submit call has not reached the venue yet.
NotSentYet == loop.at \in {"exitSubmit", "entrySubmit"} => venue[loop.order] = "absent"

Agreed == Typed /\ NotSentYet /\ ManagerAgreesWithVenue

\* What a new quote may do to an order.
LEMMA QuoteFillsOpen ==
    ASSUME TypeOK, QuoteMoves, NEW c \in Orders
    PROVE  venue'[c] = venue[c] \/ (venue[c] = "open" /\ venue'[c] = "filled")
BY DEF QuoteMoves, Fill, RestingOrders, TypeOK

LEMMA AgreedStep == Agreed /\ [Next]_vars => (NotSentYet /\ ManagerAgreesWithVenue)'
<1> SUFFICES ASSUME Agreed, [Next]_vars PROVE (NotSentYet /\ ManagerAgreesWithVenue)'
  OBVIOUS
<1> USE DEF Agreed, NotSentYet, ManagerAgreesWithVenue, Typed, TypeOK, InSubmit
<1>1. ASSUME QuoteMoves, ost' = ost, loop'.at \notin {"exitSubmit", "entrySubmit"}
      PROVE  (NotSentYet /\ ManagerAgreesWithVenue)'
  BY <1>1, QuoteFillsOpen
<1>2. ASSUME UNCHANGED <<ost, venue>>, loop'.at \notin {"exitSubmit", "entrySubmit"}
      PROVE  (NotSentYet /\ ManagerAgreesWithVenue)'
  BY <1>2
<1>3. CASE TickStep
  <2>1. QuoteMoves /\ ost' = ost
    BY <1>3 DEF TickStep, TickWithoutStop, TickStop, TickEnds
  <2>2. loop'.at \in {"idle", "exit"}
    <3>1. CASE TickWithoutStop
      BY <3>1 DEF TickWithoutStop
    <3>2. CASE TickStop
      BY <3>2 DEF TickStop, Idle
    <3>3. CASE TickEnds
      BY <3>3 DEF TickEnds, Idle
    <3> QED
      BY <1>3, <3>1, <3>2, <3>3 DEF TickStep
  <2> QED
    BY <1>1, <2>1, <2>2
<1>4. CASE BarStep
  <2>1. CASE BarExits \/ BarKeeps
    BY <1>1, <2>1 DEF BarExits, BarKeeps, BarBegins, Idle
  <2>2. CASE PendingKeeps \/ NoReconcile \/ Persist \/ PersistFails
    BY <1>2, <2>2 DEF PendingKeeps, ToEntry, NoReconcile, Persist, PersistFails,
       AfterPersist, Idle
  <2>3. CASE PendingCancelled
    BY <2>3 DEF PendingCancelled, ToEntry, VenueCancel, Tracks, Idle
  <2>4. CASE Reconcile
    <3>1. ost' = Reconciled(ost) /\ UNCHANGED venue /\ loop'.at = "persist"
      BY <2>4 DEF Reconcile, Idle
    <3> QED
      BY <3>1 DEF Reconciled, VenueSays, VenueStatuses, UnresolvedStates
  <2> QED
    BY <1>4, <2>1, <2>2, <2>3, <2>4 DEF BarStep
<1>5. CASE ExitStep
  <2>1. CASE ExitFindsFlat \/ ExitWaits \/ ExitRefused
    <3>1. UNCHANGED <<ost, venue>>
      BY <2>1 DEF ExitFindsFlat, ExitWaits, ExitRefused
    <3>2. loop'.at \in {"quote", "pending", "persist"}
      <4>1. NoExit \/ AfterExit
        BY <2>1 DEF ExitFindsFlat, ExitWaits, ExitRefused
      <4>2. CASE NoExit
        BY <4>2 DEF NoExit, Idle
      <4>3. CASE AfterExit
        BY <4>3 DEF AfterExit, Idle
      <4> QED
        BY <4>1, <4>2, <4>3
    <3> QED
      BY <1>2, <3>1, <3>2
  <2>2. ASSUME NEW c \in Exits, SendExit(c) PROVE (NotSentYet /\ ManagerAgreesWithVenue)'
    BY <2>2 DEF SendExit, Submit
  <2>3. CASE ExitFills
    BY <2>3 DEF ExitFills, FillExit, Ends, AfterExit, Idle
  <2>4. CASE ExitRejected
    BY <2>4 DEF ExitRejected, Ends, AfterExit, Idle
  <2>5. CASE ExitTimesOut
    BY <2>5 DEF ExitTimesOut, FillExit, Ends, AfterExit, Idle
  <2> QED
    BY <1>5, <2>1, <2>2, <2>3, <2>4, <2>5 DEF ExitStep
<1>6. CASE EntryStep
  <2>1. CASE NoEntry
    BY <1>2, <2>1 DEF NoEntry, Idle
  <2>2. ASSUME NEW c \in Entries, SendEntry(c) PROVE (NotSentYet /\ ManagerAgreesWithVenue)'
    BY <2>2 DEF SendEntry, Submit
  <2>3. CASE EntryAcknowledged
    BY <2>3 DEF EntryAcknowledged, EntryFills, EntryRests, Fill, Ends, EntryDone, Idle
  <2>4. CASE EntryRejected
    BY <2>4 DEF EntryRejected, Ends, EntryDone, Idle
  <2>5. CASE EntryTimesOut
    BY <2>5 DEF EntryTimesOut, EntryFills, EntryRests, Fill, Ends, EntryDone, Idle
  <2> QED
    BY <1>6, <2>1, <2>2, <2>3, <2>4, <2>5 DEF EntryStep
<1>7. CASE CrashAndRestart
  BY <1>7 DEF CrashAndRestart, Rehydrated, Idle
<1>8. CASE UNCHANGED vars
  BY <1>8
<1> QED
  BY <1>3, <1>4, <1>5, <1>6, <1>7, <1>8 DEF Next

\* Whatever is sent, filled, cancelled, left in doubt or forgotten in a crash, the
\* state the manager holds for an order is one the venue can confirm: a reconciliation
\* pass never trips the kill switch of a lane for a mismatch of its own making.
THEOREM NoFalseAlarm == Spec => []ManagerAgreesWithVenue
<1>1. Init => NotSentYet /\ ManagerAgreesWithVenue
  BY DEF Init, NotSentYet, ManagerAgreesWithVenue, Idle
<1>2. Typed /\ NotSentYet /\ ManagerAgreesWithVenue /\ [Next]_vars
      => (NotSentYet /\ ManagerAgreesWithVenue)'
  BY AgreedStep DEF Agreed
<1> QED
  BY TypeInvariant, <1>1, <1>2, PTL DEF Spec

-------------------------------------------------------------------------------
(* One trade at a time, and a snapshot that can be resumed.                 *)

\* What rests on the venue is the entry the session follows, and while it rests the
\* position is flat.
RestingIsFollowed ==
    /\ \A c \in Orders : venue[c] = "open" => c = track.resting
    /\ track.resting # NoOrder
       => venue[track.resting] = "filled" \/ (venue[track.resting] = "open" /\ pos = 0)

\* A parked entry is in doubt, and the reconciliation comes next.
ParkedInDoubt ==
    /\ track.parked \subseteq Unresolved(ost)
    /\ track.parked # {} => loop.at = "reconcile"

\* In a submit call nothing else is under way.
SubmitAlone ==
    /\ loop.at = "entrySubmit"
       => track.resting = NoOrder /\ pos = 0 /\ Unresolved(ost) = {}
    /\ loop.at = "exitSubmit" => RestingOrders = {}

\* An exit in doubt either never arrived or has closed the position; no order rests.
ExitSettled ==
    \A c \in Exits :
        ost[c] \in UnresolvedStates
        => RestingOrders = {} /\ (venue[c] = "filled" => pos = 0)

\* A position has its plan, or the kill switch is tripped, at the places where it counts.
Covered ==
    /\ loop.why = "tick" /\ loop.at \in {"exit", "exitSubmit"} => track.plan
    /\ loop.at \in {"entry", "persist"} /\ pos > 0 => track.plan \/ killed
    /\ loop.at = "reconcile" /\ pos > 0
       => track.plan \/ killed \/ \E c \in track.parked : venue[c] = "filled"
    /\ SnapshotCanBeResumed

Clear == RestingIsFollowed /\ ParkedInDoubt /\ SubmitAlone /\ ExitSettled /\ Covered

\* A new quote fills the resting entry or nothing.
LEMMA QuoteFillsResting ==
    ASSUME Typed, RestingIsFollowed, QuoteMoves
    PROVE  \/ venue' = venue /\ pos' = pos
           \/ /\ track.resting # NoOrder /\ venue[track.resting] = "open"
              /\ venue' = [venue EXCEPT ![track.resting] = "filled"]
<1>1. PICK S \in SUBSET RestingOrders : Fill(S)
  BY DEF QuoteMoves
<1>2. RestingOrders \subseteq {track.resting}
  BY DEF RestingIsFollowed, RestingOrders
<1>3. CASE S = {}
  <2>1. Cardinality(S) = 0
    BY <1>3, FS_EmptySet
  <2> QED
    BY <1>1, <1>3, <2>1 DEF Fill, Typed, TypeOK
<1>4. CASE S # {}
  <2>1. S = {track.resting} /\ track.resting \in RestingOrders
    BY <1>2, <1>4
  <2>2. track.resting \in Orders /\ venue[track.resting] = "open"
    BY <2>1 DEF RestingOrders
  <2>3. venue' = [c \in Orders |-> IF c \in S THEN "filled" ELSE venue[c]]
    BY <1>1 DEF Fill
  <2>4. venue' = [venue EXCEPT ![track.resting] = "filled"]
    BY <2>1, <2>3 DEF Typed, TypeOK
  <2> QED
    BY <2>2, <2>4
<1> QED
  BY <1>3, <1>4

LEMMA QuoteClear ==
    ASSUME Typed, RestingIsFollowed, ExitSettled, QuoteMoves,
           UNCHANGED <<ost, track>>
    PROVE  (RestingIsFollowed /\ ExitSettled)'
<1>1. CASE venue' = venue /\ pos' = pos
  BY <1>1 DEF RestingIsFollowed, ExitSettled, RestingOrders
<1>2. CASE /\ track.resting # NoOrder /\ venue[track.resting] = "open"
           /\ venue' = [venue EXCEPT ![track.resting] = "filled"]
  <2>1. track.resting \in Orders
    BY <1>2 DEF Typed, TypeOK, Tracks
  <2>2. track.resting \in RestingOrders
    BY <1>2, <2>1 DEF RestingOrders
  <2>3. \A c \in Exits : ost[c] \notin UnresolvedStates
    BY <2>2 DEF ExitSettled
  <2> QED
    BY <1>2, <2>1, <2>3 DEF RestingIsFollowed, ExitSettled, Typed, TypeOK
<1> QED
  BY <1>1, <1>2, QuoteFillsResting

LEMMA TickClear == Typed /\ Clear /\ TickStep => Clear'
<1> SUFFICES ASSUME Typed, Clear, TickStep PROVE Clear'
  OBVIOUS
<1> USE DEF Clear
<1>1. QuoteMoves /\ UNCHANGED <<ost, track, snap, killed>>
  BY DEF TickStep, TickWithoutStop, TickStop, TickEnds
<1>2. (RestingIsFollowed /\ ExitSettled)'
  BY <1>1, QuoteClear
<1>3. loop.at \in {"idle", "quote"}
  BY DEF TickStep, TickWithoutStop, TickStop, TickEnds
<1>4. loop'.at = "idle" \/ (loop'.at = "exit" /\ track.plan)
  <2>1. CASE TickWithoutStop
    BY <2>1 DEF TickWithoutStop
  <2>2. CASE TickStop
    BY <2>2 DEF TickStop, Idle
  <2>3. CASE TickEnds
    BY <2>3 DEF TickEnds, Idle
  <2> QED
    BY <2>1, <2>2, <2>3 DEF TickStep
<1>5. ParkedInDoubt'
  BY <1>1, <1>3 DEF ParkedInDoubt, Unresolved
<1>6. SubmitAlone' /\ Covered'
  BY <1>1, <1>4 DEF SubmitAlone, Covered, SnapshotCanBeResumed
<1> QED
  BY <1>2, <1>5, <1>6

\* A position is never there while another entry rests.
LEMMA NothingRestsOnPosition ==
    ASSUME RestingIsFollowed, pos > 0
    PROVE  RestingOrders = {}
BY DEF RestingIsFollowed, RestingOrders

LEMMA SubmitClear ==
    ASSUME Typed, RestingIsFollowed, ExitSettled, NEW c \in Orders, Submit(c),
           pos' = pos, track'.resting = track.resting
    PROVE  /\ RestingIsFollowed' /\ ExitSettled'
           /\ RestingOrders' = RestingOrders
           /\ Unresolved(ost') = Unresolved(ost)
<1>1. /\ ost' = [ost EXCEPT ![c] = "submitting"] /\ ost[c] \notin UnresolvedStates
      /\ venue' = [venue EXCEPT ![c] = "absent"] /\ venue[c] # "open"
      /\ c # track.resting
  BY DEF Submit, Fresh, Held
<1>2. RestingOrders' = RestingOrders
  BY <1>1 DEF RestingOrders, Typed, TypeOK
<1>3. Unresolved(ost') = Unresolved(ost)
  BY <1>1 DEF Unresolved, UnresolvedStates, Typed, TypeOK
<1>4. RestingIsFollowed'
  BY <1>1 DEF RestingIsFollowed, Typed, TypeOK, Tracks
<1>5. ExitSettled'
  BY <1>1, <1>2 DEF ExitSettled, UnresolvedStates, Typed, TypeOK
<1> QED
  BY <1>2, <1>3, <1>4, <1>5

LEMMA ExitClear == Typed /\ Clear /\ NotSentYet /\ ExitStep => Clear'
<1> SUFFICES ASSUME Typed, Clear, NotSentYet, ExitStep PROVE Clear'
  OBVIOUS
<1> USE DEF Clear
<1>1. loop.at \in {"exit", "exitSubmit"} /\ track.parked = {} /\ UNCHANGED <<snap, killed>>
  BY DEF ParkedInDoubt, ExitStep, ExitFindsFlat, ExitWaits, ExitRefused, SendExit, ExitFills,
     ExitRejected, ExitTimesOut
<1>2. /\ track'.parked = track.parked /\ track'.resting = track.resting
      /\ track'.plan = track.plan \/ ExitFindsFlat \/ ExitFills
  BY DEF ExitStep, ExitFindsFlat, ExitWaits, ExitRefused, SendExit, ExitFills, ExitRejected,
     ExitTimesOut, Cleared, Popped, Typed, TypeOK, Tracks
<1>3. ParkedInDoubt'
  BY <1>1, <1>2 DEF ParkedInDoubt
<1>4. ASSUME NoExit PROVE loop'.at \in {"quote", "pending"}
  BY <1>4 DEF NoExit, Idle
<1>5. ASSUME AfterExit
      PROVE  loop'.at = "pending" \/ (loop'.at = "persist" /\ loop.why = "tick")
  BY <1>5 DEF AfterExit, Idle, Typed, TypeOK
<1>6. ASSUME UNCHANGED <<ost, venue, pos>> PROVE (RestingIsFollowed /\ ExitSettled)'
  BY <1>2, <1>6 DEF RestingIsFollowed, ExitSettled, RestingOrders
<1>7. CASE ExitFindsFlat \/ ExitWaits
  <2>1. NoExit /\ UNCHANGED <<ost, venue, pos>>
    BY <1>7 DEF ExitFindsFlat, ExitWaits
  <2> QED
    BY <1>1, <1>3, <1>4, <1>6, <2>1 DEF SubmitAlone, Covered, SnapshotCanBeResumed
<1>8. CASE ExitRefused
  <2>1. /\ AfterExit /\ UNCHANGED <<ost, venue, pos>> /\ loop.at = "exit"
        /\ track'.plan = track.plan
    BY <1>8 DEF ExitRefused, Popped, Typed, TypeOK, Tracks
  <2> QED
    BY <1>1, <1>3, <1>5, <1>6, <2>1 DEF SubmitAlone, Covered, SnapshotCanBeResumed
<1>9. ASSUME NEW c \in Exits, SendExit(c) PROVE Clear'
  <2>1. /\ loop.at = "exit" /\ pos > 0 /\ Submit(c) /\ UNCHANGED pos
        /\ track'.plan = track.plan
        /\ loop'.at = "exitSubmit" /\ loop'.why = loop.why
    BY <1>9 DEF SendExit, Popped, Typed, TypeOK, Tracks
  <2>2. RestingIsFollowed' /\ ExitSettled' /\ RestingOrders' = {}
    BY <1>2, <2>1, SubmitClear, NothingRestsOnPosition
  <2> QED
    BY <1>1, <1>3, <2>1, <2>2 DEF SubmitAlone, Covered, SnapshotCanBeResumed
<1>10. ASSUME loop.at = "exitSubmit", NEW s \in {"acknowledged", "rejected", "timeout_unknown"},
              Ends(loop.order, s), FillExit(loop.order) \/ UNCHANGED <<venue, pos>>
       PROVE  (RestingIsFollowed /\ ExitSettled)' /\ (pos' = 0 \/ pos' = pos)
  <2>1. loop.order \in Exits /\ venue[loop.order] = "absent" /\ RestingOrders = {}
    BY <1>10 DEF Typed, InSubmit, NotSentYet, SubmitAlone
  <2>2. ost' = [ost EXCEPT ![loop.order] = s]
    BY <1>10 DEF Ends
  <2>3. RestingOrders' = {}
    BY <1>10, <2>1 DEF FillExit, RestingOrders, Typed, TypeOK
  <2>4. CASE FillExit(loop.order)
    BY <2>1, <2>2, <2>3, <2>4, <1>2
    DEF FillExit, RestingIsFollowed, ExitSettled, RestingOrders, Typed, TypeOK, Tracks
  <2>5. CASE UNCHANGED <<venue, pos>>
    BY <2>1, <2>2, <2>3, <2>5, <1>2
    DEF RestingIsFollowed, ExitSettled, RestingOrders, Typed, TypeOK, Tracks
  <2> QED
    BY <1>10, <2>4, <2>5 DEF FillExit
<1>11. CASE ExitFills
  <2>1. /\ loop.at = "exitSubmit" /\ AfterExit /\ Ends(loop.order, "acknowledged")
        /\ FillExit(loop.order) /\ pos' = 0
    BY <1>11 DEF ExitFills, FillExit
  <2>2. (RestingIsFollowed /\ ExitSettled)'
    BY <1>10, <2>1
  <2> QED
    BY <1>1, <1>3, <1>5, <2>1, <2>2 DEF SubmitAlone, Covered, SnapshotCanBeResumed
<1>12. CASE ExitRejected
  <2>1. /\ loop.at = "exitSubmit" /\ AfterExit /\ Ends(loop.order, "rejected")
        /\ UNCHANGED <<venue, pos>> /\ track'.plan = track.plan
    BY <1>12 DEF ExitRejected
  <2>2. (RestingIsFollowed /\ ExitSettled)'
    BY <1>10, <2>1
  <2> QED
    BY <1>1, <1>3, <1>5, <2>1, <2>2 DEF SubmitAlone, Covered, SnapshotCanBeResumed
<1>13. CASE ExitTimesOut
  <2>1. /\ loop.at = "exitSubmit" /\ AfterExit /\ Ends(loop.order, "timeout_unknown")
        /\ FillExit(loop.order) \/ UNCHANGED <<venue, pos>>
        /\ track'.plan = track.plan
    BY <1>13 DEF ExitTimesOut, Typed, TypeOK, Tracks
  <2>2. (RestingIsFollowed /\ ExitSettled)' /\ (pos' = 0 \/ pos' = pos)
    BY <1>10, <2>1
  <2> QED
    BY <1>1, <1>3, <1>5, <2>1, <2>2 DEF SubmitAlone, Covered, SnapshotCanBeResumed
<1> QED
  BY <1>7, <1>8, <1>9, <1>11, <1>12, <1>13 DEF ExitStep

\* An entry is sent only when nothing else is under way.
LEMMA EntrySentAlone ==
    ASSUME Typed, Clear, NEW c \in Entries, SendEntry(c)
    PROVE  pos = 0 /\ RestingOrders = {}
BY DEF SendEntry, EntryGate, Clear, Covered, RestingIsFollowed, RestingOrders, Typed, TypeOK

LEMMA EntryClear ==
    ASSUME ~MakerAckLost, Typed, Clear, NotSentYet, EntryStep
    PROVE  Clear'
<1> USE DEF Clear
<1>1. loop.at \in {"entry", "entrySubmit"} /\ track.parked = {} /\ UNCHANGED <<snap, killed>>
  BY DEF ParkedInDoubt, EntryStep, NoEntry, SendEntry, EntryAcknowledged, EntryRejected,
     EntryTimesOut, EntryDone
<1>2. CASE NoEntry
  <2>1. /\ loop.at = "entry" /\ loop'.at = "reconcile"
        /\ UNCHANGED <<ost, track, venue, pos>>
    BY <1>2 DEF NoEntry, Idle
  <2> QED
    BY <1>1, <2>1 DEF ParkedInDoubt, RestingIsFollowed, ExitSettled, RestingOrders,
       SubmitAlone, Covered, SnapshotCanBeResumed
<1>3. ASSUME NEW c \in Entries, SendEntry(c) PROVE Clear'
  <2>1. /\ Submit(c) /\ UNCHANGED <<pos, track>> /\ loop'.at = "entrySubmit"
        /\ Unresolved(ost) = {} /\ track.resting = NoOrder
    BY <1>3 DEF SendEntry, EntryGate, Typed, TypeOK
  <2>2. /\ RestingIsFollowed' /\ ExitSettled' /\ Unresolved(ost') = {}
        /\ pos = 0
    BY <1>3, <2>1, SubmitClear, EntrySentAlone
  <2> QED
    BY <1>1, <2>1, <2>2
    DEF ParkedInDoubt, SubmitAlone, Covered, SnapshotCanBeResumed, Unresolved
<1>4. CASE loop.at = "entrySubmit"
  <2>1. /\ loop.order \in Entries /\ venue[loop.order] = "absent"
        /\ track.resting = NoOrder /\ pos = 0 /\ Unresolved(ost) = {}
        /\ \A c \in Orders : venue[c] # "open"
    BY <1>4 DEF Typed, InSubmit, NotSentYet, SubmitAlone, RestingIsFollowed, TypeOK
  <2>2. PICK s \in {"acknowledged", "rejected", "timeout_unknown"} : Ends(loop.order, s)
    BY <1>4 DEF EntryStep, NoEntry, SendEntry, EntryAcknowledged, EntryRejected,
       EntryTimesOut
  <2>3. ost' = [ost EXCEPT ![loop.order] = s] /\ \A c \in Exits : ost'[c] \notin UnresolvedStates
    BY <2>1, <2>2 DEF Ends, Unresolved, Typed, TypeOK
  <2>4. ExitSettled'
    BY <2>3 DEF ExitSettled
  <2>5. loop'.at = "reconcile"
    BY <1>4 DEF EntryStep, NoEntry, SendEntry, EntryAcknowledged, EntryRejected,
       EntryTimesOut, EntryDone, Idle
  <2>6. SubmitAlone'
    BY <2>5 DEF SubmitAlone
  <2>7. ASSUME EntryFills
        PROVE  venue' = [venue EXCEPT ![loop.order] = "filled"]
    BY <2>7 DEF EntryFills, Fill, Typed, TypeOK
  <2>8. CASE EntryAcknowledged
    <3>1. /\ track'.parked = {}
          /\ \/ EntryFills /\ track'.plan = TRUE /\ track'.resting = NoOrder
             \/ EntryRests /\ track'.resting = loop.order
      BY <1>1, <2>1, <2>8 DEF EntryAcknowledged, Typed, TypeOK, Tracks
    <3>2. ParkedInDoubt' /\ Covered'
      BY <1>1, <2>1, <2>5, <3>1 DEF ParkedInDoubt, Covered, EntryRests, SnapshotCanBeResumed
    <3>3. RestingIsFollowed'
      BY <2>1, <2>7, <3>1 DEF RestingIsFollowed, EntryRests, Typed, TypeOK
    <3> QED
      BY <2>4, <2>6, <3>2, <3>3
  <2>9. CASE EntryRejected
    <3>1. UNCHANGED <<track, venue, pos>>
      BY <2>9 DEF EntryRejected
    <3> QED
      BY <1>1, <2>1, <2>4, <2>5, <2>6, <3>1
      DEF ParkedInDoubt, Covered, SnapshotCanBeResumed, RestingIsFollowed
  <2>10. CASE EntryTimesOut
    <3>1. /\ track'.parked = {loop.order} /\ track'.resting = NoOrder
          /\ EntryFills \/ UNCHANGED <<venue, pos>>
          /\ Ends(loop.order, "timeout_unknown")
      BY <1>1, <2>1, <2>10 DEF EntryTimesOut, Typed, TypeOK, Tracks
    <3>2. ParkedInDoubt'
      BY <2>1, <2>5, <3>1 DEF ParkedInDoubt, Ends, Unresolved, UnresolvedStates, Typed, TypeOK
    <3>3. Covered'
      BY <1>1, <2>1, <2>5, <2>7, <3>1 DEF Covered, SnapshotCanBeResumed, Typed, TypeOK
    <3>4. RestingIsFollowed'
      BY <2>1, <2>7, <3>1 DEF RestingIsFollowed, Typed, TypeOK
    <3> QED
      BY <2>4, <2>6, <3>2, <3>3, <3>4
  <2> QED
    BY <1>4, <2>8, <2>9, <2>10 DEF EntryStep, NoEntry, SendEntry
<1> QED
  BY <1>2, <1>3, <1>4 DEF EntryStep, EntryAcknowledged, EntryRejected, EntryTimesOut

LEMMA PendingClear ==
    ASSUME Typed, Clear, PendingKeeps \/ PendingCancelled
    PROVE  Clear'
<1> USE DEF Clear
<1>1. loop.at = "pending" /\ track.parked = {} /\ loop'.at = "entry" /\ UNCHANGED <<pos, snap>>
  BY DEF PendingKeeps, PendingCancelled, ToEntry, ParkedInDoubt, Idle
<1>2. SubmitAlone'
  BY <1>1 DEF SubmitAlone
<1>3. CASE PendingKeeps
  <2>1. UNCHANGED <<ost, venue>> /\ killed' = Guarded(track')
    BY <1>3 DEF PendingKeeps, ToEntry
  <2>2. /\ track'.parked = {}
        /\ \/ track'.resting = track.resting
           \/ track'.resting = NoOrder /\ track'.plan /\ venue[track.resting] = "filled"
    BY <1>1, <1>3 DEF PendingKeeps, ToEntry, Aged, Typed, TypeOK, Tracks
  <2>3. track'.resting # NoOrder => venue[track'.resting] # "filled" /\ track'.resting = track.resting
    BY <1>3, <2>2 DEF PendingKeeps, ToEntry, Aged, Typed, TypeOK, Tracks
  <2>4. RestingIsFollowed'
    BY <1>1, <2>1, <2>2 DEF RestingIsFollowed
  <2>5. Covered'
    <3>1. pos > 0 => track'.plan \/ track'.resting = NoOrder
      BY <2>3 DEF RestingIsFollowed
    <3>2. /\ killed => killed'
          /\ pos > 0 /\ ~track'.plan /\ track'.resting = NoOrder => killed'
      BY <2>1, <2>2 DEF Guarded
    <3> QED
      BY <1>1, <3>1, <3>2 DEF Covered, SnapshotCanBeResumed
  <2>6. ParkedInDoubt' /\ ExitSettled'
    BY <1>1, <2>1, <2>2 DEF ParkedInDoubt, ExitSettled, RestingOrders
  <2> QED
    BY <1>2, <2>4, <2>5, <2>6
<1>4. CASE PendingCancelled
  <2>1. /\ track.resting \in Entries /\ track'.resting = NoOrder /\ track'.parked = {}
        /\ venue' = [venue EXCEPT ![track.resting] = "cancelled"]
        /\ ost' = [ost EXCEPT ![track.resting] = "cancelled"]
        /\ killed' = Guarded(track')
    BY <1>1, <1>4 DEF PendingCancelled, VenueCancel, ToEntry, Typed, TypeOK, Tracks
  <2>2. RestingIsFollowed'
    BY <2>1 DEF RestingIsFollowed, Typed, TypeOK
  <2>3. Covered'
    BY <1>1, <2>1 DEF Covered, SnapshotCanBeResumed, Guarded
  <2>4. ParkedInDoubt'
    BY <2>1 DEF ParkedInDoubt
  <2>5. ExitSettled'
    BY <1>1, <2>1 DEF ExitSettled, RestingOrders, Typed, TypeOK
  <2> QED
    BY <1>2, <2>2, <2>3, <2>4, <2>5
<1> QED
  BY <1>3, <1>4

\* The parked entry that the venue has becomes the plan again; an exit that the venue
\* has leaves no position to be planned for.
LEMMA ReconcileClear ==
    ASSUME Typed, Clear, Reconcile
    PROVE  Clear'
<1> USE DEF Clear
<1> DEFINE o == Reconciled(ost)
           ids == Unresolved(ost)
<1>1. /\ loop.at = "reconcile" /\ loop'.at = "persist" /\ ost' = o
      /\ track' = AfterAnswers(o, ids) /\ (killed => killed')
      /\ UNCHANGED <<venue, pos, snap>>
  BY DEF Reconcile, Idle
<1>2. track'.resting = track.resting /\ track'.parked = {}
  BY <1>1 DEF AfterAnswers, Cleared, ParkedInDoubt, Typed, TypeOK, Tracks
<1>3. \A c \in Orders : o[c] \notin UnresolvedStates
  BY DEF Reconciled, VenueSays, UnresolvedStates, VenueStatuses, Typed, TypeOK
<1>4. RestingIsFollowed' /\ ParkedInDoubt' /\ SubmitAlone' /\ ExitSettled'
  BY <1>1, <1>2, <1>3 DEF RestingIsFollowed, ParkedInDoubt, SubmitAlone, ExitSettled
<1>5. ASSUME NEW c \in ids, o[c] \in AcceptedStates, c \in Exits PROVE pos = 0
  <2>1. c \in Orders /\ ost[c] \in UnresolvedStates /\ venue[c] # "open"
    BY <1>5 DEF Unresolved, ExitSettled, RestingOrders
  <2>2. venue[c] = "filled"
    BY <1>5, <2>1 DEF Reconciled, VenueSays, AcceptedStates, VenueStatuses, Typed, TypeOK
  <2> QED
    BY <1>5, <2>1, <2>2 DEF ExitSettled
<1>6. ASSUME NEW c \in track.parked, venue[c] = "filled"
      PROVE  c \in track.parked \cap ids /\ o[c] \in AcceptedStates
  BY <1>6 DEF ParkedInDoubt, Unresolved, Reconciled, VenueSays, AcceptedStates, Typed, TypeOK,
     Tracks
<1>7. ASSUME pos > 0 PROVE track'.plan \/ killed'
  <2>1. CASE killed
    BY <1>1, <2>1
  <2>2. CASE ~killed
    <3>1. track.plan \/ \E c \in track.parked \cap ids : o[c] \in AcceptedStates
      BY <1>1, <1>6, <1>7, <2>2 DEF Covered
    <3>2. ~\E r \in Reasons :
             track.pending[r] \in ids /\ o[track.pending[r]] \in AcceptedStates
      <4> SUFFICES ASSUME NEW r \in Reasons, track.pending[r] \in ids,
                          o[track.pending[r]] \in AcceptedStates
                   PROVE  FALSE
        OBVIOUS
      <4>1. track.pending[r] \in Exits
        BY DEF Unresolved, Typed, TypeOK, Tracks
      <4> QED
        BY <1>5, <1>7, <4>1
    <3>3. track'.plan = (track.plan \/ \E c \in track.parked \cap ids : o[c] \in AcceptedStates)
      BY <1>1, <3>2 DEF AfterAnswers, Typed, TypeOK, Tracks
    <3> QED
      BY <3>1, <3>3
  <2> QED
    BY <2>1, <2>2
<1>8. Covered'
  BY <1>1, <1>7 DEF Covered, SnapshotCanBeResumed
<1> QED
  BY <1>4, <1>8

LEMMA BarClear == Typed /\ Clear /\ BarStep => Clear'
<1> SUFFICES ASSUME Typed, Clear, BarStep PROVE Clear'
  OBVIOUS
<1> USE DEF Clear
<1>1. CASE BarExits \/ BarKeeps
  <2>1. /\ QuoteMoves /\ UNCHANGED <<ost, track, snap, killed>> /\ loop.at = "idle"
    BY <1>1 DEF BarExits, BarKeeps, BarBegins
  <2>2. loop'.at \in {"exit", "pending"} /\ loop'.why = "bar"
    BY <1>1 DEF BarExits, BarKeeps, Idle
  <2>3. (RestingIsFollowed /\ ExitSettled)'
    BY <2>1, QuoteClear
  <2> QED
    BY <2>1, <2>2, <2>3 DEF ParkedInDoubt, SubmitAlone, Covered, SnapshotCanBeResumed
<1>2. CASE PendingKeeps \/ PendingCancelled
  BY <1>2, PendingClear
<1>3. CASE Reconcile
  BY <1>3, ReconcileClear
<1>4. CASE NoReconcile
  <2>1. /\ loop.at = "reconcile" /\ loop'.at = "persist" /\ track.parked = {}
        /\ UNCHANGED <<ost, track, venue, pos, snap, killed>>
    BY <1>4 DEF NoReconcile, ParkedInDoubt, Idle
  <2> QED
    BY <2>1 DEF RestingIsFollowed, ParkedInDoubt, SubmitAlone, ExitSettled, RestingOrders,
       Covered, SnapshotCanBeResumed
<1>5. CASE Persist \/ PersistFails
  <2>1. /\ loop.at = "persist" /\ track.parked = {}
        /\ UNCHANGED <<ost, track, venue, pos, killed>>
    BY <1>5 DEF Persist, PersistFails, ParkedInDoubt
  <2>2. loop'.at \in {"quote", "idle"}
    BY <1>5 DEF Persist, PersistFails, AfterPersist, Idle
  <2>3. SnapshotCanBeResumed'
    BY <1>5, <2>1 DEF Persist, PersistFails, Covered, SnapshotCanBeResumed
  <2> QED
    BY <2>1, <2>2, <2>3 DEF RestingIsFollowed, ParkedInDoubt, SubmitAlone, ExitSettled,
       RestingOrders, Covered
<1> QED
  BY <1>1, <1>2, <1>3, <1>4, <1>5 DEF BarStep

LEMMA RestartClear == Typed /\ Clear /\ CrashAndRestart => Clear'
<1> SUFFICES ASSUME Typed, Clear, CrashAndRestart PROVE Clear'
  OBVIOUS
<1>1. /\ loop'.at = "idle" /\ venue' = [c \in Orders |-> "absent"]
      /\ track'.resting = NoOrder /\ track'.parked = {} /\ UNCHANGED <<snap, killed>>
  BY DEF CrashAndRestart, Idle, Flat
<1> QED
  BY <1>1 DEF Clear, RestingIsFollowed, ParkedInDoubt, SubmitAlone, ExitSettled, RestingOrders,
     Covered, SnapshotCanBeResumed

LEMMA ClearInvariant == ~MakerAckLost /\ Spec => [](Agreed /\ Clear)
<1> SUFFICES ASSUME ~MakerAckLost PROVE Spec => [](Agreed /\ Clear)
  OBVIOUS
<1>1. Init => NotSentYet /\ ManagerAgreesWithVenue /\ Clear
  BY DEF Init, NotSentYet, ManagerAgreesWithVenue, Idle, Flat, Clear, RestingIsFollowed,
     ParkedInDoubt, SubmitAlone, ExitSettled, RestingOrders, Covered, SnapshotCanBeResumed,
     Unresolved, UnresolvedStates
<1>2. Typed /\ NotSentYet /\ Clear /\ [Next]_vars => Clear'
  <2>1. ASSUME Clear, UNCHANGED vars PROVE Clear'
    BY <2>1 DEF Clear, RestingIsFollowed, ParkedInDoubt, SubmitAlone, ExitSettled,
       RestingOrders, Covered, SnapshotCanBeResumed, Unresolved
  <2> QED
    BY <2>1, TickClear, BarClear, ExitClear, EntryClear, RestartClear DEF Next
<1>3. Typed /\ NotSentYet /\ ManagerAgreesWithVenue /\ [Next]_vars
      => (NotSentYet /\ ManagerAgreesWithVenue)'
  BY AgreedStep DEF Agreed
<1>4. Agreed <=> Typed /\ NotSentYet /\ ManagerAgreesWithVenue
  BY DEF Agreed
<1> QED
  BY TypeInvariant, <1>1, <1>2, <1>3, <1>4, PTL DEF Spec

\* When no acknowledgement of a resting entry is ever lost, a position that reaches the
\* snapshot has its plan there, or the kill switch is tripped, whichever of fill, crash,
\* exit in doubt and reconciliation came in between.
THEOREM SnapshotResumable == ~MakerAckLost /\ Spec => []SnapshotCanBeResumed
<1>1. Clear => SnapshotCanBeResumed
  BY DEF Clear, Covered
<1> QED
  BY ClearInvariant, <1>1, PTL

\* Under the same assumption an entry is sent only on a flat venue without an order.
THEOREM OneTrade == ~MakerAckLost /\ Spec => OneTradeAtATime
<1>1. Typed /\ Clear /\ [Next]_vars
      => [\A c \in Entries :
             ost[c] # "submitting" /\ ost'[c] = "submitting"
             => pos = 0 /\ RestingOrders = {}]_vars
  <2> SUFFICES ASSUME Typed, Clear, [Next]_vars, NEW c \in Entries,
                      ost[c] # "submitting", ost'[c] = "submitting"
               PROVE  pos = 0 /\ RestingOrders = {}
    OBVIOUS
  <2> USE DEF Typed, TypeOK, InSubmit
  <2>1. ~TickStep
    BY DEF TickStep, TickWithoutStop, TickStop, TickEnds
  <2>2. ~BarStep
    BY DEF BarStep, BarExits, BarKeeps, BarBegins, PendingKeeps, PendingCancelled, ToEntry,
       Reconcile, Reconciled, VenueSays, VenueStatuses, NoReconcile, Persist, PersistFails,
       Tracks
  <2>3. ~ExitStep
    <3>1. \A x \in Exits : ~SendExit(x)
      BY DEF SendExit, Submit
    <3>2. ~(ExitFills \/ ExitRejected \/ ExitTimesOut)
      BY DEF ExitFills, ExitRejected, ExitTimesOut, Ends
    <3>3. ~(ExitFindsFlat \/ ExitWaits \/ ExitRefused)
      BY DEF ExitFindsFlat, ExitWaits, ExitRefused
    <3> QED
      BY <3>1, <3>2, <3>3 DEF ExitStep
  <2>4. ~CrashAndRestart
    BY DEF CrashAndRestart, Rehydrated
  <2>5. PICK e \in Entries : SendEntry(e)
    BY <2>1, <2>2, <2>3, <2>4 DEF Next, EntryStep, NoEntry, EntryAcknowledged,
       EntryRejected, EntryTimesOut, Ends
  <2> QED
    BY <2>5, EntrySentAlone
<1>2. Agreed => Typed
  BY DEF Agreed
<1> QED
  BY ClearInvariant, <1>1, <1>2, PTL DEF Spec, OneTradeAtATime

-------------------------------------------------------------------------------
(* The session implements TradeCycle, acknowledgements lost or not.         *)

\* At most one entry is of unknown fate, in the session and in the journal that a
\* restart reads.
EntryAlone ==
    /\ loop.at = "entrySubmit" => track.resting = NoOrder /\ Unresolved(ost) = {}
    /\ track.parked \subseteq Unresolved(ost)
    /\ \A c, d \in Entries :
          ost[c] \in UnresolvedStates /\ ost[d] \in UnresolvedStates => c = d
    /\ track.resting # NoOrder => \A c \in Entries : ost[c] \notin UnresolvedStates
    /\ \A c \in Entries :
          last[c] = "unresolved"
          => ost[c] \in UnresolvedStates \/ (loop.at = "entrySubmit" /\ loop.order = c)

LEMMA AloneAttempted ==
    ASSUME Typed, EntryAlone
    PROVE  /\ \A c, d \in Attempted : c = d
           /\ loop.at = "entrySubmit" => Attempted = {loop.order}
           /\ track.resting # NoOrder => Attempted = {track.resting}
           /\ \A c \in Entries : last[c] = "unresolved" => c \in Attempted
<1>1. CASE loop.at = "entrySubmit"
  BY <1>1 DEF EntryAlone, Attempted, Unresolved, Typed, InSubmit
<1>2. CASE loop.at # "entrySubmit" /\ track.resting # NoOrder
  BY <1>2 DEF EntryAlone, Attempted, Typed, TypeOK, Tracks
<1>3. CASE loop.at # "entrySubmit" /\ track.resting = NoOrder
  BY <1>3 DEF EntryAlone, Attempted
<1> QED
  BY <1>1, <1>2, <1>3

\* Steps that touch neither the entries nor what is tracked of them.
LEMMA AloneKept ==
    ASSUME Typed, EntryAlone, loop.at # "entrySubmit", loop'.at # "entrySubmit",
           track'.resting = track.resting, track'.parked = track.parked,
           \A c \in Entries : ost'[c] = ost[c] /\ last'[c] = last[c]
    PROVE  EntryAlone' /\ Attempted' = Attempted
<1>1. track.parked \subseteq Entries
  BY DEF Typed, TypeOK, Tracks
<1> QED
  BY <1>1 DEF EntryAlone, Attempted, Unresolved

LEMMA TickAlone == Typed /\ EntryAlone /\ TickStep => EntryAlone' /\ Attempted' = Attempted
<1> SUFFICES ASSUME Typed, EntryAlone, TickStep PROVE EntryAlone' /\ Attempted' = Attempted
  OBVIOUS
<1>1. UNCHANGED <<ost, track, last>> /\ loop.at \in {"idle", "quote"}
  BY DEF TickStep, TickWithoutStop, TickStop, TickEnds
<1>2. loop'.at \in {"idle", "exit"}
  <2>1. CASE TickWithoutStop
    BY <2>1 DEF TickWithoutStop
  <2>2. CASE TickStop
    BY <2>2 DEF TickStop, Idle
  <2>3. CASE TickEnds
    BY <2>3 DEF TickEnds, Idle
  <2> QED
    BY <2>1, <2>2, <2>3 DEF TickStep
<1> QED
  BY <1>1, <1>2, AloneKept

LEMMA ExitAlone ==
    ASSUME Typed, EntryAlone, ExitStep
    PROVE  /\ EntryAlone' /\ Attempted' = Attempted
           /\ track'.plan \in {track.plan, FALSE}
<1>1. /\ loop.at \in {"exit", "exitSubmit"}
      /\ track'.resting = track.resting /\ track'.parked = track.parked
      /\ track'.plan \in {track.plan, FALSE}
  BY DEF ExitStep, ExitFindsFlat, ExitWaits, ExitRefused, SendExit, ExitFills, ExitRejected,
     ExitTimesOut, Cleared, Popped, Typed, TypeOK, Tracks
<1>2. loop'.at # "entrySubmit"
  <2>1. CASE NoExit \/ AfterExit
    BY <1>1, <2>1 DEF NoExit, AfterExit, Idle, Typed, TypeOK
  <2>2. CASE \E c \in Exits : SendExit(c)
    BY <2>2 DEF SendExit, Typed, TypeOK
  <2> QED
    BY <2>1, <2>2 DEF ExitStep, ExitFindsFlat, ExitWaits, ExitRefused, ExitFills, ExitRejected,
       ExitTimesOut
<1>3. \A c \in Entries : ost'[c] = ost[c] /\ last'[c] = last[c]
  <2>1. CASE UNCHANGED <<ost, last>>
    BY <2>1
  <2>2. ASSUME NEW x \in Exits, SendExit(x) PROVE \A c \in Entries : ost'[c] = ost[c] /\ last'[c] = last[c]
    BY <2>2 DEF SendExit, Submit, Typed, TypeOK
  <2>3. CASE ExitFills \/ ExitRejected \/ ExitTimesOut
    <3>1. loop.order \in Exits
      BY <2>3 DEF ExitFills, ExitRejected, ExitTimesOut, Typed, InSubmit
    <3> QED
      BY <2>3, <3>1 DEF ExitFills, ExitRejected, ExitTimesOut, Ends, Typed, TypeOK
  <2> QED
    BY <2>1, <2>2, <2>3 DEF ExitStep, ExitFindsFlat, ExitWaits, ExitRefused
<1> QED
  BY <1>1, <1>2, <1>3, AloneKept

LEMMA EntrySteps ==
    ASSUME Typed, EntryAlone, NEW c \in Entries, SendEntry(c)
    PROVE  /\ EntryAlone'
           /\ Attempted = {} /\ Attempted' = {c}
           /\ ~track.plan /\ ~killed /\ ~storeHalt /\ UNCHANGED <<track, killed, storeHalt>>
<1>1. /\ loop.at = "entry" /\ track.resting = NoOrder /\ Unresolved(ost) = {}
      /\ ~track.plan /\ ~killed /\ ~storeHalt /\ UNCHANGED <<track, killed, storeHalt>>
      /\ Submit(c) /\ loop'.at = "entrySubmit" /\ loop'.order = c
  BY DEF SendEntry, EntryGate, Typed, TypeOK
<1>2. /\ \A d \in Orders : ost[d] \notin UnresolvedStates /\ ost'[d] \notin UnresolvedStates
      /\ \A d \in Orders : d # c => last'[d] = last[d]
  BY <1>1 DEF Submit, Unresolved, UnresolvedStates, Typed, TypeOK
<1>3. Attempted = {} /\ Attempted' = {c}
  BY <1>1, <1>2 DEF Attempted
<1>4. EntryAlone'
  BY <1>1, <1>2 DEF EntryAlone, Unresolved
<1> QED
  BY <1>1, <1>3, <1>4

\* What the answer of an entry's submit call does: it rests or is in doubt, and stays the
\* one attempt, or its fate is known.
LEMMA EntryAnswered ==
    ASSUME Typed, EntryAlone, EntryAcknowledged \/ EntryRejected \/ EntryTimesOut
    PROVE  /\ EntryAlone'
           /\ \/ Attempted' = Attempted /\ track'.plan = track.plan
              \/ Attempted # {} /\ Attempted' = {}
<1> DEFINE c == loop.order
<1>1. /\ loop.at = "entrySubmit" /\ c \in Entries /\ loop'.at = "reconcile"
      /\ track.resting = NoOrder /\ \A d \in Orders : ost[d] \notin UnresolvedStates
      /\ track.parked = {} /\ Attempted = {c}
  BY AloneAttempted DEF EntryAcknowledged, EntryRejected, EntryTimesOut, EntryDone, Idle, Typed,
     InSubmit, EntryAlone, Unresolved
<1>2. ASSUME NEW s \in {"acknowledged", "rejected", "timeout_unknown"}, Ends(c, s)
      PROVE  /\ ost'[c] = s /\ \A d \in Orders : d # c => ost'[d] \notin UnresolvedStates
             /\ last'[c] = "unresolved" => s = "timeout_unknown"
             /\ \A d \in Entries : d # c => last'[d] # "unresolved"
  BY <1>1, <1>2 DEF Ends, EntryAlone, Typed, TypeOK
<1>3. CASE EntryAcknowledged
  <2>1. /\ track'.parked = {}
        /\ \/ track'.resting = NoOrder
           \/ track'.resting = c /\ track'.plan = track.plan
    BY <1>1, <1>3 DEF EntryAcknowledged, Typed, TypeOK, Tracks
  <2>2. Ends(c, "acknowledged")
    BY <1>3 DEF EntryAcknowledged
  <2>3. /\ \A d \in Orders : ost'[d] \notin UnresolvedStates
        /\ \A d \in Entries : last'[d] # "unresolved"
    BY <1>2, <2>2 DEF UnresolvedStates
  <2>4. EntryAlone'
    BY <1>1, <2>1, <2>3 DEF EntryAlone
  <2> QED
    BY <1>1, <2>1, <2>3, <2>4 DEF Attempted
<1>4. CASE EntryRejected
  <2>1. track' = track /\ Ends(c, "rejected")
    BY <1>4 DEF EntryRejected
  <2>2. /\ \A d \in Orders : ost'[d] \notin UnresolvedStates
        /\ \A d \in Entries : last'[d] # "unresolved"
    BY <1>2, <2>1 DEF UnresolvedStates
  <2> QED
    BY <1>1, <2>1, <2>2 DEF EntryAlone, Attempted
<1>5. CASE EntryTimesOut
  <2>1. /\ track'.parked = {c} /\ track'.resting = NoOrder /\ track'.plan = track.plan
        /\ Ends(c, "timeout_unknown")
    BY <1>1, <1>5 DEF EntryTimesOut, Typed, TypeOK, Tracks
  <2>2. /\ ost'[c] \in UnresolvedStates /\ \A d \in Orders : d # c => ost'[d] \notin UnresolvedStates
        /\ \A d \in Entries : d # c => last'[d] # "unresolved"
    BY <1>2, <2>1 DEF UnresolvedStates
  <2> QED
    BY <1>1, <2>1, <2>2 DEF EntryAlone, Attempted, Unresolved
<1> QED
  BY <1>3, <1>4, <1>5
\* A resting entry waits on, has filled, or is cancelled: then its fate is known.
LEMMA PendingAlone ==
    ASSUME Typed, EntryAlone, PendingKeeps \/ PendingCancelled
    PROVE  /\ EntryAlone'
           /\ \/ Attempted' = Attempted /\ track'.plan = track.plan
              \/ Attempted # {} /\ Attempted' = {}
<1>1. loop.at = "pending" /\ loop'.at = "entry"
  BY DEF PendingKeeps, PendingCancelled, ToEntry, Idle
<1>2. CASE track'.resting = track.resting /\ UNCHANGED <<ost, last>> /\ track'.parked = track.parked
           /\ track'.plan = track.plan
  BY <1>1, <1>2, AloneKept
<1>3. CASE /\ track.resting # NoOrder /\ track'.resting = NoOrder /\ track'.parked = track.parked
           /\ \A c \in Entries : ost'[c] \in UnresolvedStates => ost[c] \in UnresolvedStates
           /\ \A c \in Entries : last'[c] = "unresolved" => last[c] = "unresolved"
  <2>1. \A c \in Entries : ost'[c] \notin UnresolvedStates /\ last'[c] # "unresolved"
    BY <1>1, <1>3 DEF EntryAlone
  <2>2. track.parked = {}
    BY <1>3 DEF EntryAlone, Unresolved, Typed, TypeOK, Tracks
  <2>3. EntryAlone' /\ Attempted' = {}
    BY <1>1, <1>3, <2>1, <2>2 DEF EntryAlone, Attempted
  <2>4. Attempted # {}
    BY <1>3, AloneAttempted
  <2> QED
    BY <2>3, <2>4
<1>4. CASE PendingKeeps
  <2>1. UNCHANGED <<ost, last>>
    BY <1>4 DEF PendingKeeps
  <2>2. /\ track'.parked = track.parked
        /\ \/ track'.resting = track.resting /\ track'.plan = track.plan
           \/ track.resting # NoOrder /\ track'.resting = NoOrder
    BY <1>4 DEF PendingKeeps, ToEntry, Aged, Typed, TypeOK, Tracks
  <2> QED
    BY <1>2, <1>3, <2>1, <2>2
<1>5. CASE PendingCancelled
  <2>1. /\ track.resting # NoOrder /\ track'.resting = NoOrder /\ track'.parked = track.parked
        /\ ost' = [ost EXCEPT ![track.resting] = "cancelled"]
        /\ last' = [last EXCEPT ![track.resting] = "done"]
    BY <1>5 DEF PendingCancelled, ToEntry, Typed, TypeOK, Tracks
  <2> QED
    BY <1>3, <2>1 DEF UnresolvedStates, Typed, TypeOK
<1> QED
  BY <1>4, <1>5

\* A pass resolves the one entry in doubt, and only then is its trade taken over.
LEMMA ReconcileAlone ==
    ASSUME Typed, EntryAlone, Reconcile
    PROVE  /\ EntryAlone'
           /\ \/ Attempted' = Attempted /\ track'.plan \in {track.plan, FALSE}
              \/ Attempted # {} /\ Attempted' = {}
<1> DEFINE o == Reconciled(ost)
           ids == Unresolved(ost)
<1>1. /\ loop.at = "reconcile" /\ loop'.at = "persist" /\ ost' = o
      /\ track' = AfterAnswers(o, ids)
      /\ last' = [c \in Orders |-> IF c \in ids THEN "done" ELSE last[c]]
  BY DEF Reconcile, Idle
<1>2. \A c \in Orders : o[c] \notin UnresolvedStates
  BY DEF Reconciled, VenueSays, UnresolvedStates, VenueStatuses, Typed, TypeOK
<1>3. track'.resting = track.resting /\ track'.parked = {}
  <2>1. track.parked \ ids = {}
    BY DEF EntryAlone
  <2>2. track'.resting = track.resting /\ track'.parked = track.parked \ ids
    BY <1>1 DEF AfterAnswers, Cleared, Typed, TypeOK, Tracks
  <2> QED
    BY <2>1, <2>2
<1>4. \A c \in Entries : last'[c] # "unresolved"
  BY <1>1 DEF EntryAlone, Unresolved
<1> HIDE DEF o, ids
<1>5. EntryAlone'
  BY <1>1, <1>2, <1>3, <1>4 DEF EntryAlone
<1>6. Attempted' = IF track.resting = NoOrder THEN {} ELSE {track.resting}
  BY <1>1, <1>2, <1>3 DEF Attempted, Typed, TypeOK, Tracks
<1>7. CASE Attempted # {} /\ track.resting = NoOrder
  BY <1>5, <1>6, <1>7
<1>8. CASE Attempted = {} \/ track.resting # NoOrder
  <2>1. \A c \in Entries : ost[c] \notin UnresolvedStates
    BY <1>8 DEF Attempted, EntryAlone
  <2>2. track.parked = {}
    BY <2>1 DEF EntryAlone, Unresolved, Typed, TypeOK, Tracks
  <2>3. track'.plan \in {track.plan, FALSE}
    BY <1>1, <2>2 DEF AfterAnswers, Cleared, Typed, TypeOK, Tracks
  <2>4. Attempted' = Attempted
    BY <1>6, <1>8, AloneAttempted DEF Attempted
  <2> QED
    BY <1>5, <2>3, <2>4
<1> QED
  BY <1>7, <1>8

\* A restart brings back only entries that were in doubt.
LEMMA RestartAlone ==
    ASSUME Typed, EntryAlone, CrashAndRestart
    PROVE  EntryAlone' /\ Attempted' \subseteq Attempted
<1>1. /\ loop'.at = "idle" /\ track'.resting = NoOrder /\ track'.parked = {}
      /\ ost' = Rehydrated /\ last' = last
  BY DEF CrashAndRestart, Idle, Flat
<1>2. \A c \in Entries : ost'[c] \in UnresolvedStates <=> last[c] = "unresolved"
  BY <1>1 DEF Rehydrated, UnresolvedStates
<1>3. Attempted' = {c \in Entries : last[c] = "unresolved"}
  BY <1>1, <1>2, NoOrder \notin Entries DEF Attempted
<1>4. Attempted' \subseteq Attempted
  BY <1>3, AloneAttempted
<1>5. \A c, d \in Entries : last[c] = "unresolved" /\ last[d] = "unresolved" => c = d
  BY AloneAttempted
<1>6. EntryAlone'
  BY <1>1, <1>2, <1>5 DEF EntryAlone
<1> QED
  BY <1>4, <1>6

CycleStep == [Cycle!Next]_(Cycle!cycleVars)

LEMMA MoveIsStep ==
    ASSUME Typed, Typed',
           \/ Attempted' = Attempted /\ track'.plan \in {track.plan, FALSE}
           \/ Attempted # {} /\ Attempted' = {},
           killed => killed', storeHalt => storeHalt'
    PROVE  CycleStep
<1>1. /\ track.plan \in BOOLEAN /\ track'.plan \in BOOLEAN
      /\ (killed' \/ storeHalt') \in {killed \/ storeHalt, TRUE}
      /\ (killed \/ storeHalt) \in BOOLEAN
  BY DEF Typed, TypeOK, Tracks
<1>2. CASE Attempted' = Attempted /\ track'.plan = track.plan
  BY <1>1, <1>2 DEF CycleStep, Cycle!Next, Cycle!Halt, Cycle!cycleVars
<1>3. CASE Attempted' = Attempted /\ track.plan /\ ~track'.plan
  BY <1>1, <1>3 DEF CycleStep, Cycle!Next, Cycle!End, Cycle!MayHalt
<1>4. CASE Attempted # {} /\ Attempted' = {}
  BY <1>1, <1>4 DEF CycleStep, Cycle!Next, Cycle!Learn, Cycle!MayHalt
<1> QED
  BY <1>1, <1>2, <1>3, <1>4

LEMMA BarCycle ==
    ASSUME Typed, Typed', EntryAlone, BarStep
    PROVE  EntryAlone' /\ CycleStep
<1>1. (killed => killed') /\ (storeHalt => storeHalt')
  <2>1. storeHalt' = storeHalt \/ storeHalt' = TRUE
    BY DEF BarStep, BarExits, BarKeeps, BarBegins, PendingKeeps, PendingCancelled, ToEntry,
       Reconcile, NoReconcile, Persist, PersistFails
  <2>2. CASE PendingKeeps \/ PendingCancelled
    <3>1. \E t : killed' = Guarded(t)
      BY <2>2 DEF PendingKeeps, PendingCancelled, ToEntry
    <3>2. killed => killed'
      BY <3>1 DEF Guarded
    <3> QED
      BY <2>1, <3>2
  <2>3. CASE Reconcile
    BY <2>1, <2>3 DEF Reconcile
  <2>4. CASE killed' = killed
    BY <2>1, <2>4
  <2> QED
    BY <2>2, <2>3, <2>4 DEF BarStep, BarExits, BarKeeps, BarBegins, NoReconcile, Persist,
       PersistFails
<1>2. CASE BarExits \/ BarKeeps \/ NoReconcile \/ Persist \/ PersistFails
  <2>1. UNCHANGED <<ost, track, last>> /\ loop.at \in {"idle", "reconcile", "persist"}
    BY <1>2 DEF BarExits, BarKeeps, BarBegins, NoReconcile, Persist, PersistFails
  <2>2. loop'.at # "entrySubmit"
    BY <1>2 DEF BarExits, BarKeeps, NoReconcile, Persist, PersistFails, AfterPersist, Idle
  <2>3. EntryAlone' /\ Attempted' = Attempted
    BY <2>1, <2>2, AloneKept
  <2> QED
    BY <1>1, <2>1, <2>3, MoveIsStep
<1>3. CASE PendingKeeps \/ PendingCancelled
  BY <1>1, <1>3, PendingAlone, MoveIsStep
<1>4. CASE Reconcile
  BY <1>1, <1>4, ReconcileAlone, MoveIsStep
<1> QED
  BY <1>2, <1>3, <1>4 DEF BarStep

LEMMA EntryCycle ==
    ASSUME Typed, Typed', EntryAlone, EntryStep
    PROVE  EntryAlone' /\ CycleStep
<1>1. CASE NoEntry
  <2>1. UNCHANGED <<ost, track, last, killed, storeHalt>> /\ loop.at = "entry" /\ loop'.at = "reconcile"
    BY <1>1 DEF NoEntry, Idle
  <2>2. EntryAlone' /\ Attempted' = Attempted
    BY <2>1, AloneKept
  <2> QED
    BY <2>1, <2>2, MoveIsStep
<1>2. ASSUME NEW c \in Entries, SendEntry(c) PROVE EntryAlone' /\ CycleStep
  <2>1. Cycle!Enter(c)
    BY <1>2, EntrySteps DEF Cycle!Enter
  <2> QED
    BY <1>2, <2>1, EntrySteps DEF CycleStep, Cycle!Next
<1>3. CASE EntryAcknowledged \/ EntryRejected \/ EntryTimesOut
  <2>1. UNCHANGED <<killed, storeHalt>>
    BY <1>3 DEF EntryAcknowledged, EntryRejected, EntryTimesOut, EntryDone
  <2> QED
    BY <1>3, <2>1, EntryAnswered, MoveIsStep
<1> QED
  BY <1>1, <1>2, <1>3 DEF EntryStep

LEMMA RestartCycle ==
    ASSUME Typed, Typed', EntryAlone, CrashAndRestart
    PROVE  EntryAlone' /\ CycleStep
<1>1. EntryAlone' /\ Attempted' \subseteq Attempted
  BY RestartAlone
<1>2. track'.plan \in BOOLEAN /\ (killed' \/ storeHalt') \in BOOLEAN
  BY DEF Typed, TypeOK, Tracks
<1>3. Cycle!Restart
  BY <1>1, <1>2 DEF Cycle!Restart
<1> QED
  BY <1>1, <1>3 DEF CycleStep, Cycle!Next

LEMMA CycleSteps == Typed /\ Typed' /\ EntryAlone /\ [Next]_vars => EntryAlone' /\ CycleStep
<1> SUFFICES ASSUME Typed, Typed', EntryAlone, [Next]_vars PROVE EntryAlone' /\ CycleStep
  OBVIOUS
<1>1. CASE TickStep
  <2>1. UNCHANGED <<track, killed, storeHalt>>
    BY <1>1 DEF TickStep, TickWithoutStop, TickStop, TickEnds
  <2> QED
    BY <1>1, <2>1, TickAlone, MoveIsStep
<1>2. CASE ExitStep
  <2>1. UNCHANGED <<killed, storeHalt>>
    BY <1>2 DEF ExitStep, ExitFindsFlat, ExitWaits, ExitRefused, SendExit, ExitFills, ExitRejected,
       ExitTimesOut
  <2> QED
    BY <1>2, <2>1, ExitAlone, MoveIsStep
<1>3. CASE UNCHANGED vars
  <2>1. EntryAlone' /\ Attempted' = Attempted
    BY <1>3 DEF EntryAlone, Attempted, Unresolved
  <2> QED
    BY <1>3, <2>1, MoveIsStep
<1> QED
  BY <1>1, <1>2, <1>3, BarCycle, EntryCycle, RestartCycle DEF Next

LEMMA AloneInvariant == Spec => []EntryAlone
<1>1. Init => EntryAlone
  BY DEF Init, EntryAlone, Flat, Idle, UnresolvedStates, Unresolved
<1> QED
  BY TypeInvariant, <1>1, CycleSteps, PTL DEF Spec

\* The session's life is a sequence of trades, over any number of crashes: an entry goes
\* out only when no trade is open and every earlier entry's fate is known, a trade opens
\* only when the fate of the one entry in doubt is learnt or the process is started again,
\* and a restart brings back no entry that was not in doubt.
THEOREM PaperImplementsTradeCycle == Spec => ImplementsTradeCycle
<1>1. Init => Cycle!Init
  BY DEF Init, Cycle!Init, Attempted, Flat, Idle, UnresolvedStates
<1>2. Typed /\ Typed' /\ EntryAlone /\ [Next]_vars => [Cycle!Next]_(Cycle!cycleVars)
  BY CycleSteps DEF CycleStep
<1> QED
  BY TypeInvariant, AloneInvariant, <1>1, <1>2, PTL DEF Spec, ImplementsTradeCycle, Cycle!Spec

\* At most one entry at a time is of unknown fate, restarts included.
THEOREM PaperOneEntryAtATime == Spec => []Cycle!OneAtATime
<1>1. Typed /\ EntryAlone => Cycle!OneAtATime
  BY AloneAttempted DEF Cycle!OneAtATime
<1> QED
  BY TypeInvariant, AloneInvariant, <1>1, PTL
=============================================================================
