------------------------- MODULE OrderSpineOnceProofs -------------------------
(***************************************************************************)
(* At most one attempt of a decision at work: OneExposedAttempt, for every *)
(* value of the constants under which a request the adapter gave up on     *)
(* does not land late and the venue notices a repeated client id first.    *)
(***************************************************************************)
EXTENDS OrderSpineProofs

USE SpineAssumption DEF SpineAssumption

NetworkAssumption == ~LateLanding /\ DuplicatesFirst

-------------------------------------------------------------------------------
(***************************************************************************)
(* The inductive invariant.                                                *)
(***************************************************************************)

\* An id nobody has minted has left no trace.
Untouched(c) ==
    /\ ost[c] = "none" /\ wal[c] = "none" /\ c \notin walIntent
    /\ canc[c] = "idle" /\ recon.order # c
    /\ ~OnTheWay(c)

UnmintedUntouched == \A c \in Orders : owner[c] = NoDecision => Untouched(c)

\* What the manager was told of, the venue has.
ToldOf(c) ==
    \/ ost[c] \in {"acknowledged", "partially_filled", "cancel_requested"}
    \/ canc[c] # "idle"
    \/ vfilled[c] > 0

KnownToVenue ==
    /\ \A c \in Orders : ToldOf(c) => venue[c] # "absent"
    /\ recon.answer \in VenueStatuses \ {"absent"} => venue[recon.order] # "absent"

\* An order that counts, or will count, as cancelled or rejected is over.
CountsAsOver(c) ==
    ost[c] \in {"cancelled", "rejected"} \/ wal[c] = "order_rejected"

OverAtVenue ==
    /\ \A c \in Orders : CountsAsOver(c) => ~Exposed(c)
    /\ recon.answer \in {"absent", "canceled", "rejected"} => ~Exposed(recon.order)

\* An order in doubt is at the venue or never will be, which is what lets the
\* reconciler read "not found" as a rejection.
DoubtCannotLand ==
    /\ \A c \in Orders : ost[c] \in UnresolvedStates => ~MayLand(c)
    /\ recon.order \in Orders => ~MayLand(recon.order)

\* The attempt that can be at work is the one the registry and its replay know.
LatestAttempt ==
    \A c \in walIntent : Exposed(c) => registry[owner[c]] = c /\ walKey[owner[c]] = c

OnceInv ==
    /\ UnmintedUntouched /\ KnownToVenue /\ OverAtVenue /\ DoubtCannotLand
    /\ LatestAttempt

-------------------------------------------------------------------------------
(* What no step does to a minted order: bring it back to work.             *)

Minted(c) == owner[c] # NoDecision

OnlyWindsDown(c) ==
    /\ MayLand(c)' => MayLand(c)
    /\ Exposed(c)' => Exposed(c)
    /\ venue[c] # "absent" => venue'[c] # "absent"
    /\ owner'[c] = owner[c]

LEMMA WindsDown ==
    ASSUME TypeOK, [Next]_vars, NEW x \in Orders, Minted(x)
    PROVE  OnlyWindsDown(x)
<1> USE DEF OnlyWindsDown, Exposed, MayLand, Minted, TypeOK, VenueTypeOK, CallTypeOK
<1>1. ASSUME NEW c \in Orders, NEW d \in Decisions, SubmitSends(d, c)
      PROVE  OnlyWindsDown(x)
  BY <1>1 DEF SubmitSends, Admitted, RegisterAndJournal
<1>2. ASSUME NEW c \in Orders, NEW d \in Decisions, SubmitAborts(d, c)
      PROVE  OnlyWindsDown(x)
  BY <1>2 DEF SubmitAborts, Admitted, RegisterAndJournal, callVars, venueVars
<1>3. ASSUME NEW c \in Orders, CallEnds(c) PROVE OnlyWindsDown(x)
  BY <1>3 DEF CallEnds, SubmitReturns, SubmitRejected, SubmitNetworkError,
              SubmitRetries, SubmitTimesOut, SubmitFaults, ParkAsUnknown, Settled,
              WireAfterGivingUp, venueVars
<1>4. ASSUME NEW c \in Orders, VenueStep(c) PROVE OnlyWindsDown(x)
  BY <1>4 DEF VenueStep, VenueAccepts, VenueFills, VenueEnds, callVars
<1>5. ASSUME NEW c \in Orders, StreamStep(c) \/ CancelStep(c) \/ SyncFillState(c)
      PROVE  OnlyWindsDown(x)
  BY <1>5 DEF StreamStep, StreamOrder, StreamFill, CancelStep, CancelBegins,
              CancelAnswered, CancelFails, CancelRefreshes, SyncFillState,
              callVars, venueVars
<1>6. CASE ReconcileStep
  BY <1>6 DEF ReconcileStep, ReconcileBegins, ReconcileFetches, ReconcileFails,
              ReconcileResolves, venueVars
<1>7. CASE CrashAndRestart
  BY <1>7 DEF CrashAndRestart, Restarted
<1>8. ASSUME NEW c \in Orders, NEW d \in Decisions, CrashInsideSubmit(d, c)
      PROVE  OnlyWindsDown(x)
  BY <1>8 DEF CrashInsideSubmit, Admitted, Restarted
<1>9. CASE AcknowledgeRecovery \/ SideRecordFails \/ UNCHANGED vars
  BY <1>9 DEF AcknowledgeRecovery, SideRecordFails, vars, callVars, venueVars
<1> QED
  BY <1>1, <1>2, <1>3, <1>4, <1>5, <1>6, <1>7, <1>8, <1>9
  DEF Next, SubmitStep, CallEnds, CrashStep

-------------------------------------------------------------------------------
(* Which transitions the guards of the actions stand for.                  *)

LEMMA CancellableStates ==
    ASSUME NEW s, Legal(s, "cancel_requested")
    PROVE  s \in {"acknowledged", "partially_filled"}
BY DEF Legal, LegalTransitions

LEMMA StreamLeaves ==
    ASSUME NEW s, NEW target
    PROVE  StreamResult(s, target) \in {s, target}
BY DEF StreamResult

\* An event says only what the venue's order has been.
LEMMA EventIsTrue ==
    ASSUME VenueTypeOK, NEW c \in Orders, NEW e \in OrderEvents(c)
    PROVE  /\ venue[c] # "absent"
           /\ StreamTarget(e) = "cancelled" => venue[c] = "canceled"
           /\ StreamTarget(e) = "rejected" => venue[c] = "rejected"
           /\ StreamTarget(e) \in {"acknowledged", "partially_filled", "filled",
                                    "cancelled", "rejected"}
BY DEF VenueTypeOK, OrderEvents, StreamTarget, VenueStatuses

\* What one stream callback makes of an order.
LEMMA StreamMoves ==
    ASSUME TypeOK, KnownToVenue, NEW c \in Orders, StreamStep(c)
    PROVE  /\ ost[c] # "none"
           /\ \E s \in {ost[c], "acknowledged", "partially_filled", "filled",
                        "cancelled", "rejected"} :
                 /\ ost' = [ost EXCEPT ![c] = s]
                 /\ s # ost[c] => venue[c] # "absent"
                 /\ s # ost[c] /\ s = "cancelled" => venue[c] = "canceled"
                 /\ s # ost[c] /\ s = "rejected" => venue[c] = "rejected"
           /\ UNCHANGED <<registry, journalVars, callVars, venueVars, owner>>
<1>1. CASE StreamOrder(c)
  <2>1. PICK e \in OrderEvents(c) :
          ost' = [ost EXCEPT ![c] = StreamResult(ost[c], StreamTarget(e))]
    BY <1>1 DEF StreamOrder
  <2> DEFINE s == StreamResult(ost[c], StreamTarget(e))
  <2>2. s \in {ost[c], StreamTarget(e)}
    BY StreamLeaves
  <2>3. ost' = [ost EXCEPT ![c] = s]
    BY <2>1
  <2> HIDE DEF s
  <2> QED
    BY <1>1, <2>2, <2>3, EventIsTrue DEF StreamOrder, TypeOK
<1>2. ASSUME NEW i \in 1 .. Qty, StreamFill(c, i)
      PROVE  /\ ost[c] # "none"
             /\ \E s \in {ost[c], "partially_filled", "filled"} :
                   /\ ost' = [ost EXCEPT ![c] = s]
                   /\ s # ost[c] => venue[c] # "absent"
             /\ UNCHANGED <<registry, journalVars, callVars, venueVars, owner>>
  <2> DEFINE total  == Larger(filled[c], tradeSum[c] + 1)
             target == IF total >= Qty THEN "filled" ELSE "partially_filled"
             s      == StreamResult(ost[c], target)
  <2>1. ost' = [ost EXCEPT ![c] = s] /\ i <= vfilled[c]
    BY <1>2 DEF StreamFill
  <2>2. s \in {ost[c], target} /\ target \in {"partially_filled", "filled"}
    BY StreamLeaves
  <2>3. venue[c] # "absent"
    BY <2>1 DEF TypeOK, VenueTypeOK, KnownToVenue, ToldOf
  <2> HIDE DEF s, target
  <2> QED
    BY <1>2, <2>1, <2>2, <2>3 DEF StreamFill
<1> QED
  BY <1>1, <1>2 DEF StreamStep

LEMMA FetchAnswers ==
    ASSUME TypeOK, ReconcileFetches
    PROVE  /\ recon.order \in Orders /\ recon'.order = recon.order
           /\ recon'.answer = venue[recon.order]
<1>1. recon.order \in Orders /\ recon \in [order : Orders \cup {NoOrder},
                  answer : {"idle", "waiting"} \cup VenueStatuses, filled : 0 .. Qty]
  BY DEF ReconcileFetches, TypeOK, CallTypeOK
<1>2. recon' = [recon EXCEPT !.answer = venue[recon.order],
                             !.filled = vfilled[recon.order]]
  BY DEF ReconcileFetches
<1> QED
  BY <1>1, <1>2

-------------------------------------------------------------------------------
(* Each part of the invariant is kept by every step.                       *)

LEMMA UnmintedStep ==
    ASSUME TypeOK, OnceInv, [Next]_vars, NEW x \in Orders, owner'[x] = NoDecision
    PROVE  Untouched(x)'
<1> USE DEF TypeOK, ManagerTypeOK, JournalTypeOK, CallTypeOK, VenueTypeOK,
            Untouched, OnTheWay
<1>1. ASSUME NEW c \in Orders, NEW d \in Decisions, SubmitSends(d, c)
      PROVE  owner[x] = NoDecision /\ Untouched(x)'
  <2>1. PICK i \in AppendOutcomes, s \in AppendOutcomes :
          /\ RegisterAndJournal(d, c, i)
          /\ wal' = [wal EXCEPT ![c] = LastSubmitRecord(i, s)]
    BY <1>1 DEF SubmitSends
  <2>2. x # c /\ owner[x] = NoDecision
    BY <2>1 DEF RegisterAndJournal
  <2> QED
    BY <1>1, <2>1, <2>2 DEF SubmitSends, RegisterAndJournal, OnceInv,
                            UnmintedUntouched
<1>2. ASSUME NEW c \in Orders, NEW d \in Decisions, SubmitAborts(d, c)
      PROVE  owner[x] = NoDecision /\ Untouched(x)'
  <2>1. PICK i, s :
          /\ RegisterAndJournal(d, c, i)
          /\ wal' = [wal EXCEPT ![c] = LastSubmitRecord(i, s)]
    BY <1>2 DEF SubmitAborts
  <2>2. x # c /\ owner[x] = NoDecision
    BY <2>1 DEF RegisterAndJournal
  <2> QED
    BY <1>2, <2>1, <2>2 DEF SubmitAborts, RegisterAndJournal, OnceInv,
                            UnmintedUntouched, callVars, venueVars
<1>3. ASSUME NEW c \in Orders, CallEnds(c) PROVE Untouched(x)'
  <2>1. owner' = owner /\ walIntent' = walIntent /\ phase[c] # "idle"
    BY <1>3 DEF CallEnds, SubmitReturns, SubmitRejected, SubmitNetworkError,
                SubmitRetries, SubmitTimesOut, SubmitFaults, ParkAsUnknown, Log,
                journalVars
  <2>2. Untouched(x) /\ x # c
    BY <2>1 DEF OnceInv, UnmintedUntouched
  <2>3. /\ ost'[x] = ost[x] /\ wal'[x] = wal[x]
        /\ UNCHANGED <<canc, recon, venue>>
        /\ wire'[x] = wire[x] /\ phase'[x] = phase[x]
    BY <1>3, <2>2 DEF CallEnds, SubmitReturns, SubmitRejected, SubmitNetworkError,
                SubmitRetries, SubmitTimesOut, SubmitFaults, ParkAsUnknown, Log,
                Settled, WireAfterGivingUp, journalVars, managerVars, venueVars
  <2> QED
    BY <2>1, <2>2, <2>3
<1>4. ASSUME NEW c \in Orders, VenueStep(c) PROVE Untouched(x)'
  BY <1>4 DEF OnceInv, UnmintedUntouched, VenueStep, VenueAccepts, VenueFills,
              VenueEnds, managerVars, journalVars, callVars
<1>5. ASSUME NEW c \in Orders, StreamStep(c) PROVE Untouched(x)'
  BY <1>5, StreamMoves DEF OnceInv, UnmintedUntouched, journalVars, callVars, venueVars
<1>6. ASSUME NEW c \in Orders, CancelStep(c) PROVE Untouched(x)'
  <2>1. /\ owner' = owner /\ walIntent' = walIntent
        /\ ost[c] # "none" \/ canc[c] # "idle"
    BY <1>6, CancellableStates
    DEF CancelStep, CancelBegins, CancelAnswered, CancelFails, CancelRefreshes, Log,
        journalVars
  <2>2. Untouched(x) /\ x # c
    BY <2>1 DEF OnceInv, UnmintedUntouched
  <2> QED
    BY <1>6, <2>1, <2>2
    DEF CancelStep, CancelBegins, CancelAnswered, CancelFails, CancelRefreshes, Log,
        managerVars, journalVars, venueVars
<1>7. ASSUME NEW c \in Orders, ReconcileBegins(c) PROVE Untouched(x)'
  <2>1. owner' = owner /\ walIntent' = walIntent /\ ost[c] \in UnresolvedStates
    BY <1>7 DEF ReconcileBegins, NeedsReconciliation, Log, journalVars
  <2>2. Untouched(x) /\ x # c
    BY <2>1 DEF OnceInv, UnmintedUntouched, UnresolvedStates
  <2> QED
    BY <1>7, <2>1, <2>2 DEF ReconcileBegins, Log, journalVars, venueVars
<1>8. CASE ReconcileFetches \/ ReconcileFails
  <2>1. recon'.order \in {recon.order, NoOrder}
    BY <1>8, FetchAnswers DEF ReconcileFails, NoFetch
  <2>2. UNCHANGED <<managerVars, journalVars, phase, attempt, canc, venueVars, owner>>
    BY <1>8 DEF ReconcileFetches, ReconcileFails
  <2> QED
    BY <2>1, <2>2 DEF OnceInv, UnmintedUntouched, managerVars, journalVars, venueVars
<1>9. CASE ReconcileResolves
  <2>1. owner' = owner /\ walIntent' = walIntent /\ recon' = NoFetch
        /\ recon.order \in Orders
    BY <1>9 DEF ReconcileResolves, Log, journalVars, VenueStatuses
  <2>2. Untouched(x) /\ x # recon.order
    BY <2>1 DEF OnceInv, UnmintedUntouched
  <2> QED
    BY <1>9, <2>1, <2>2 DEF ReconcileResolves, Log, NoFetch, journalVars, venueVars
<1>10. ASSUME NEW c \in Orders, SyncFillState(c) PROVE Untouched(x)'
  <2>1. owner' = owner /\ walIntent' = walIntent /\ ost[c] # "none"
    BY <1>10 DEF SyncFillState, Log
  <2>2. Untouched(x) /\ x # c
    BY <2>1 DEF OnceInv, UnmintedUntouched
  <2> QED
    BY <1>10, <2>1, <2>2 DEF SyncFillState, Log, callVars, venueVars
<1>11. CASE CrashAndRestart
  BY <1>11 DEF OnceInv, UnmintedUntouched, CrashAndRestart, Restarted, Rehydrated,
               NoFetch
<1>12. ASSUME NEW c \in Orders, NEW d \in Decisions, CrashInsideSubmit(d, c)
       PROVE  Untouched(x)'
  <2>1. /\ owner' = [owner EXCEPT ![c] = d]
        /\ wal' = [wal EXCEPT ![c] = "order_intent"]
        /\ walIntent' = walIntent \cup {c}
        /\ venue' = venue
    BY <1>12 DEF CrashInsideSubmit
  <2>2. x # c /\ Untouched(x)
    BY <2>1 DEF OnceInv, UnmintedUntouched
  <2>3. ost'[x] = "none"
    BY <1>12, <2>2 DEF CrashInsideSubmit, Restarted, Rehydrated
  <2> QED
    BY <1>12, <2>1, <2>2, <2>3 DEF CrashInsideSubmit, Restarted, NoFetch
<1>13. CASE AcknowledgeRecovery \/ SideRecordFails \/ UNCHANGED vars
  BY <1>13 DEF OnceInv, UnmintedUntouched, AcknowledgeRecovery, SideRecordFails, vars,
               managerVars, journalVars, callVars, venueVars
<1> QED
  BY <1>1, <1>2, <1>3, <1>4, <1>5, <1>6, <1>7, <1>8, <1>9, <1>10, <1>11, <1>12, <1>13
  DEF Next, SubmitStep, CallEnds, CrashStep, ReconcileStep

\* A step by which the manager comes to know of an order finds it at the venue.
LEMMA ToldOfStep ==
    ASSUME TypeOK, OnceInv, [Next]_vars, NEW x \in Orders, ToldOf(x)'
    PROVE  ToldOf(x) \/ venue[x] # "absent"
<1> USE DEF TypeOK, ManagerTypeOK, CallTypeOK, VenueTypeOK, ToldOf
<1>1. ASSUME NEW c \in Orders, NEW d \in Decisions,
             SubmitSends(d, c) \/ SubmitAborts(d, c)
      PROVE  ToldOf(x)
  BY <1>1 DEF SubmitSends, SubmitAborts, callVars, venueVars
<1>2. ASSUME NEW c \in Orders, CallEnds(c)
      PROVE  ToldOf(x) \/ venue[x] # "absent"
  BY <1>2 DEF CallEnds, SubmitReturns, SubmitRejected, SubmitNetworkError,
              SubmitRetries, SubmitTimesOut, SubmitFaults, ParkAsUnknown, Settled,
              managerVars, venueVars
<1>3. ASSUME NEW c \in Orders, VenueStep(c)
      PROVE  ToldOf(x) \/ venue[x] # "absent"
  BY <1>3 DEF VenueStep, VenueAccepts, VenueFills, VenueEnds, managerVars, callVars
<1>4. ASSUME NEW c \in Orders, StreamStep(c)
      PROVE  ToldOf(x) \/ venue[x] # "absent"
  BY <1>4, StreamMoves DEF OnceInv, callVars, venueVars
<1>5. ASSUME NEW c \in Orders, CancelStep(c) PROVE ToldOf(x)
  BY <1>5, CancellableStates
  DEF CancelStep, CancelBegins, CancelAnswered, CancelFails, CancelRefreshes,
      managerVars, venueVars
<1>6. ASSUME NEW c \in Orders, ReconcileBegins(c) PROVE ToldOf(x)
  BY <1>6 DEF ReconcileBegins, venueVars
<1>7. CASE ReconcileFetches \/ ReconcileFails
  BY <1>7 DEF ReconcileFetches, ReconcileFails, managerVars, venueVars
<1>8. CASE ReconcileResolves
  <2>1. recon.order \in Orders /\ UNCHANGED <<canc, vfilled>>
    BY <1>8 DEF ReconcileResolves, VenueStatuses, venueVars
  <2>2. ost'[x] = ost[x] \/ (x = recon.order
                            /\ ost'[x] = ReconcileTarget(recon.answer, recon.filled))
    BY <1>8, <2>1 DEF ReconcileResolves
  <2>3. ReconcileTarget(recon.answer, recon.filled)
          \in {"acknowledged", "partially_filled", "cancel_requested"}
        => venue[recon.order] # "absent"
    BY <1>8 DEF ReconcileResolves, ReconcileTarget, VenueStatuses, OnceInv, KnownToVenue
  <2> QED
    BY <2>1, <2>2, <2>3
<1>9. ASSUME NEW c \in Orders, SyncFillState(c) PROVE ToldOf(x)
  BY <1>9 DEF SyncFillState, callVars, venueVars
<1>10. CASE CrashStep
  BY <1>10 DEF CrashStep, CrashAndRestart, CrashInsideSubmit, Restarted, Rehydrated
<1>11. CASE AcknowledgeRecovery \/ SideRecordFails \/ UNCHANGED vars
  BY <1>11 DEF AcknowledgeRecovery, SideRecordFails, vars, managerVars, callVars,
               venueVars
<1> QED
  BY <1>1, <1>2, <1>3, <1>4, <1>5, <1>6, <1>7, <1>8, <1>9, <1>10, <1>11
  DEF Next, SubmitStep, CallEnds, ReconcileStep

\* What a step does to the pending status fetch.
LEMMA FetchStep ==
    ASSUME TypeOK, OnceInv, [Next]_vars
    PROVE  \/ recon' = recon
           \/ recon' = NoFetch
           \/ ReconcileFetches
           \/ \E c \in Orders : /\ ost[c] \in UnresolvedStates
                               /\ recon' = [order |-> c, answer |-> "waiting",
                                            filled |-> 0]
BY DEF Next, SubmitStep, SubmitSends, SubmitAborts, SubmitReturns, SubmitRejected,
       SubmitNetworkError, SubmitRetries, SubmitTimesOut, SubmitFaults, ParkAsUnknown,
       Settled, VenueStep, VenueAccepts, VenueFills, VenueEnds, StreamStep, StreamOrder,
       StreamFill, CancelStep, CancelBegins, CancelAnswered, CancelFails,
       CancelRefreshes, SyncFillState, ReconcileStep, ReconcileBegins,
       NeedsReconciliation, ReconcileFails, ReconcileResolves, CrashStep,
       CrashAndRestart, CrashInsideSubmit, Restarted, AcknowledgeRecovery,
       SideRecordFails, vars, callVars

LEMMA KnownStep ==
    ASSUME TypeOK, OnceInv, [Next]_vars
    PROVE  KnownToVenue'
<1>1. ASSUME NEW x \in Orders, venue[x] # "absent"
      PROVE  venue'[x] # "absent"
  <2>1. Minted(x)
    BY <1>1 DEF Minted, OnceInv, UnmintedUntouched, Untouched, OnTheWay
  <2> QED
    BY <1>1, <2>1, WindsDown DEF OnlyWindsDown
<1>2. ASSUME NEW x \in Orders, ToldOf(x)'
      PROVE  venue'[x] # "absent"
  BY <1>1, <1>2, ToldOfStep DEF OnceInv, KnownToVenue
<1>3. ASSUME recon'.answer \in VenueStatuses \ {"absent"}
      PROVE  venue'[recon'.order] # "absent"
  <2>1. CASE recon' = recon
    <3>1. recon.order \in Orders
      BY <1>3, <2>1 DEF TypeOK, CallTypeOK, VenueStatuses
    <3> QED
      BY <1>1, <1>3, <2>1, <3>1 DEF OnceInv, KnownToVenue
  <2>2. CASE ReconcileFetches
    BY <1>1, <1>3, <2>2, FetchAnswers
  <2> QED
    BY <1>3, <2>1, <2>2, FetchStep DEF NoFetch, VenueStatuses
<1> QED
  BY <1>2, <1>3 DEF KnownToVenue

\* A minted order that is not at work stays so.
LEMMA StaysOver ==
    ASSUME TypeOK, OnceInv, [Next]_vars, NEW x \in Orders,
           ost[x] # "none" \/ wal[x] # "none" \/ x \in walIntent \/ recon.order = x
    PROVE  OnlyWindsDown(x)
BY WindsDown DEF Minted, OnceInv, UnmintedUntouched, Untouched

\* An order comes to count as cancelled or rejected only when it is over.
LEMMA CountsAsOverStep ==
    ASSUME NetworkAssumption, TypeOK, OnceInv, [Next]_vars, NEW x \in Orders,
           CountsAsOver(x)'
    PROVE  CountsAsOver(x) \/ ~Exposed(x)'
<1> USE DEF TypeOK, ManagerTypeOK, JournalTypeOK, CallTypeOK, VenueTypeOK,
            CountsAsOver, Exposed, MayLand
<1>1. ASSUME NEW c \in Orders, NEW d \in Decisions, SubmitSends(d, c)
      PROVE  CountsAsOver(x)
  <2>1. \E i, s : wal' = [wal EXCEPT ![c] = LastSubmitRecord(i, s)]
    BY <1>1 DEF SubmitSends
  <2> QED
    BY <1>1, <2>1 DEF SubmitSends, LastSubmitRecord
<1>2. ASSUME NEW c \in Orders, NEW d \in Decisions, SubmitAborts(d, c)
      PROVE  CountsAsOver(x) \/ ~Exposed(x)'
  <2>1. \E i, s : wal' = [wal EXCEPT ![c] = LastSubmitRecord(i, s)]
    BY <1>2 DEF SubmitAborts
  <2>2. ~OnTheWay(c)
    BY <1>2 DEF SubmitAborts, Admitted, OnceInv, UnmintedUntouched, Untouched
  <2>3. x # c => ost'[x] = ost[x] /\ wal'[x] = wal[x]
    BY <1>2, <2>1 DEF SubmitAborts
  <2> QED
    BY <1>2, <2>2, <2>3 DEF SubmitAborts, OnTheWay, callVars, venueVars
<1>3. ASSUME NEW c \in Orders, SubmitReturns(c) PROVE CountsAsOver(x)
  BY <1>3 DEF SubmitReturns
<1>4. ASSUME NEW c \in Orders, SubmitRejected(c)
      PROVE  CountsAsOver(x) \/ ~Exposed(x)'
  <2>1. venue[c] = "absent" /\ venue' = venue
    BY <1>4 DEF SubmitRejected, NetworkAssumption
  <2>2. wire'[c] = FALSE
    BY <1>4, Zenon DEF SubmitRejected, NetworkAssumption
  <2>3. phase'[c] = "idle"
    BY <1>4 DEF SubmitRejected, Settled
  <2>4. x # c => ost'[x] = ost[x] /\ wal'[x] = wal[x]
    BY <1>4 DEF SubmitRejected, Log, journalVars
  <2> QED
    BY <2>1, <2>2, <2>3, <2>4
<1>5. ASSUME NEW c \in Orders, NEW j \in BOOLEAN, ParkAsUnknown(c, j)
      PROVE  CountsAsOver(x)
  BY <1>5 DEF ParkAsUnknown, Log, journalVars
<1>6. ASSUME NEW c \in Orders,
             SubmitNetworkError(c) \/ SubmitRetries(c) \/ VenueStep(c)
      PROVE  CountsAsOver(x)
  BY <1>6 DEF SubmitNetworkError, SubmitRetries, VenueStep, VenueAccepts, VenueFills,
              VenueEnds, managerVars, journalVars
<1>7. ASSUME NEW c \in Orders, StreamStep(c)
      PROVE  CountsAsOver(x) \/ ~Exposed(x)'
  BY <1>7, StreamMoves DEF OnceInv, journalVars, callVars, venueVars
<1>8. ASSUME NEW c \in Orders, CancelStep(c)
      PROVE  CountsAsOver(x) \/ ~Exposed(x)'
  <2>1. CASE CancelBegins(c) \/ CancelFails(c) \/ CancelRefreshes(c)
    BY <2>1 DEF CancelBegins, CancelFails, CancelRefreshes, Log, managerVars,
                journalVars
  <2>2. CASE CancelAnswered(c)
    <3>1. venue[c] # "absent"
      BY <2>2 DEF CancelAnswered, OnceInv, KnownToVenue, ToldOf
    <3> QED
      BY <2>2, <3>1 DEF CancelAnswered, CancelTarget, journalVars, venueVars
  <2> QED BY <1>8, <2>1, <2>2 DEF CancelStep
<1>9. ASSUME NEW c \in Orders, ReconcileBegins(c) PROVE CountsAsOver(x)
  BY <1>9 DEF ReconcileBegins, Log, journalVars
<1>10. CASE ReconcileFetches \/ ReconcileFails
  BY <1>10 DEF ReconcileFetches, ReconcileFails, managerVars, journalVars
<1>11. CASE ReconcileResolves
  <2>1. recon.order \in Orders /\ UNCHANGED <<phase, venueVars>>
    BY <1>11 DEF ReconcileResolves, VenueStatuses
  <2>2. \/ ost'[x] = ost[x]
        \/ x = recon.order /\ ost'[x] = ReconcileTarget(recon.answer, recon.filled)
    BY <1>11, <2>1 DEF ReconcileResolves
  <2>3. wal'[x] = "order_rejected" => wal[x] = "order_rejected"
    BY <1>11, <2>1 DEF ReconcileResolves, Log, journalVars
  <2>4. ReconcileTarget(recon.answer, recon.filled) \in {"cancelled", "rejected"}
        => ~Exposed(recon.order)
    BY <1>11 DEF ReconcileResolves, ReconcileTarget, VenueStatuses, OnceInv, OverAtVenue
  <2> QED
    BY <2>1, <2>2, <2>3, <2>4 DEF venueVars
<1>12. ASSUME NEW c \in Orders, SyncFillState(c) PROVE CountsAsOver(x)
  BY <1>12 DEF SyncFillState, Log
<1>13. CASE CrashAndRestart
  BY <1>13 DEF CrashAndRestart, Restarted, Rehydrated
<1>14. ASSUME NEW c \in Orders, NEW d \in Decisions, CrashInsideSubmit(d, c)
       PROVE  CountsAsOver(x)
  BY <1>14 DEF CrashInsideSubmit, Restarted, Rehydrated
<1>15. CASE AcknowledgeRecovery \/ SideRecordFails \/ UNCHANGED vars
  BY <1>15 DEF AcknowledgeRecovery, SideRecordFails, vars, managerVars, journalVars
<1> QED
  BY <1>1, <1>2, <1>3, <1>4, <1>5, <1>6, <1>7, <1>8, <1>9, <1>10, <1>11, <1>12,
     <1>13, <1>14, <1>15
  DEF Next, SubmitStep, SubmitTimesOut, SubmitFaults, ReconcileStep, CrashStep

LEMMA OverStep ==
    ASSUME NetworkAssumption, TypeOK, OnceInv, [Next]_vars
    PROVE  OverAtVenue'
<1>1. ASSUME NEW x \in Orders, CountsAsOver(x)'
      PROVE  ~Exposed(x)'
  <2>1. CASE CountsAsOver(x)
    BY <2>1, StaysOver DEF OnlyWindsDown, CountsAsOver, OnceInv, OverAtVenue
  <2> QED
    BY <1>1, <2>1, CountsAsOverStep
<1>2. ASSUME recon'.answer \in {"absent", "canceled", "rejected"}
      PROVE  ~Exposed(recon.order)'
  <2>1. CASE recon' = recon
    <3>1. recon.order \in Orders /\ ~Exposed(recon.order)
      BY <1>2, <2>1 DEF TypeOK, CallTypeOK, OnceInv, OverAtVenue
    <3>2. OnlyWindsDown(recon.order)
      BY <3>1, StaysOver
    <3> QED
      BY <2>1, <3>1, <3>2 DEF OnlyWindsDown, Exposed, MayLand
  <2>2. CASE ReconcileFetches
    <3>1. ~Exposed(recon.order)
      BY <1>2, <2>2, FetchAnswers DEF OnceInv, DoubtCannotLand, Exposed
    <3> QED
      BY <2>2, <3>1, FetchAnswers DEF ReconcileFetches, Exposed, MayLand, venueVars
  <2> QED
    BY <1>2, <2>1, <2>2, FetchStep DEF NoFetch
<1> QED
  BY <1>1, <1>2 DEF OverAtVenue

\* An order comes into doubt only when it can no longer land unseen.
LEMMA DoubtBeginsStep ==
    ASSUME NetworkAssumption, TypeOK, OnceInv, [Next]_vars, NEW x \in Orders,
           ost'[x] \in UnresolvedStates
    PROVE  ost[x] \in UnresolvedStates \/ ~MayLand(x)'
<1> USE DEF TypeOK, ManagerTypeOK, CallTypeOK, VenueTypeOK, MayLand, UnresolvedStates
<1>1. ASSUME NEW c \in Orders, NEW d \in Decisions,
             SubmitSends(d, c) \/ SubmitAborts(d, c)
      PROVE  ost[x] \in UnresolvedStates
  BY <1>1 DEF SubmitSends, SubmitAborts
<1>2. ASSUME NEW c \in Orders,
             \/ SubmitReturns(c) \/ SubmitRejected(c) \/ SubmitNetworkError(c)
             \/ SubmitRetries(c) \/ VenueStep(c) \/ SyncFillState(c)
      PROVE  ost[x] \in UnresolvedStates
  BY <1>2 DEF SubmitReturns, SubmitRejected, SubmitNetworkError, SubmitRetries,
              VenueStep, VenueAccepts, VenueFills, VenueEnds, SyncFillState, managerVars
<1>3. ASSUME NEW c \in Orders, NEW j \in BOOLEAN, ParkAsUnknown(c, j)
      PROVE  ost[x] \in UnresolvedStates \/ ~MayLand(x)'
  <2>1. wire'[c] = FALSE /\ phase'[c] = "idle"
    BY <1>3 DEF ParkAsUnknown, Settled, WireAfterGivingUp, NetworkAssumption
  <2>2. x # c => ost'[x] = ost[x]
    BY <1>3 DEF ParkAsUnknown
  <2> QED BY <2>1, <2>2
<1>4. ASSUME NEW c \in Orders, StreamStep(c) PROVE ost[x] \in UnresolvedStates
  BY <1>4, StreamMoves DEF OnceInv
<1>5. ASSUME NEW c \in Orders, CancelStep(c)
      PROVE  ost[x] \in UnresolvedStates \/ ~MayLand(x)'
  <2>1. CASE CancelAnswered(c)
    <3>1. venue[c] # "absent"
      BY <2>1 DEF CancelAnswered, OnceInv, KnownToVenue, ToldOf
    <3> QED
      BY <2>1, <3>1 DEF CancelAnswered, venueVars
  <2> QED
    BY <1>5, <2>1 DEF CancelStep, CancelBegins, CancelFails, CancelRefreshes,
                      managerVars
<1>6. ASSUME NEW c \in Orders, ReconcileBegins(c) PROVE ost[x] \in UnresolvedStates
  BY <1>6 DEF ReconcileBegins, NeedsReconciliation
<1>7. CASE ReconcileFetches \/ ReconcileFails
  BY <1>7 DEF ReconcileFetches, ReconcileFails, managerVars
<1>8. CASE ReconcileResolves
  BY <1>8 DEF ReconcileResolves, ReconcileTarget, VenueStatuses
<1>9. CASE CrashStep
  BY <1>9 DEF CrashStep, CrashAndRestart, CrashInsideSubmit, Restarted,
              NetworkAssumption
<1>10. CASE AcknowledgeRecovery \/ SideRecordFails \/ UNCHANGED vars
  BY <1>10 DEF AcknowledgeRecovery, SideRecordFails, vars, managerVars
<1> QED
  BY <1>1, <1>2, <1>3, <1>4, <1>5, <1>6, <1>7, <1>8, <1>9, <1>10
  DEF Next, SubmitStep, SubmitTimesOut, SubmitFaults, ReconcileStep

LEMMA DoubtStep ==
    ASSUME NetworkAssumption, TypeOK, OnceInv, [Next]_vars
    PROVE  DoubtCannotLand'
<1>1. ASSUME NEW x \in Orders, ost'[x] \in UnresolvedStates
      PROVE  ~MayLand(x)'
  <2>1. CASE ost[x] \in UnresolvedStates
    <3>1. ~MayLand(x)
      BY <2>1 DEF OnceInv, DoubtCannotLand
    <3>2. OnlyWindsDown(x)
      BY <2>1, StaysOver DEF UnresolvedStates
    <3> QED BY <3>1, <3>2 DEF OnlyWindsDown
  <2> QED
    BY <1>1, <2>1, DoubtBeginsStep
<1>2. ASSUME recon'.order \in Orders
      PROVE  ~MayLand(recon.order)'
  <2>1. CASE recon'.order = recon.order
    <3>1. ~MayLand(recon.order) /\ OnlyWindsDown(recon.order)
      BY <1>2, <2>1, StaysOver DEF OnceInv, DoubtCannotLand
    <3> QED BY <2>1, <3>1 DEF OnlyWindsDown, MayLand
  <2>2. ASSUME NEW c \in Orders, ost[c] \in UnresolvedStates, recon'.order = c
        PROVE  ~MayLand(recon.order)'
    <3>1. ~MayLand(c) /\ OnlyWindsDown(c)
      BY <2>2, StaysOver DEF OnceInv, DoubtCannotLand, UnresolvedStates
    <3> QED BY <2>2, <3>1 DEF OnlyWindsDown, MayLand
  <2> QED
    BY <1>2, <2>1, <2>2, FetchStep, FetchAnswers DEF NoFetch
<1> QED
  BY <1>1, <1>2 DEF DoubtCannotLand

\* When a decision is admitted again, nothing of it is at work.
LEMMA AdmittedMeansFree ==
    ASSUME TypeOK, OnceInv, NEW d \in Decisions, NEW c \in Orders, Admitted(d, c),
           NEW x \in walIntent, owner[x] = d
    PROVE  ~Exposed(x)
<1>1. CASE registry[d] = x
  BY <1>1 DEF Admitted, NotDuplicate, ProtectiveResubmission, RouteReplacement,
              PriorState, TypeOK, JournalTypeOK, OnceInv, OverAtVenue, CountsAsOver
<1>2. CASE registry[d] # x
  BY <1>2 DEF OnceInv, LatestAttempt
<1> QED BY <1>1, <1>2

LEMMA LatestStep ==
    ASSUME NetworkAssumption, TypeOK, OnceInv, [Next]_vars
    PROVE  LatestAttempt'
<1> SUFFICES ASSUME NEW x \in walIntent', Exposed(x)'
             PROVE  registry'[owner'[x]] = x /\ walKey'[owner'[x]] = x
  BY DEF LatestAttempt
<1> USE DEF TypeOK, ManagerTypeOK, JournalTypeOK
<1>1. CASE UNCHANGED <<owner, walIntent, walKey, registry>>
  <2>1. Exposed(x)
    BY <1>1, StaysOver DEF OnlyWindsDown
  <2> QED
    BY <1>1, <2>1 DEF OnceInv, LatestAttempt
<1>2. ASSUME NEW c \in Orders, NEW d \in Decisions,
             SubmitSends(d, c) \/ SubmitAborts(d, c)
      PROVE  registry'[owner'[x]] = x /\ walKey'[owner'[x]] = x
  <2>1. Admitted(d, c) /\ c \notin walIntent
    BY <1>2 DEF SubmitSends, SubmitAborts, Admitted, OnceInv, UnmintedUntouched,
                Untouched
  <2>2. PICK i : RegisterAndJournal(d, c, i)
    BY <1>2 DEF SubmitSends, SubmitAborts
  <2>3. CASE x = c
    BY <2>1, <2>2, <2>3 DEF RegisterAndJournal
  <2>4. CASE x # c
    <3>1. x \in walIntent /\ owner'[x] = owner[x]
      BY <2>2, <2>4 DEF RegisterAndJournal
    <3>2. Exposed(x)
      BY <3>1, StaysOver DEF OnlyWindsDown
    <3>3. owner[x] # d
      BY <2>1, <3>1, <3>2, AdmittedMeansFree
    <3> QED
      BY <2>2, <3>1, <3>2, <3>3 DEF RegisterAndJournal, OnceInv, LatestAttempt
  <2> QED BY <2>3, <2>4
<1>3. CASE CrashAndRestart
  <2>1. x \in walIntent /\ UNCHANGED <<owner, walIntent, walKey>>
    BY <1>3 DEF CrashAndRestart
  <2>2. Exposed(x)
    BY <2>1, StaysOver DEF OnlyWindsDown
  <2> QED
    BY <1>3, <2>1, <2>2 DEF CrashAndRestart, Restarted, OnceInv, LatestAttempt
<1>4. ASSUME NEW c \in Orders, NEW d \in Decisions, CrashInsideSubmit(d, c)
      PROVE  registry'[owner'[x]] = x /\ walKey'[owner'[x]] = x
  <2>1. /\ Admitted(d, c) /\ c \notin walIntent
        /\ owner' = [owner EXCEPT ![c] = d]
        /\ walIntent' = walIntent \cup {c}
        /\ walKey' = [walKey EXCEPT ![d] = c]
        /\ registry' = walKey'
    BY <1>4 DEF CrashInsideSubmit, Restarted, Admitted, OnceInv, UnmintedUntouched,
                Untouched
  <2>2. CASE x = c
    BY <2>1, <2>2
  <2>3. CASE x # c
    <3>1. x \in walIntent /\ owner'[x] = owner[x]
      BY <2>1, <2>3
    <3>2. Exposed(x)
      BY <3>1, StaysOver DEF OnlyWindsDown
    <3>3. owner[x] # d
      BY <2>1, <3>1, <3>2, AdmittedMeansFree
    <3> QED
      BY <2>1, <3>1, <3>2, <3>3 DEF OnceInv, LatestAttempt
  <2> QED BY <2>2, <2>3
<1>5. ASSUME NEW c \in Orders, SubmitStep(c)
      PROVE  \/ UNCHANGED <<owner, walIntent, walKey, registry>>
             \/ \E d \in Decisions : SubmitSends(d, c) \/ SubmitAborts(d, c)
  <2>1. CASE SubmitReturns(c)
    BY <2>1 DEF SubmitReturns
  <2>2. CASE SubmitRejected(c)
    BY <2>2 DEF SubmitRejected, Log, journalVars
  <2>3. CASE SubmitNetworkError(c) \/ SubmitRetries(c)
    BY <2>3 DEF SubmitNetworkError, SubmitRetries, managerVars, journalVars
  <2>4. CASE SubmitTimesOut(c) \/ SubmitFaults(c)
    BY <2>4 DEF SubmitTimesOut, SubmitFaults, ParkAsUnknown, Log, journalVars
  <2> QED
    BY <1>5, <2>1, <2>2, <2>3, <2>4 DEF SubmitStep
<1>6. ASSUME NEW c \in Orders, VenueStep(c) \/ StreamStep(c)
      PROVE  UNCHANGED <<owner, walIntent, walKey, registry>>
  BY <1>6 DEF VenueStep, VenueAccepts, VenueFills, VenueEnds, StreamStep,
              StreamOrder, StreamFill, managerVars, journalVars
<1>7. ASSUME NEW c \in Orders, CancelStep(c) \/ SyncFillState(c)
      PROVE  UNCHANGED <<owner, walIntent, walKey, registry>>
  BY <1>7 DEF CancelStep, CancelBegins, CancelAnswered, CancelFails,
              CancelRefreshes, SyncFillState, Log, managerVars, journalVars
<1>8. ASSUME ReconcileStep
      PROVE  UNCHANGED <<owner, walIntent, walKey, registry>>
  BY <1>8 DEF ReconcileStep, ReconcileBegins, ReconcileFetches, ReconcileFails,
              ReconcileResolves, Log, managerVars, journalVars
<1>9. ASSUME AcknowledgeRecovery \/ SideRecordFails \/ UNCHANGED vars
      PROVE  UNCHANGED <<owner, walIntent, walKey, registry>>
  BY <1>9 DEF AcknowledgeRecovery, SideRecordFails, vars, managerVars, journalVars
<1> HIDE DEF TypeOK, ManagerTypeOK, JournalTypeOK
<1> QED
  BY <1>1, <1>2, <1>3, <1>4, <1>5, <1>6, <1>7, <1>8, <1>9 DEF Next, CrashStep

LEMMA OnceInvStep ==
    ASSUME NetworkAssumption, TypeOK, OnceInv, [Next]_vars
    PROVE  OnceInv'
<1>1. UnmintedUntouched'
  BY UnmintedStep DEF UnmintedUntouched
<1> QED
  BY <1>1, KnownStep, OverStep, DoubtStep, LatestStep DEF OnceInv

LEMMA OnceInvInit == Init => OnceInv
<1> SUFFICES ASSUME Init PROVE OnceInv
  OBVIOUS
<1>1. /\ ost = [c \in Orders |-> "none"] /\ wal = [c \in Orders |-> "none"]
      /\ walIntent = {} /\ canc = [c \in Orders |-> "idle"] /\ recon = NoFetch
      /\ wire = [c \in Orders |-> FALSE] /\ phase = [c \in Orders |-> "idle"]
      /\ venue = [c \in Orders |-> "absent"] /\ vfilled = [c \in Orders |-> 0]
  BY DEF Init
<1>2. UnmintedUntouched
  BY <1>1 DEF UnmintedUntouched, Untouched, OnTheWay, NoFetch
<1>3. KnownToVenue
  BY <1>1 DEF KnownToVenue, ToldOf, NoFetch, VenueStatuses
<1>4. OverAtVenue /\ DoubtCannotLand
  BY <1>1 DEF OverAtVenue, CountsAsOver, DoubtCannotLand, NoFetch, UnresolvedStates
<1>5. LatestAttempt
  BY <1>1 DEF LatestAttempt
<1> QED
  BY <1>2, <1>3, <1>4, <1>5 DEF OnceInv

LEMMA OnceInvAlways ==
    ASSUME NetworkAssumption
    PROVE  Spec => [](TypeOK /\ OnceInv)
<1>1. TypeOK /\ OnceInv /\ [Next]_vars => OnceInv'
  BY OnceInvStep
<1> QED
  BY OnceInvInit, <1>1, TypeCorrect, PTL DEF Spec

\* Idempotency (OneExposedAttempt, DESIGN.md section 4): two journaled attempts of
\* one decision are never both at work, or able to come to work, at the venue,
\* whatever appends fail, requests are retried, decisions come again and processes
\* crash.
THEOREM OneAttemptAtWork ==
    ASSUME NetworkAssumption
    PROVE  Spec => []OneExposedAttempt
<1>1. OnceInv => OneExposedAttempt
  BY DEF OnceInv, LatestAttempt, OneExposedAttempt
<1> QED
  BY <1>1, OnceInvAlways, PTL
===============================================================================
