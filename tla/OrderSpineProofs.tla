--------------------------- MODULE OrderSpineProofs ---------------------------
(***************************************************************************)
(* Theorems about OrderSpine, for every value of its constants.            *)
(***************************************************************************)
EXTENDS OrderSpine, TLAPS

USE SpineAssumption DEF SpineAssumption

-------------------------------------------------------------------------------
(* Type correctness, one lemma per group of variables a step may change. *)

LEMMA LargerType ==
    ASSUME NEW a \in Nat, NEW b \in Nat
    PROVE  Larger(a, b) \in Nat /\ Larger(a, b) >= a /\ Larger(a, b) >= b
BY DEF Larger

LEMMA StreamTargetType ==
    ASSUME VenueTypeOK, NEW c \in Orders, NEW e \in OrderEvents(c)
    PROVE  /\ StreamTarget(e) \in VenueFacingStates
           /\ e.filled \in Nat
BY DEF VenueTypeOK, OrderEvents, StreamTarget, VenueStatuses, VenueFacingStates

LEMMA StreamResultType ==
    ASSUME NEW s \in VenueFacingStates \cup {"none"},
           NEW target \in VenueFacingStates
    PROVE  StreamResult(s, target) \in VenueFacingStates \cup {"none"}
BY DEF StreamResult

LEMMA RehydratedType ==
    ASSUME NEW c, NEW w, NEW wi
    PROVE  Rehydrated(c, w, wi) \in VenueFacingStates \cup {"none"}
BY DEF Rehydrated, VenueFacingStates

\* Moving one order to a venue-facing state keeps the table of orders typed.
LEMMA OrderStateType ==
    ASSUME ManagerTypeOK, NEW c \in Orders, NEW s \in VenueFacingStates \cup {"none"},
           ost' = [ost EXCEPT ![c] = s]
    PROVE  ost' \in [Orders -> VenueFacingStates \cup {"none"}]
BY DEF ManagerTypeOK

LEMMA LogType ==
    ASSUME JournalTypeOK, NEW c \in Orders, NEW o,
           NEW kind \in LifecycleKinds \cup {"none"}, Log(c, kind, o)
    PROVE  JournalTypeOK'
<1>1. wal' \in [Orders -> LifecycleKinds \cup {"none"}]
  BY DEF JournalTypeOK, Log
<1>2. available' \in BOOLEAN
  BY Zenon DEF Log
<1>3. degraded' \in BOOLEAN /\ walIntent' \subseteq Orders
      /\ walKey' \in [Decisions -> Orders \cup {NoOrder}]
  BY DEF JournalTypeOK, Log
<1> QED BY <1>1, <1>2, <1>3 DEF JournalTypeOK

LEMMA RegisterType ==
    ASSUME TypeOK, NEW d \in Decisions, NEW c \in Orders, NEW i,
           RegisterAndJournal(d, c, i)
    PROVE  /\ owner' \in [Orders -> Decisions \cup {NoDecision}]
           /\ registry' \in [Decisions -> Orders \cup {NoOrder}]
           /\ walIntent' \subseteq Orders
           /\ walKey' \in [Decisions -> Orders \cup {NoOrder}]
BY DEF TypeOK, ManagerTypeOK, JournalTypeOK, RegisterAndJournal

LEMMA SubmitRecordType ==
    ASSUME NEW i, NEW s
    PROVE  LastSubmitRecord(i, s) \in LifecycleKinds \cup {"none"}
BY DEF LastSubmitRecord, LifecycleKinds

LEMMA SubmitSendsType ==
    ASSUME TypeOK, NEW c \in Orders, NEW d \in Decisions, SubmitSends(d, c)
    PROVE  TypeOK'
<1>1. PICK r \in AppendOutcomes, i \in AppendOutcomes, s \in AppendOutcomes :
        /\ RegisterAndJournal(d, c, i)
        /\ wal' = [wal EXCEPT ![c] = LastSubmitRecord(i, s)]
        /\ available' = (available /\ {r, i, s} = {"ok"})
  BY DEF SubmitSends
<1>2. ManagerTypeOK'
  BY <1>1, RegisterType DEF SubmitSends, TypeOK, ManagerTypeOK, VenueFacingStates
<1>3. JournalTypeOK'
  <2>1. available' \in BOOLEAN
    BY <1>1, Zenon
  <2>2. degraded' \in BOOLEAN
    BY DEF SubmitSends, TypeOK, JournalTypeOK
  <2> QED
    BY <1>1, <2>1, <2>2, RegisterType, SubmitRecordType DEF TypeOK, JournalTypeOK
<1>4. CallTypeOK'
  BY DEF SubmitSends, TypeOK, CallTypeOK
<1>5. VenueTypeOK'
  BY DEF SubmitSends, TypeOK, VenueTypeOK
<1> QED
  BY <1>1, <1>2, <1>3, <1>4, <1>5, RegisterType DEF TypeOK

LEMMA SubmitAbortsType ==
    ASSUME TypeOK, NEW c \in Orders, NEW d \in Decisions, SubmitAborts(d, c)
    PROVE  TypeOK'
<1>1. PICK i, s :
        /\ RegisterAndJournal(d, c, i)
        /\ wal' = [wal EXCEPT ![c] = LastSubmitRecord(i, s)]
  BY DEF SubmitAborts
<1>2. ManagerTypeOK'
  BY <1>1, RegisterType DEF SubmitAborts, TypeOK, ManagerTypeOK, VenueFacingStates
<1>3. JournalTypeOK'
  BY <1>1, RegisterType, SubmitRecordType DEF SubmitAborts, TypeOK, JournalTypeOK
<1>4. CallTypeOK'
  BY DEF SubmitAborts, TypeOK, CallTypeOK, callVars
<1>5. VenueTypeOK'
  BY DEF SubmitAborts, TypeOK, VenueTypeOK, venueVars
<1> QED
  BY <1>1, <1>2, <1>3, <1>4, <1>5, RegisterType DEF TypeOK

LEMMA SettledType ==
    ASSUME CallTypeOK, NEW c \in Orders, Settled(c)
    PROVE  CallTypeOK'
BY DEF CallTypeOK, Settled

LEMMA SubmitReturnsType ==
    ASSUME TypeOK, NEW c \in Orders, SubmitReturns(c)
    PROVE  TypeOK'
<1>1. ManagerTypeOK'
  BY DEF SubmitReturns, TypeOK, ManagerTypeOK, VenueFacingStates
<1>2. JournalTypeOK'
  <2>1. available' \in BOOLEAN
    BY Zenon DEF SubmitReturns
  <2>2. wal' \in [Orders -> LifecycleKinds \cup {"none"}]
    BY DEF SubmitReturns, TypeOK, JournalTypeOK, LifecycleKinds
  <2> QED
    BY <2>1, <2>2 DEF SubmitReturns, TypeOK, JournalTypeOK
<1>3. CallTypeOK'
  BY SettledType DEF SubmitReturns, TypeOK
<1>4. VenueTypeOK' /\ owner' = owner
  BY DEF SubmitReturns, TypeOK, VenueTypeOK, venueVars
<1> QED
  BY <1>1, <1>2, <1>3, <1>4 DEF TypeOK

LEMMA SubmitRejectedType ==
    ASSUME TypeOK, NEW c \in Orders, SubmitRejected(c)
    PROVE  TypeOK'
<1>1. ManagerTypeOK'
  BY DEF SubmitRejected, TypeOK, ManagerTypeOK, VenueFacingStates
<1>2. JournalTypeOK'
  <2>1. CASE Legal(ost[c], "rejected")
    BY <2>1, LogType DEF SubmitRejected, TypeOK, LifecycleKinds
  <2>2. CASE ~Legal(ost[c], "rejected")
    BY <2>2 DEF SubmitRejected, TypeOK, JournalTypeOK, journalVars
  <2> QED BY <2>1, <2>2
<1>3. CallTypeOK'
  BY SettledType DEF SubmitRejected, TypeOK
<1>4. VenueTypeOK' /\ owner' = owner
  BY DEF SubmitRejected, TypeOK, VenueTypeOK
<1> QED
  BY <1>1, <1>2, <1>3, <1>4 DEF TypeOK

LEMMA ParkType ==
    ASSUME TypeOK, NEW c \in Orders, NEW j \in BOOLEAN, ParkAsUnknown(c, j)
    PROVE  TypeOK'
<1>1. ManagerTypeOK'
  BY DEF ParkAsUnknown, TypeOK, ManagerTypeOK, VenueFacingStates
<1>2. JournalTypeOK'
  <2>1. CASE Legal(ost[c], "timeout_unknown")
    <3> DEFINE kind == IF j THEN "order_timeout_unknown" ELSE wal[c]
    <3>1. kind \in LifecycleKinds \cup {"none"}
      BY DEF TypeOK, JournalTypeOK, LifecycleKinds
    <3>2. \E o : Log(c, kind, o)
      BY <2>1 DEF ParkAsUnknown
    <3> QED
      BY <3>1, <3>2, LogType DEF TypeOK
  <2>2. CASE ~Legal(ost[c], "timeout_unknown")
    BY <2>2 DEF ParkAsUnknown, TypeOK, JournalTypeOK, journalVars
  <2> QED BY <2>1, <2>2
<1>3. CallTypeOK'
  BY SettledType DEF ParkAsUnknown, TypeOK
<1>4. VenueTypeOK' /\ owner' = owner
  BY DEF ParkAsUnknown, WireAfterGivingUp, TypeOK, VenueTypeOK
<1> QED
  BY <1>1, <1>2, <1>3, <1>4 DEF TypeOK

LEMMA AdapterType ==
    ASSUME TypeOK, NEW c \in Orders, CallEnds(c)
    PROVE  TypeOK'
<1>1. CASE SubmitNetworkError(c)
  BY <1>1 DEF SubmitNetworkError, WireAfterGivingUp, TypeOK, ManagerTypeOK,
              JournalTypeOK, CallTypeOK, VenueTypeOK, managerVars, journalVars
<1>2. CASE SubmitRetries(c)
  BY <1>2 DEF SubmitRetries, AttemptsLeft, TypeOK, ManagerTypeOK, JournalTypeOK,
              CallTypeOK, VenueTypeOK, managerVars, journalVars
<1>3. CASE SubmitTimesOut(c)
  BY <1>3, ParkType DEF SubmitTimesOut
<1>4. CASE SubmitFaults(c)
  BY <1>4, ParkType DEF SubmitFaults
<1> QED
  BY <1>1, <1>2, <1>3, <1>4, SubmitReturnsType, SubmitRejectedType DEF CallEnds

LEMMA VenueStepType ==
    ASSUME TypeOK, NEW c \in Orders, VenueStep(c)
    PROVE  TypeOK'
<1>1. ManagerTypeOK' /\ JournalTypeOK' /\ CallTypeOK' /\ owner' = owner
  BY DEF VenueStep, VenueAccepts, VenueFills, VenueEnds, TypeOK, ManagerTypeOK,
         JournalTypeOK, CallTypeOK, managerVars, journalVars, callVars
<1>2. VenueTypeOK'
  <2>1. CASE VenueAccepts(c)
    BY <2>1 DEF VenueAccepts, TypeOK, VenueTypeOK, VenueStatuses
  <2>2. CASE VenueFills(c)
    BY <2>2 DEF VenueFills, TypeOK, VenueTypeOK, VenueStatuses
  <2>3. CASE VenueEnds(c)
    BY <2>3 DEF VenueEnds, TypeOK, VenueTypeOK, VenueStatuses
  <2> QED BY <2>1, <2>2, <2>3 DEF VenueStep
<1> QED
  BY <1>1, <1>2 DEF TypeOK

\* A step that touches only the manager's view of one order and its fills.
LEMMA FillUpdateType ==
    ASSUME TypeOK, NEW c \in Orders, NEW f \in Nat,
           NEW s \in VenueFacingStates \cup {"none"},
           filled' = [filled EXCEPT ![c] = Larger(@, f)],
           ost' = [ost EXCEPT ![c] = s]
    PROVE  /\ filled' \in [Orders -> Nat]
           /\ ost' \in [Orders -> VenueFacingStates \cup {"none"}]
BY LargerType DEF TypeOK, ManagerTypeOK

LEMMA StreamStepType ==
    ASSUME TypeOK, NEW c \in Orders, StreamStep(c)
    PROVE  TypeOK'
<1>1. CASE StreamOrder(c)
  <2>1. PICK e \in OrderEvents(c) :
          /\ filled' = [filled EXCEPT ![c] = Larger(@, e.filled)]
          /\ ost' = [ost EXCEPT ![c] = StreamResult(@, StreamTarget(e))]
    BY <1>1 DEF StreamOrder
  <2>2. StreamTarget(e) \in VenueFacingStates /\ e.filled \in Nat
    BY StreamTargetType DEF TypeOK
  <2>3. StreamResult(ost[c], StreamTarget(e)) \in VenueFacingStates \cup {"none"}
    BY <2>2, StreamResultType DEF TypeOK, ManagerTypeOK
  <2>4. ManagerTypeOK'
    BY <1>1, <2>1, <2>2, <2>3, LargerType DEF StreamOrder, TypeOK, ManagerTypeOK
  <2> QED
    BY <1>1, <2>4 DEF StreamOrder, TypeOK, JournalTypeOK, CallTypeOK, VenueTypeOK,
                      journalVars, callVars, venueVars
<1>2. ASSUME NEW i \in 1 .. Qty, StreamFill(c, i) PROVE TypeOK'
  <2> DEFINE total  == Larger(filled[c], tradeSum[c] + 1)
             target == IF total >= Qty THEN "filled" ELSE "partially_filled"
  <2>1. total \in Nat /\ target \in VenueFacingStates
    <3>1. filled[c] \in Nat /\ tradeSum[c] + 1 \in Nat
      BY DEF TypeOK, ManagerTypeOK
    <3> QED BY <3>1, LargerType DEF VenueFacingStates
  <2>2. StreamResult(ost[c], target) \in VenueFacingStates \cup {"none"}
    BY <2>1, StreamResultType DEF TypeOK, ManagerTypeOK
  <2>3. /\ tradeSum' = [tradeSum EXCEPT ![c] = @ + 1]
        /\ filled' = [filled EXCEPT ![c] = total]
        /\ ost' = [ost EXCEPT ![c] = StreamResult(@, target)]
        /\ seen' = SeenAfter(c, i, StreamApplies(ost[c], target))
        /\ registry' = registry
    BY <1>2 DEF StreamFill
  <2>4. seen' \subseteq Orders \X (1 .. Qty)
    BY <2>3, <1>2 DEF SeenAfter, TypeOK, ManagerTypeOK
  <2>5. ManagerTypeOK'
    BY <2>1, <2>2, <2>3, <2>4 DEF TypeOK, ManagerTypeOK
  <2> QED
    BY <1>2, <2>5 DEF StreamFill, TypeOK, JournalTypeOK, CallTypeOK, VenueTypeOK,
                      journalVars, callVars, venueVars
<1> QED
  BY <1>1, <1>2 DEF StreamStep

LEMMA CancelTargetType ==
    ASSUME NEW c
    PROVE  CancelTarget(c) \in VenueFacingStates
BY DEF CancelTarget, VenueFacingStates

LEMMA CancelStepType ==
    ASSUME TypeOK, NEW c \in Orders, CancelStep(c)
    PROVE  TypeOK'
<1>1. CASE CancelBegins(c)
  BY <1>1 DEF CancelBegins, TypeOK, ManagerTypeOK, JournalTypeOK, CallTypeOK,
              VenueTypeOK, VenueFacingStates, journalVars, venueVars
<1>2. CASE CancelAnswered(c)
  <2>1. ost' \in [Orders -> VenueFacingStates \cup {"none"}]
    BY <1>2, CancelTargetType DEF CancelAnswered, TypeOK, ManagerTypeOK
  <2>2. CallTypeOK'
    BY <1>2 DEF CancelAnswered, TypeOK, CallTypeOK
  <2> QED
    BY <1>2, <2>1, <2>2 DEF CancelAnswered, TypeOK, ManagerTypeOK, JournalTypeOK,
                            VenueTypeOK, journalVars, venueVars
<1>3. CASE CancelFails(c)
  BY <1>3 DEF CancelFails, TypeOK, ManagerTypeOK, JournalTypeOK, CallTypeOK,
              VenueTypeOK, managerVars, journalVars, venueVars
<1>4. CASE CancelRefreshes(c)
  <2>1. PICK v \in 0 .. vfilled[c] : filled' = [filled EXCEPT ![c] = Larger(@, v)]
    BY <1>4 DEF CancelRefreshes
  <2>2. v \in Nat
    BY DEF TypeOK, VenueTypeOK
  <2>3. ManagerTypeOK'
    BY <1>4, <2>1, <2>2, LargerType DEF CancelRefreshes, TypeOK, ManagerTypeOK
  <2>4. JournalTypeOK'
    BY <1>4, LogType DEF CancelRefreshes, TypeOK, LifecycleKinds
  <2> QED
    BY <1>4, <2>3, <2>4 DEF CancelRefreshes, TypeOK, CallTypeOK, VenueTypeOK, venueVars
<1> QED
  BY <1>1, <1>2, <1>3, <1>4 DEF CancelStep

LEMMA ReconcileTargetType ==
    ASSUME NEW a \in VenueStatuses, NEW f
    PROVE  ReconcileTarget(a, f) \in VenueFacingStates
BY DEF ReconcileTarget, VenueStatuses, VenueFacingStates

LEMMA ReconcileStepType ==
    ASSUME TypeOK, ReconcileStep
    PROVE  TypeOK'
<1>1. ASSUME NEW c \in Orders, ReconcileBegins(c) PROVE TypeOK'
  <2>1. ManagerTypeOK'
    BY <1>1 DEF ReconcileBegins, TypeOK, ManagerTypeOK, VenueFacingStates
  <2>2. JournalTypeOK'
    <3>1. CASE ost[c] = "timeout_unknown"
      BY <1>1, <3>1, LogType DEF ReconcileBegins, TypeOK, LifecycleKinds
    <3>2. CASE ost[c] # "timeout_unknown"
      BY <1>1, <3>2 DEF ReconcileBegins, TypeOK, JournalTypeOK, journalVars
    <3> QED BY <3>1, <3>2
  <2>3. CallTypeOK'
    BY <1>1 DEF ReconcileBegins, TypeOK, CallTypeOK
  <2> QED
    BY <1>1, <2>1, <2>2, <2>3 DEF ReconcileBegins, TypeOK, VenueTypeOK, venueVars
<1>2. CASE ReconcileFetches
  <2>1. recon.order \in Orders
    BY <1>2 DEF ReconcileFetches, TypeOK, CallTypeOK
  <2>2. CallTypeOK'
    BY <1>2, <2>1 DEF ReconcileFetches, TypeOK, CallTypeOK, VenueTypeOK, VenueStatuses
  <2> QED
    BY <1>2, <2>2 DEF ReconcileFetches, TypeOK, ManagerTypeOK, JournalTypeOK,
                      VenueTypeOK, managerVars, journalVars, venueVars
<1>3. CASE ReconcileFails
  BY <1>3 DEF ReconcileFails, NoFetch, TypeOK, ManagerTypeOK, JournalTypeOK,
              CallTypeOK, VenueTypeOK, managerVars, journalVars, venueVars
<1>4. CASE ReconcileResolves
  <2> DEFINE c == recon.order
             target == ReconcileTarget(recon.answer, recon.filled)
  <2>1. c \in Orders /\ recon.filled \in Nat /\ recon.answer \in VenueStatuses
    BY <1>4 DEF ReconcileResolves, TypeOK, CallTypeOK, VenueStatuses
  <2>2. target \in VenueFacingStates
    BY <2>1, ReconcileTargetType
  <2>3. /\ recon' = NoFetch
        /\ filled' = [filled EXCEPT ![c] = Larger(@, recon.filled)]
        /\ UNCHANGED <<tradeSum, seen, registry, phase, attempt, canc, venueVars, owner>>
    BY <1>4 DEF ReconcileResolves
  <2>4. /\ Legal(ost[c], target) => ost' = [ost EXCEPT ![c] = target]
                                    /\ \E o : Log(c, "order_resolved", o)
        /\ ~Legal(ost[c], target) => UNCHANGED <<ost, journalVars>>
    BY <1>4 DEF ReconcileResolves
  <2>5. ManagerTypeOK'
    <3>1. filled' \in [Orders -> Nat]
      BY <2>1, <2>3, LargerType DEF TypeOK, ManagerTypeOK
    <3>2. ost' \in [Orders -> VenueFacingStates \cup {"none"}]
      <4> HIDE DEF target
      <4> QED BY <2>1, <2>2, <2>4 DEF TypeOK, ManagerTypeOK
    <3> QED BY <2>3, <3>1, <3>2 DEF TypeOK, ManagerTypeOK
  <2>6. JournalTypeOK'
    <3>1. CASE Legal(ost[c], target)
      BY <2>1, <2>4, <3>1, LogType DEF TypeOK, LifecycleKinds
    <3>2. CASE ~Legal(ost[c], target)
      BY <2>4, <3>2 DEF TypeOK, JournalTypeOK, journalVars
    <3> QED BY <3>1, <3>2
  <2>7. CallTypeOK'
    BY <2>3 DEF NoFetch, TypeOK, CallTypeOK
  <2> QED
    BY <2>3, <2>5, <2>6, <2>7 DEF TypeOK, VenueTypeOK, venueVars
<1> QED
  BY <1>1, <1>2, <1>3, <1>4 DEF ReconcileStep

LEMMA SyncFillStateType ==
    ASSUME TypeOK, NEW c \in Orders, SyncFillState(c)
    PROVE  TypeOK'
<1>1. filled' \in [Orders -> Nat]
  <2>1. vfilled[c] \in Nat /\ filled[c] \in Nat
    BY DEF TypeOK, ManagerTypeOK, VenueTypeOK
  <2> QED BY <2>1, LargerType DEF SyncFillState, TypeOK, ManagerTypeOK
<1>2. ost' \in [Orders -> VenueFacingStates \cup {"none"}]
  BY DEF SyncFillState, TypeOK, ManagerTypeOK, VenueFacingStates
<1>3. ManagerTypeOK'
  BY <1>1, <1>2 DEF SyncFillState, TypeOK, ManagerTypeOK
<1>4. JournalTypeOK'
  BY LogType DEF SyncFillState, TypeOK, LifecycleKinds
<1> QED
  BY <1>3, <1>4 DEF SyncFillState, TypeOK, CallTypeOK, VenueTypeOK, callVars, venueVars

\* The memory of a restarted process is well typed whatever the journal holds.
LEMMA RestartType ==
    ASSUME TypeOK, NEW w, NEW wi, NEW wk \in [Decisions -> Orders \cup {NoOrder}],
           NEW torn \in BOOLEAN, Restarted(w, wi, wk, torn),
           venue' = venue, vfilled' = vfilled
    PROVE  ManagerTypeOK' /\ CallTypeOK' /\ VenueTypeOK'
           /\ available' \in BOOLEAN /\ degraded' \in BOOLEAN
<1>1. ManagerTypeOK'
  BY RehydratedType DEF Restarted, ManagerTypeOK
<1>2. CallTypeOK'
  BY DEF Restarted, NoFetch, CallTypeOK
<1>3. VenueTypeOK'
  BY DEF Restarted, TypeOK, VenueTypeOK
<1> QED
  BY <1>1, <1>2, <1>3 DEF Restarted

LEMMA CrashStepType ==
    ASSUME TypeOK, CrashStep
    PROVE  TypeOK'
<1>1. CASE CrashAndRestart
  <2>1. PICK torn \in BOOLEAN : Restarted(wal, walIntent, walKey, torn)
    BY <1>1 DEF CrashAndRestart
  <2>2. UNCHANGED <<wal, walIntent, walKey, venue, vfilled, owner>>
    BY <1>1 DEF CrashAndRestart
  <2>3. walKey \in [Decisions -> Orders \cup {NoOrder}]
    BY DEF TypeOK, JournalTypeOK
  <2> QED
    BY <2>1, <2>2, <2>3, RestartType DEF TypeOK, JournalTypeOK
<1>2. ASSUME NEW d \in Decisions, NEW c \in Orders, CrashInsideSubmit(d, c)
      PROVE  TypeOK'
  <2> DEFINE w  == [wal EXCEPT ![c] = "order_intent"]
             wi == walIntent \cup {c}
             wk == [walKey EXCEPT ![d] = c]
  <2>1. PICK torn \in BOOLEAN : Restarted(w, wi, wk, torn)
    BY <1>2 DEF CrashInsideSubmit
  <2>2. /\ venue' = venue /\ vfilled' = vfilled
        /\ wal' = w /\ walIntent' = wi /\ walKey' = wk
        /\ owner' = [owner EXCEPT ![c] = d]
    BY <1>2 DEF CrashInsideSubmit
  <2>3. /\ w \in [Orders -> LifecycleKinds \cup {"none"}]
        /\ wi \subseteq Orders
        /\ wk \in [Decisions -> Orders \cup {NoOrder}]
        /\ owner' \in [Orders -> Decisions \cup {NoDecision}]
    BY <2>2 DEF TypeOK, JournalTypeOK, LifecycleKinds
  <2>4. ManagerTypeOK' /\ CallTypeOK' /\ VenueTypeOK'
        /\ available' \in BOOLEAN /\ degraded' \in BOOLEAN
    <3> HIDE DEF w, wi, wk
    <3> QED BY <2>1, <2>2, <2>3, RestartType
  <2> QED
    BY <2>2, <2>3, <2>4 DEF TypeOK, JournalTypeOK
<1> QED
  BY <1>1, <1>2 DEF CrashStep

LEMMA AcknowledgeRecoveryType ==
    ASSUME TypeOK, AcknowledgeRecovery
    PROVE  TypeOK'
<1>1. available' \in BOOLEAN /\ degraded' \in BOOLEAN
  BY Zenon DEF AcknowledgeRecovery
<1> QED
  BY <1>1 DEF AcknowledgeRecovery, TypeOK, ManagerTypeOK, JournalTypeOK, CallTypeOK,
              VenueTypeOK, managerVars, callVars, venueVars

LEMMA SideRecordFailsType ==
    ASSUME TypeOK, SideRecordFails
    PROVE  TypeOK'
BY DEF SideRecordFails, TypeOK, ManagerTypeOK, JournalTypeOK, CallTypeOK,
       VenueTypeOK, managerVars, callVars, venueVars

LEMMA StutterType ==
    ASSUME TypeOK, UNCHANGED vars
    PROVE  TypeOK'
BY DEF vars, TypeOK, ManagerTypeOK, JournalTypeOK, CallTypeOK, VenueTypeOK,
       managerVars, journalVars, callVars, venueVars

LEMMA TypeOKStep ==
    ASSUME TypeOK, [Next]_vars
    PROVE  TypeOK'
<1>1. ASSUME NEW c \in Orders, SubmitStep(c) PROVE TypeOK'
  BY <1>1, SubmitSendsType, SubmitAbortsType, AdapterType DEF SubmitStep, CallEnds
<1> QED
  BY <1>1, VenueStepType, StreamStepType, CancelStepType, ReconcileStepType,
     SyncFillStateType, CrashStepType, AcknowledgeRecoveryType, SideRecordFailsType,
     StutterType
  DEF Next

\* Every reachable state is well typed (TypeOK).
THEOREM TypeCorrect == Spec => []TypeOK
<1>1. Init => TypeOK
  <2>1. Init => ManagerTypeOK /\ JournalTypeOK
    <3>1. Init => available \in BOOLEAN /\ degraded \in BOOLEAN
      BY Zenon DEF Init
    <3>2. Init => wal \in [Orders -> LifecycleKinds \cup {"none"}]
                  /\ walIntent \subseteq Orders
                  /\ walKey \in [Decisions -> Orders \cup {NoOrder}]
      BY DEF Init
    <3>3. Init => ManagerTypeOK
      BY DEF Init, ManagerTypeOK
    <3> QED BY <3>1, <3>2, <3>3 DEF JournalTypeOK
  <2>2. Init => CallTypeOK
    <3>1. Init => /\ phase = [c \in Orders |-> "idle"]
                  /\ attempt = [c \in Orders |-> 0]
                  /\ canc = [c \in Orders |-> "idle"]
                  /\ recon = NoFetch
      BY DEF Init
    <3> QED BY <3>1 DEF CallTypeOK, NoFetch
  <2>3. Init => VenueTypeOK
    BY DEF Init, VenueTypeOK, VenueStatuses
  <2> QED
    BY <2>1, <2>2, <2>3 DEF Init, TypeOK
<1>2. TypeOK /\ [Next]_vars => TypeOK'
  BY TypeOKStep
<1> QED
  BY <1>1, <1>2, PTL DEF Spec

-------------------------------------------------------------------------------
(***************************************************************************)
(* The write-ahead rule.  JournaledBeforeVenue is not inductive alone: an  *)
(* id nobody has minted must be unknown to the venue, or journaling its    *)
(* intent could find it there.  Every step other than a submit (or a crash *)
(* inside one) is quiet: it sends nothing to the venue that was not on its *)
(* way, and only ever replaces a last record by a later kind.              *)
(***************************************************************************)
UnmintedUnknown == \A c \in Orders : owner[c] = NoDecision => ~OnTheWay(c)

WalInv == UnmintedUnknown /\ JournaledBeforeVenue

LaterKinds == LifecycleKinds \ {"order_intent"}

QuietStep ==
    /\ UNCHANGED <<owner, walIntent>>
    /\ \A c \in Orders : OnTheWay(c)' => OnTheWay(c)
    /\ \A c \in Orders : wal'[c] = wal[c] \/ wal'[c] \in LaterKinds

LEMMA QuietKeepsWalInv ==
    ASSUME WalInv, QuietStep
    PROVE  WalInv'
<1>1. UnmintedUnknown'
  BY DEF WalInv, QuietStep, UnmintedUnknown
<1>2. JournaledBeforeVenue'
  <2> SUFFICES ASSUME NEW c \in Orders, IsEntry(c)', OnTheWay(c)'
               PROVE  (c \in walIntent /\ wal[c] \notin {"none", "order_intent"})'
    BY DEF JournaledBeforeVenue
  <2>1. IsEntry(c) /\ OnTheWay(c)
    BY DEF QuietStep, IsEntry
  <2>2. c \in walIntent /\ wal[c] \notin {"none", "order_intent"}
    BY <2>1 DEF WalInv, JournaledBeforeVenue
  <2> QED
    BY <2>2 DEF QuietStep, LaterKinds, LifecycleKinds
<1> QED
  BY <1>1, <1>2 DEF WalInv

LEMMA LogIsLater ==
    ASSUME JournalTypeOK, NEW c \in Orders, NEW o, NEW kind, Log(c, kind, o),
           kind = wal[c] \/ kind \in LaterKinds
    PROVE  /\ walIntent' = walIntent
           /\ \A x \in Orders : wal'[x] = wal[x] \/ wal'[x] \in LaterKinds
BY DEF JournalTypeOK, Log

LEMMA AdapterIsQuiet ==
    ASSUME TypeOK, NEW c \in Orders, CallEnds(c)
    PROVE  QuietStep
<1> USE DEF TypeOK, CallTypeOK, VenueTypeOK, QuietStep, OnTheWay
<1>1. CASE SubmitReturns(c)
  <2>1. \A x \in Orders : wal'[x] = wal[x] \/ wal'[x] \in LaterKinds
    BY <1>1 DEF SubmitReturns, JournalTypeOK, LaterKinds, LifecycleKinds
  <2> QED
    BY <1>1, <2>1 DEF SubmitReturns, Settled, venueVars
<1>2. CASE SubmitRejected(c)
  <2>1. /\ walIntent' = walIntent
        /\ \A x \in Orders : wal'[x] = wal[x] \/ wal'[x] \in LaterKinds
    <3>1. CASE Legal(ost[c], "rejected")
      BY <1>2, <3>1, LogIsLater DEF SubmitRejected, LaterKinds, LifecycleKinds
    <3>2. CASE ~Legal(ost[c], "rejected")
      BY <1>2, <3>2 DEF SubmitRejected, journalVars
    <3> QED BY <3>1, <3>2
  <2>2. \A x \in Orders : OnTheWay(x)' => OnTheWay(x)
    BY <1>2 DEF SubmitRejected, Settled
  <2> QED
    BY <1>2, <2>1, <2>2 DEF SubmitRejected
<1>3. CASE SubmitNetworkError(c)
  BY <1>3 DEF SubmitNetworkError, WireAfterGivingUp, journalVars
<1>4. CASE SubmitRetries(c)
  BY <1>4 DEF SubmitRetries, journalVars
<1>5. ASSUME NEW j \in BOOLEAN, ParkAsUnknown(c, j) PROVE QuietStep
  <2>1. /\ walIntent' = walIntent
        /\ \A x \in Orders : wal'[x] = wal[x] \/ wal'[x] \in LaterKinds
    <3>1. CASE Legal(ost[c], "timeout_unknown")
      <4> DEFINE kind == IF j THEN "order_timeout_unknown" ELSE wal[c]
      <4>1. kind = wal[c] \/ kind \in LaterKinds
        BY DEF LaterKinds, LifecycleKinds
      <4>2. \E o : Log(c, kind, o)
        BY <1>5, <3>1 DEF ParkAsUnknown
      <4> QED
        BY <4>1, <4>2, LogIsLater
    <3>2. CASE ~Legal(ost[c], "timeout_unknown")
      BY <1>5, <3>2 DEF ParkAsUnknown, journalVars
    <3> QED BY <3>1, <3>2
  <2>2. \A x \in Orders : OnTheWay(x)' => OnTheWay(x)
    BY <1>5 DEF ParkAsUnknown, Settled, WireAfterGivingUp
  <2> QED
    BY <1>5, <2>1, <2>2 DEF ParkAsUnknown
<1> QED
  BY <1>1, <1>2, <1>3, <1>4, <1>5 DEF CallEnds, SubmitTimesOut, SubmitFaults

LEMMA VenueIsQuiet ==
    ASSUME TypeOK, NEW c \in Orders, VenueStep(c)
    PROVE  QuietStep
BY DEF TypeOK, VenueTypeOK, VenueStep, VenueAccepts, VenueFills, VenueEnds,
       QuietStep, OnTheWay, journalVars, callVars

LEMMA StreamIsQuiet ==
    ASSUME NEW c \in Orders, StreamStep(c)
    PROVE  QuietStep
BY DEF StreamStep, StreamOrder, StreamFill, QuietStep, OnTheWay, journalVars,
       callVars, venueVars

LEMMA CancelIsQuiet ==
    ASSUME TypeOK, NEW c \in Orders, CancelStep(c)
    PROVE  QuietStep
<1>1. CASE CancelBegins(c) \/ CancelAnswered(c) \/ CancelFails(c)
  BY <1>1 DEF CancelBegins, CancelAnswered, CancelFails, QuietStep, OnTheWay,
              journalVars, venueVars
<1>2. CASE CancelRefreshes(c)
  <2>1. /\ walIntent' = walIntent
        /\ \A x \in Orders : wal'[x] = wal[x] \/ wal'[x] \in LaterKinds
    BY <1>2, LogIsLater DEF CancelRefreshes, TypeOK, LaterKinds, LifecycleKinds
  <2> QED
    BY <1>2, <2>1 DEF CancelRefreshes, QuietStep, OnTheWay, venueVars
<1> QED
  BY <1>1, <1>2 DEF CancelStep

LEMMA ReconcileIsQuiet ==
    ASSUME TypeOK, ReconcileStep
    PROVE  QuietStep
<1>1. ASSUME NEW c \in Orders, ReconcileBegins(c) PROVE QuietStep
  <2>1. /\ walIntent' = walIntent
        /\ \A x \in Orders : wal'[x] = wal[x] \/ wal'[x] \in LaterKinds
    BY <1>1, LogIsLater DEF ReconcileBegins, TypeOK, LaterKinds, LifecycleKinds,
                            journalVars
  <2> QED
    BY <1>1, <2>1 DEF ReconcileBegins, QuietStep, OnTheWay, venueVars
<1>2. CASE ReconcileFetches \/ ReconcileFails
  BY <1>2 DEF ReconcileFetches, ReconcileFails, QuietStep, OnTheWay, journalVars,
              venueVars
<1>3. CASE ReconcileResolves
  <2>1. recon.order \in Orders
    BY <1>3 DEF ReconcileResolves, TypeOK, CallTypeOK, VenueStatuses
  <2>2. /\ walIntent' = walIntent
        /\ \A x \in Orders : wal'[x] = wal[x] \/ wal'[x] \in LaterKinds
    BY <1>3, <2>1, LogIsLater DEF ReconcileResolves, TypeOK, LaterKinds,
                                  LifecycleKinds, journalVars
  <2> QED
    BY <1>3, <2>2 DEF ReconcileResolves, QuietStep, OnTheWay, venueVars
<1> QED
  BY <1>1, <1>2, <1>3 DEF ReconcileStep

LEMMA SyncFillStateIsQuiet ==
    ASSUME TypeOK, NEW c \in Orders, SyncFillState(c)
    PROVE  QuietStep
<1>1. /\ walIntent' = walIntent
      /\ \A x \in Orders : wal'[x] = wal[x] \/ wal'[x] \in LaterKinds
  BY LogIsLater DEF SyncFillState, TypeOK, LaterKinds, LifecycleKinds
<1> QED
  BY <1>1 DEF SyncFillState, QuietStep, OnTheWay, callVars, venueVars

LEMMA OtherIsQuiet ==
    ASSUME CrashAndRestart \/ AcknowledgeRecovery \/ SideRecordFails \/ UNCHANGED vars
    PROVE  QuietStep
<1>1. CASE CrashAndRestart
  BY <1>1 DEF CrashAndRestart, Restarted, QuietStep, OnTheWay
<1>2. CASE AcknowledgeRecovery \/ SideRecordFails \/ UNCHANGED vars
  BY <1>2 DEF AcknowledgeRecovery, SideRecordFails, vars, journalVars, callVars,
              venueVars, QuietStep, OnTheWay
<1> QED BY <1>1, <1>2

LEMMA SubmitSendsKeepsWalInv ==
    ASSUME TypeOK, WalInv, NEW c \in Orders, NEW d \in Decisions, SubmitSends(d, c)
    PROVE  WalInv'
<1>1. PICK i \in AppendOutcomes, s \in AppendOutcomes :
        /\ MayProceed(d, i, s)
        /\ RegisterAndJournal(d, c, i)
        /\ wal' = [wal EXCEPT ![c] = LastSubmitRecord(i, s)]
  BY DEF SubmitSends
<1>2. /\ owner' = [owner EXCEPT ![c] = d]
      /\ walIntent' = IF Durable(i) THEN walIntent \cup {c} ELSE walIntent
  BY <1>1 DEF RegisterAndJournal
<1>3. \A x \in Orders \ {c} : OnTheWay(x)' => OnTheWay(x)
  BY DEF SubmitSends, OnTheWay, TypeOK, CallTypeOK, VenueTypeOK
<1>4. owner'[c] = d /\ \A x \in Orders \ {c} : owner'[x] = owner[x]
  BY <1>2 DEF TypeOK
<1>5. UnmintedUnknown'
  BY <1>3, <1>4 DEF WalInv, UnmintedUnknown
<1>6. JournaledBeforeVenue'
  <2> SUFFICES ASSUME NEW x \in Orders, IsEntry(x)', OnTheWay(x)'
               PROVE  (x \in walIntent /\ wal[x] \notin {"none", "order_intent"})'
    BY DEF JournaledBeforeVenue
  <2>1. CASE x = c
    <3>1. i = "ok" /\ s = "ok"
      BY <1>1, <1>4, <2>1 DEF IsEntry, MayProceed
    <3> QED
      BY <1>1, <1>2, <2>1, <3>1 DEF TypeOK, JournalTypeOK, Durable, LastSubmitRecord
  <2>2. CASE x # c
    <3>1. x \in walIntent /\ wal[x] \notin {"none", "order_intent"}
      BY <1>3, <1>4, <2>2 DEF WalInv, JournaledBeforeVenue, IsEntry
    <3> QED
      BY <1>1, <1>2, <2>2, <3>1 DEF TypeOK, JournalTypeOK
  <2> QED BY <2>1, <2>2
<1> QED
  BY <1>5, <1>6 DEF WalInv

\* A submit that never reaches the adapter: the id stays unknown to the venue.
LEMMA UnsentKeepsWalInv ==
    ASSUME TypeOK, WalInv, NEW c \in Orders, NEW d \in Decisions, NEW k,
           owner[c] = NoDecision,
           owner' = [owner EXCEPT ![c] = d],
           wal' = [wal EXCEPT ![c] = k],
           walIntent \subseteq walIntent',
           \A x \in Orders : OnTheWay(x)' => OnTheWay(x)
    PROVE  WalInv'
<1>1. ~OnTheWay(c)'
  BY DEF WalInv, UnmintedUnknown
<1>2. \A x \in Orders \ {c} : owner'[x] = owner[x] /\ wal'[x] = wal[x]
  BY DEF TypeOK, JournalTypeOK
<1>3. UnmintedUnknown'
  BY <1>1, <1>2 DEF WalInv, UnmintedUnknown
<1>4. JournaledBeforeVenue'
  BY <1>1, <1>2 DEF WalInv, JournaledBeforeVenue, IsEntry
<1> QED
  BY <1>3, <1>4 DEF WalInv

LEMMA SubmitAbortsKeepsWalInv ==
    ASSUME TypeOK, WalInv, NEW c \in Orders, NEW d \in Decisions, SubmitAborts(d, c)
    PROVE  WalInv'
<1>1. PICK i, s :
        /\ RegisterAndJournal(d, c, i)
        /\ wal' = [wal EXCEPT ![c] = LastSubmitRecord(i, s)]
  BY DEF SubmitAborts
<1>2. \A x \in Orders : OnTheWay(x)' => OnTheWay(x)
  BY DEF SubmitAborts, OnTheWay, callVars, venueVars
<1>3. owner[c] = NoDecision
  BY DEF SubmitAborts, Admitted
<1> DEFINE k == LastSubmitRecord(i, s)
<1>4. wal' = [wal EXCEPT ![c] = k]
  BY <1>1
<1> HIDE DEF k
<1> QED
  BY <1>1, <1>2, <1>3, <1>4, UnsentKeepsWalInv DEF RegisterAndJournal

LEMMA CrashInsideSubmitKeepsWalInv ==
    ASSUME TypeOK, WalInv, NEW c \in Orders, NEW d \in Decisions,
           CrashInsideSubmit(d, c)
    PROVE  WalInv'
<1>1. \A x \in Orders : OnTheWay(x)' => OnTheWay(x)
  BY DEF CrashInsideSubmit, Restarted, OnTheWay
<1>2. /\ owner[c] = NoDecision
      /\ owner' = [owner EXCEPT ![c] = d]
      /\ wal' = [wal EXCEPT ![c] = "order_intent"]
      /\ walIntent \subseteq walIntent'
  BY DEF CrashInsideSubmit, Admitted
<1> QED
  BY <1>1, <1>2, UnsentKeepsWalInv

LEMMA WalInvStep ==
    ASSUME TypeOK, WalInv, [Next]_vars
    PROVE  WalInv'
<1>1. ASSUME NEW c \in Orders, SubmitStep(c) PROVE WalInv'
  BY <1>1, SubmitSendsKeepsWalInv, SubmitAbortsKeepsWalInv, AdapterIsQuiet,
     QuietKeepsWalInv
  DEF SubmitStep, CallEnds
<1>2. CASE CrashStep
  BY <1>2, CrashInsideSubmitKeepsWalInv, OtherIsQuiet, QuietKeepsWalInv DEF CrashStep
<1> QED
  BY <1>1, <1>2, VenueIsQuiet, StreamIsQuiet, CancelIsQuiet, ReconcileIsQuiet,
     SyncFillStateIsQuiet, OtherIsQuiet, QuietKeepsWalInv
  DEF Next

\* A risk-increasing order reaches the venue, or is on its way there, only with
\* both of its submission records durable (JournaledBeforeVenue), whatever
\* appends fail, requests are retried and processes crash.
THEOREM WriteAhead == Spec => []JournaledBeforeVenue
<1>1. Init => WalInv
  <2>1. Init => \A c \in Orders : ~OnTheWay(c)
    BY DEF Init, OnTheWay
  <2> QED
    BY <2>1 DEF WalInv, UnmintedUnknown, JournaledBeforeVenue
<1>2. TypeOK /\ WalInv /\ [Next]_vars => WalInv'
  BY WalInvStep
<1>3. WalInv => JournaledBeforeVenue
  BY DEF WalInv
<1> QED
  BY <1>1, <1>2, <1>3, TypeCorrect, PTL DEF Spec
===============================================================================
