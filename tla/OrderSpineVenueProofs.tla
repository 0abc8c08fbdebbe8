------------------------- MODULE OrderSpineVenueProofs -------------------------
(***************************************************************************)
(* What the manager believes of an order is what the venue has: fills,     *)
(* terminal states, and orders that are open.  On top of                   *)
(* OrderSpineOnceProofs, under its assumption about the network.           *)
(***************************************************************************)
EXTENDS OrderSpineOnceProofs, FiniteSetTheorems

USE SpineAssumption DEF SpineAssumption

-------------------------------------------------------------------------------
(***************************************************************************)
(* The inductive invariants.                                               *)
(***************************************************************************)

\* Fills.  The trades an order remembers are trades the venue executed; as long as
\* the order is not over their number is its trade sum, and its fill is at most
\* what the venue executed.
TradesSeen(c) == {i \in 1 .. Qty : <<c, i>> \in seen}

SeenAreTrades == \A c \in Orders : TradesSeen(c) \subseteq 1 .. vfilled[c]

Accounted(c) ==
    /\ filled[c] <= vfilled[c]
    /\ tradeSum[c] = Cardinality(TradesSeen(c))

OpenAccounted == \A c \in Orders : ost[c] \notin TerminalStates => Accounted(c)

FetchIsPast == recon.order \in Orders => recon.filled <= vfilled[recon.order]

ClosedIsFull == \A c \in Orders : venue[c] = "closed" <=> vfilled[c] = Qty

FillInv == SeenAreTrades /\ OpenAccounted /\ FetchIsPast /\ ClosedIsFull

-------------------------------------------------------------------------------
(* What the venue does.                                                    *)

EndedStatuses == {"closed", "canceled", "rejected"}

LEMMA OnlyVenueMoves ==
    ASSUME [Next]_vars
    PROVE  UNCHANGED <<venue, vfilled>> \/ \E c \in Orders : VenueStep(c)
<1> USE DEF venueVars
<1>1. ASSUME NEW c \in Orders, SubmitStep(c)
      PROVE  UNCHANGED <<venue, vfilled>>
  BY <1>1 DEF SubmitStep, SubmitSends, SubmitAborts, SubmitReturns, SubmitRejected,
              SubmitNetworkError, SubmitRetries, SubmitTimesOut, SubmitFaults,
              ParkAsUnknown
<1>2. ASSUME NEW c \in Orders, StreamStep(c) \/ CancelStep(c) \/ SyncFillState(c)
      PROVE  UNCHANGED <<venue, vfilled>>
  BY <1>2 DEF StreamStep, StreamOrder, StreamFill, CancelStep, CancelBegins,
              CancelAnswered, CancelFails, CancelRefreshes, SyncFillState
<1>3. CASE ReconcileStep \/ CrashStep
  BY <1>3 DEF ReconcileStep, ReconcileBegins, ReconcileFetches, ReconcileFails,
              ReconcileResolves, CrashStep, CrashAndRestart, CrashInsideSubmit
<1>4. CASE AcknowledgeRecovery \/ SideRecordFails \/ UNCHANGED vars
  BY <1>4 DEF AcknowledgeRecovery, SideRecordFails, vars
<1> QED
  BY <1>1, <1>2, <1>3, <1>4 DEF Next

\* The venue's order only moves on: its fills grow, its end is final, and what can
\* no longer land does not.
MovesOn(c) ==
    /\ vfilled'[c] \in Nat /\ vfilled[c] <= vfilled'[c]
    /\ venue[c] \in EndedStatuses => venue'[c] = venue[c]
    /\ venue[c] = "absent" => venue'[c] \in {"absent", "open"}
    /\ venue[c] = "absent" /\ ~MayLand(c) => venue'[c] = "absent"

LEMMA VenueMovesOn ==
    ASSUME TypeOK, [Next]_vars, NEW x \in Orders
    PROVE  MovesOn(x)
<1> USE DEF TypeOK, VenueTypeOK, MovesOn, MayLand, EndedStatuses
<1>1. CASE UNCHANGED <<venue, vfilled>>
  BY <1>1
<1>2. ASSUME NEW c \in Orders, VenueStep(c) PROVE MovesOn(x)
  BY <1>2 DEF VenueStep, VenueAccepts, VenueFills, VenueEnds
<1> QED
  BY <1>1, <1>2, OnlyVenueMoves

LEMMA ClosedIsFullStep ==
    ASSUME TypeOK, ClosedIsFull, [Next]_vars
    PROVE  ClosedIsFull'
<1> USE DEF TypeOK, VenueTypeOK, ClosedIsFull
<1>1. CASE UNCHANGED <<venue, vfilled>>
  BY <1>1
<1>2. ASSUME NEW c \in Orders, VenueStep(c) PROVE ClosedIsFull'
  BY <1>2 DEF VenueStep, VenueAccepts, VenueFills, VenueEnds
<1> QED
  BY <1>1, <1>2, OnlyVenueMoves

-------------------------------------------------------------------------------
(* Lemmas about the whitelist. *)

\* A terminal state has no successor.
LEMMA TerminalIsFinal ==
    ASSUME NEW s, NEW target, Legal(s, target)
    PROVE  s \notin TerminalStates /\ s # "none"
BY DEF Legal, LegalTransitions, TerminalStates

LEMMA StreamKeepsTerminal ==
    ASSUME NEW s \in TerminalStates, NEW target
    PROVE  StreamResult(s, target) = s
BY DEF StreamResult, StreamApplies

\* A trade of an order that is not over is always applied, and so remembered.
LEMMA TradeApplies ==
    ASSUME NEW s \in VenueFacingStates \ TerminalStates,
           NEW target \in {"partially_filled", "filled"}
    PROVE  StreamApplies(s, target) /\ StreamResult(s, target) = target
BY DEF StreamResult, StreamApplies, StreamStagingState, AfterTimeout, Legal,
       LegalTransitions, VenueFacingStates, TerminalStates

-------------------------------------------------------------------------------
(* Fills. *)

\* One trade more is still a trade of the venue.
LEMMA OneMoreTrade ==
    ASSUME TypeOK, SeenAreTrades, NEW c \in Orders, NEW i \in 1 .. Qty,
           i <= vfilled[c], <<c, i>> \notin seen,
           seen' = seen \cup {<<c, i>>}
    PROVE  /\ TradesSeen(c)' \subseteq 1 .. vfilled[c]
           /\ Cardinality(TradesSeen(c)') = Cardinality(TradesSeen(c)) + 1
           /\ Cardinality(TradesSeen(c)) + 1 <= vfilled[c]
<1>1. vfilled[c] \in Nat /\ vfilled[c] <= Qty
  BY DEF TypeOK, VenueTypeOK
<1>2. TradesSeen(c)' = TradesSeen(c) \cup {i} /\ i \notin TradesSeen(c)
  BY DEF TradesSeen
<1>3. TradesSeen(c) \cup {i} \subseteq 1 .. vfilled[c]
  BY <1>1 DEF SeenAreTrades
<1>4. IsFiniteSet(1 .. vfilled[c]) /\ Cardinality(1 .. vfilled[c]) = vfilled[c]
  <2>1. \A n \in Nat : /\ IsFiniteSet(1 .. n)
                       /\ Cardinality(1 .. n) = IF 1 > n THEN 0 ELSE n - 1 + 1
    BY FS_Interval
  <2> QED BY <1>1, <2>1
<1>5. IsFiniteSet(TradesSeen(c))
  BY <1>3, <1>4, FS_Subset
<1>6. Cardinality(TradesSeen(c) \cup {i}) = Cardinality(TradesSeen(c)) + 1
  BY <1>2, <1>5, FS_AddElement
<1>7. Cardinality(TradesSeen(c) \cup {i}) <= vfilled[c]
  BY <1>3, <1>4, FS_Subset
<1> QED
  BY <1>2, <1>3, <1>6, <1>7

\* Steps that leave the fills of every order as they are.
FillsUntouched ==
    /\ UNCHANGED <<filled, tradeSum, seen>>
    /\ \A c \in Orders : ost'[c] \notin TerminalStates => ost[c] \notin TerminalStates

LEMMA UntouchedFills ==
    ASSUME TypeOK, OnceInv, [Next]_vars
    PROVE  \/ FillsUntouched
           \/ \E c \in Orders : StreamStep(c) \/ CancelRefreshes(c) \/ SyncFillState(c)
           \/ ReconcileResolves
           \/ CrashStep
<1> USE DEF FillsUntouched, TypeOK, ManagerTypeOK
<1>1. ASSUME NEW c \in Orders, NEW d \in Decisions,
             SubmitSends(d, c) \/ SubmitAborts(d, c)
      PROVE  FillsUntouched
  <2>1. ost[c] = "none"
    BY <1>1 DEF SubmitSends, SubmitAborts, Admitted, OnceInv, UnmintedUntouched,
                Untouched
  <2> QED
    BY <1>1, <2>1 DEF SubmitSends, SubmitAborts, TerminalStates
<1>2. ASSUME NEW c \in Orders, CallEnds(c) PROVE FillsUntouched
  <2>1. CASE SubmitReturns(c)
    BY <2>1 DEF SubmitReturns, TerminalStates
  <2>2. CASE SubmitRejected(c)
    BY <2>2, TerminalIsFinal DEF SubmitRejected
  <2>3. CASE SubmitNetworkError(c) \/ SubmitRetries(c)
    BY <2>3 DEF SubmitNetworkError, SubmitRetries, managerVars
  <2>4. CASE SubmitTimesOut(c) \/ SubmitFaults(c)
    BY <2>4, TerminalIsFinal DEF SubmitTimesOut, SubmitFaults, ParkAsUnknown
  <2> QED BY <1>2, <2>1, <2>2, <2>3, <2>4 DEF CallEnds
<1>3. ASSUME NEW c \in Orders, VenueStep(c) PROVE FillsUntouched
  BY <1>3 DEF VenueStep, VenueAccepts, VenueFills, VenueEnds, managerVars
<1>4. ASSUME NEW c \in Orders,
             CancelBegins(c) \/ CancelAnswered(c) \/ CancelFails(c)
      PROVE  FillsUntouched
  BY <1>4, TerminalIsFinal DEF CancelBegins, CancelAnswered, CancelFails, managerVars
<1>5. ASSUME NEW c \in Orders, ReconcileBegins(c) PROVE FillsUntouched
  BY <1>5 DEF ReconcileBegins, NeedsReconciliation, UnresolvedStates, TerminalStates
<1>6. CASE ReconcileFetches \/ ReconcileFails
  BY <1>6 DEF ReconcileFetches, ReconcileFails, managerVars
<1>7. CASE AcknowledgeRecovery \/ SideRecordFails \/ UNCHANGED vars
  BY <1>7 DEF AcknowledgeRecovery, SideRecordFails, vars, managerVars
<1> QED
  BY <1>1, <1>2, <1>3, <1>4, <1>5, <1>6, <1>7
  DEF Next, SubmitStep, CallEnds, CancelStep, ReconcileStep

\* A step that raises the fill of one order to a total the venue has reported.
FillRaised(c) ==
    /\ \E f \in 0 .. vfilled[c] : filled' = [filled EXCEPT ![c] = Larger(@, f)]
    /\ UNCHANGED <<tradeSum, seen, vfilled>>
    /\ \A x \in Orders : ost'[x] \notin TerminalStates => ost[x] \notin TerminalStates

LEMMA RaisedFills ==
    ASSUME TypeOK, FillInv, NEW c \in Orders,
           \/ StreamOrder(c) \/ CancelRefreshes(c) \/ SyncFillState(c)
           \/ ReconcileResolves /\ recon.order = c
    PROVE  FillRaised(c)
<1> USE DEF TypeOK, ManagerTypeOK, VenueTypeOK, FillRaised
<1>1. CASE StreamOrder(c)
  <2>1. PICK e \in OrderEvents(c) :
          /\ filled' = [filled EXCEPT ![c] = Larger(@, e.filled)]
          /\ ost' = [ost EXCEPT ![c] = StreamResult(@, StreamTarget(e))]
    BY <1>1 DEF StreamOrder
  <2>2. e.filled \in 0 .. vfilled[c]
    BY DEF OrderEvents, FillInv, ClosedIsFull
  <2>3. \A x \in Orders : ost'[x] \notin TerminalStates => ost[x] \notin TerminalStates
    BY <2>1, StreamKeepsTerminal
  <2> QED
    BY <1>1, <2>1, <2>2, <2>3 DEF StreamOrder, venueVars
<1>2. CASE CancelRefreshes(c)
  BY <1>2 DEF CancelRefreshes, venueVars
<1>3. CASE SyncFillState(c)
  <2>1. filled' = [filled EXCEPT ![c] = Larger(@, vfilled[c])]
        /\ vfilled[c] \in 0 .. vfilled[c]
    BY <1>3 DEF SyncFillState
  <2>2. ost[c] \notin TerminalStates /\ \A x \in Orders \ {c} : ost'[x] = ost[x]
    BY <1>3 DEF SyncFillState, TerminalStates
  <2> QED
    BY <1>3, <2>1, <2>2 DEF SyncFillState, venueVars
<1>4. CASE ReconcileResolves /\ recon.order = c
  <2>1. filled' = [filled EXCEPT ![c] = Larger(@, recon.filled)]
        /\ recon.filled \in 0 .. vfilled[c]
    BY <1>4 DEF ReconcileResolves, CallTypeOK, FillInv, FetchIsPast
  <2>2. \A x \in Orders : ost'[x] \notin TerminalStates => ost[x] \notin TerminalStates
    BY <1>4, TerminalIsFinal DEF ReconcileResolves
  <2> QED
    BY <1>4, <2>1, <2>2 DEF ReconcileResolves, venueVars
<1> QED
  BY <1>1, <1>2, <1>3, <1>4

LEMMA FreshMemory ==
    ASSUME CrashStep
    PROVE  /\ filled' = [c \in Orders |-> 0] /\ tradeSum' = [c \in Orders |-> 0]
           /\ seen' = {} /\ recon' = NoFetch
BY DEF CrashStep, CrashAndRestart, CrashInsideSubmit, Restarted

\* A trade of an order that is not over: it is remembered, and what the order is
\* credited with by it is at most what the venue executed.
LEMMA TradeCredits ==
    ASSUME TypeOK, FillInv, NEW c \in Orders, NEW i \in 1 .. Qty, StreamFill(c, i),
           ost[c] \notin TerminalStates
    PROVE  /\ Larger(filled[c], tradeSum[c] + 1) <= vfilled[c]
           /\ Cardinality(TradesSeen(c)') = tradeSum[c] + 1
<1> DEFINE total  == Larger(filled[c], tradeSum[c] + 1)
           target == IF total >= Qty THEN "filled" ELSE "partially_filled"
<1>1. /\ ost[c] # "none" /\ i <= vfilled[c] /\ <<c, i>> \notin seen
      /\ seen' = SeenAfter(c, i, StreamApplies(ost[c], target))
  BY DEF StreamFill
<1>2. target \in {"partially_filled", "filled"}
  OBVIOUS
<1>3. ost[c] \in VenueFacingStates \ TerminalStates
  BY <1>1 DEF TypeOK, ManagerTypeOK
<1> HIDE DEF target
<1>4. seen' = seen \cup {<<c, i>>}
  BY <1>1, <1>2, <1>3, TradeApplies DEF SeenAfter
<1>5. /\ Cardinality(TradesSeen(c)') = Cardinality(TradesSeen(c)) + 1
      /\ Cardinality(TradesSeen(c)) + 1 <= vfilled[c]
  BY <1>1, <1>4, OneMoreTrade DEF FillInv
<1>6. Accounted(c)
  BY DEF FillInv, OpenAccounted
<1> QED
  BY <1>5, <1>6 DEF Accounted, Larger

\* The i-th trade of c arrives.
LEMMA TradeArrives ==
    ASSUME TypeOK, FillInv, NEW c \in Orders, NEW i \in 1 .. Qty, StreamFill(c, i)
    PROVE  SeenAreTrades' /\ OpenAccounted'
<1> USE DEF TypeOK, ManagerTypeOK, VenueTypeOK
<1> DEFINE total  == Larger(filled[c], tradeSum[c] + 1)
           target == IF total >= Qty THEN "filled" ELSE "partially_filled"
<1>1. /\ i <= vfilled[c] /\ <<c, i>> \notin seen
      /\ tradeSum' = [tradeSum EXCEPT ![c] = @ + 1]
      /\ filled' = [filled EXCEPT ![c] = total]
      /\ ost' = [ost EXCEPT ![c] = StreamResult(@, target)]
      /\ seen' = seen \/ seen' = seen \cup {<<c, i>>}
      /\ vfilled' = vfilled
  BY DEF StreamFill, SeenAfter, venueVars
<1> HIDE DEF target
<1>2. \A x \in Orders \ {c} : TradesSeen(x)' = TradesSeen(x)
  BY <1>1 DEF TradesSeen
<1>3. SeenAreTrades'
  <2>1. CASE seen' = seen
    BY <1>1, <2>1 DEF FillInv, SeenAreTrades, TradesSeen
  <2>2. CASE seen' = seen \cup {<<c, i>>}
    <3>1. TradesSeen(c)' \subseteq 1 .. vfilled'[c]
      BY <1>1, <2>2, OneMoreTrade DEF FillInv
    <3>2. \A x \in Orders \ {c} : TradesSeen(x)' \subseteq 1 .. vfilled'[x]
      BY <1>1, <1>2 DEF FillInv, SeenAreTrades
    <3> QED BY <3>1, <3>2 DEF SeenAreTrades
  <2> QED BY <1>1, <2>1, <2>2
<1>4. ASSUME NEW x \in Orders, ost'[x] \notin TerminalStates
      PROVE  Accounted(x)'
  <2>1. ost[x] \notin TerminalStates
    BY <1>1, <1>4, StreamKeepsTerminal
  <2>2. CASE x # c
    <3>1. Accounted(x)
      BY <2>1 DEF FillInv, OpenAccounted
    <3>2. filled'[x] = filled[x] /\ tradeSum'[x] = tradeSum[x]
      BY <1>1, <2>2
    <3> QED
      BY <1>1, <1>2, <2>2, <3>1, <3>2 DEF Accounted
  <2>3. CASE x = c
    <3>1. total <= vfilled[c] /\ Cardinality(TradesSeen(c)') = tradeSum[c] + 1
      BY <2>1, <2>3, TradeCredits
    <3>2. tradeSum'[c] = tradeSum[c] + 1 /\ filled'[c] = total
      BY <1>1
    <3> QED
      BY <1>1, <2>3, <3>1, <3>2 DEF Accounted
  <2> QED BY <2>2, <2>3
<1> QED
  BY <1>3, <1>4 DEF OpenAccounted

LEMMA FetchIsPastStep ==
    ASSUME TypeOK, OnceInv, FillInv, [Next]_vars
    PROVE  FetchIsPast'
<1> USE DEF FetchIsPast, TypeOK, CallTypeOK, VenueTypeOK
<1>1. CASE recon' = recon
  BY <1>1, VenueMovesOn DEF FillInv, MovesOn
<1>2. CASE recon' = NoFetch
  BY <1>2 DEF NoFetch
<1>3. CASE ReconcileFetches
  <2>1. recon.order \in Orders /\ recon' = [recon EXCEPT !.answer = venue[recon.order],
                                                       !.filled = vfilled[recon.order]]
        /\ vfilled' = vfilled
    BY <1>3, FetchAnswers DEF ReconcileFetches, venueVars
  <2> QED BY <2>1
<1>4. ASSUME NEW c \in Orders,
             recon' = [order |-> c, answer |-> "waiting", filled |-> 0]
      PROVE  FetchIsPast'
  BY <1>4, VenueMovesOn DEF MovesOn
<1> QED
  BY <1>1, <1>2, <1>3, <1>4, FetchStep

LEMMA FillInvStep ==
    ASSUME TypeOK, OnceInv, FillInv, [Next]_vars
    PROVE  FillInv'
<1> USE DEF TypeOK, ManagerTypeOK, VenueTypeOK
<1>1. SeenAreTrades' /\ OpenAccounted'
  <2>1. CASE FillsUntouched
    <3>1. \A x \in Orders : TradesSeen(x)' = TradesSeen(x)
      BY <2>1 DEF FillsUntouched, TradesSeen
    <3> QED
      BY <2>1, <3>1, VenueMovesOn DEF FillsUntouched, MovesOn, FillInv, SeenAreTrades,
                                      OpenAccounted, Accounted
  <2>2. ASSUME NEW c \in Orders, FillRaised(c) PROVE SeenAreTrades' /\ OpenAccounted'
    <3>1. \A x \in Orders : TradesSeen(x)' = TradesSeen(x)
      BY <2>2 DEF FillRaised, TradesSeen
    <3>2. \A x \in Orders : filled[x] <= vfilled[x] => filled'[x] <= vfilled[x]
      BY <2>2 DEF FillRaised, Larger
    <3> QED
      BY <2>2, <3>1, <3>2 DEF FillRaised, FillInv, SeenAreTrades, OpenAccounted,
                              Accounted
  <2>3. CASE CrashStep
    <3>1. \A x \in Orders : TradesSeen(x)' = {}
      BY <2>3, FreshMemory DEF TradesSeen
    <3>2. Cardinality({}) = 0
      BY FS_EmptySet
    <3>3. \A x \in Orders : filled'[x] = 0 /\ tradeSum'[x] = 0 /\ 0 <= vfilled'[x]
      BY <2>3, FreshMemory, VenueMovesOn DEF MovesOn
    <3>4. SeenAreTrades'
      BY <3>1 DEF SeenAreTrades
    <3>5. ASSUME NEW x \in Orders PROVE Accounted(x)'
      <4>1. Cardinality(TradesSeen(x)') = 0
        BY <3>1, <3>2
      <4> QED
        BY <3>3, <4>1 DEF Accounted
    <3> QED
      BY <3>4, <3>5 DEF OpenAccounted
  <2>4. ASSUME ReconcileResolves PROVE FillRaised(recon.order) /\ recon.order \in Orders
    <3>1. recon.order \in Orders
      BY <2>4 DEF ReconcileResolves, CallTypeOK, VenueStatuses
    <3> QED BY <2>4, <3>1, RaisedFills
  <2> QED
    BY <2>1, <2>2, <2>3, <2>4, UntouchedFills, RaisedFills, TradeArrives DEF StreamStep
<1> QED
  BY <1>1, FetchIsPastStep, ClosedIsFullStep DEF FillInv

LEMMA FillInvInit == Init => FillInv
<1> SUFFICES ASSUME Init PROVE FillInv
  OBVIOUS
<1>1. /\ seen = {} /\ filled = [c \in Orders |-> 0] /\ recon = NoFetch
      /\ tradeSum = [c \in Orders |-> 0] /\ vfilled = [c \in Orders |-> 0]
      /\ venue = [c \in Orders |-> "absent"]
  BY DEF Init
<1>2. \A x \in Orders : TradesSeen(x) = {}
  BY <1>1 DEF TradesSeen
<1>3. Cardinality({}) = 0
  BY FS_EmptySet
<1> QED
  BY <1>1, <1>2, <1>3 DEF FillInv, SeenAreTrades, OpenAccounted, Accounted,
                          FetchIsPast, NoFetch, ClosedIsFull

LEMMA FillInvAlways ==
    ASSUME NetworkAssumption
    PROVE  Spec => [](TypeOK /\ OnceInv /\ FillInv)
<1>1. TypeOK /\ OnceInv /\ FillInv /\ [Next]_vars => FillInv'
  BY FillInvStep
<1> QED
  BY FillInvInit, <1>1, OnceInvAlways, PTL DEF Spec

\* Fill accounting (OpenFillsAreVenueFills): trades, order events, polls, cancel
\* refreshes and reconciliation report the same fills in any order, any number of
\* times and across restarts, and an order that is not over is never credited with
\* more than the venue has executed.
THEOREM OpenFillsAccounted ==
    ASSUME NetworkAssumption
    PROVE  Spec => []OpenFillsAreVenueFills
<1>1. FillInv => OpenFillsAreVenueFills
  BY DEF FillInv, OpenAccounted, Accounted, OpenFillsAreVenueFills
<1> QED
  BY <1>1, FillInvAlways, PTL

-------------------------------------------------------------------------------
(***************************************************************************)
(* Terminal states.                                                        *)
(***************************************************************************)

\* How the venue's order of status v has ended when the manager says s.
EndedAs(s, v) ==
    /\ s = "filled" => v = "closed"
    /\ s = "cancelled" => v = "canceled"
    /\ s = "rejected" => v \in {"absent", "rejected"}

\* An answer that ends an order is final, and so is a refusal on record.
FetchIsFinal ==
    recon.answer \in EndedStatuses \cup {"absent"} => venue[recon.order] = recon.answer

RefusalIsTrue ==
    \A c \in Orders : wal[c] = "order_rejected" => venue[c] \in {"absent", "rejected"}

EndsAreTrue == \A c \in Orders : EndedAs(ost[c], venue[c])

TerminalInv == EndsAreTrue /\ FetchIsFinal /\ RefusalIsTrue

\* What a step may put on record about an order.
JournalMoves(x) ==
    \/ wal'[x] = wal[x]
    \/ wal'[x] \in UnresolvedLastKinds /\ ost'[x] # "none"
    \/ wal'[x] \in AckedKinds
    \/ wal'[x] = "order_rejected" /\ SubmitRejected(x)
    \/ wal'[x] = "order_cancel" /\ CancelRefreshes(x)

LEMMA JournalStep ==
    ASSUME TypeOK, OnceInv, [Next]_vars, NEW x \in Orders
    PROVE  JournalMoves(x)
<1> USE DEF TypeOK, JournalTypeOK, ManagerTypeOK, JournalMoves, UnresolvedLastKinds,
            AckedKinds
<1>1. ASSUME NEW c \in Orders, NEW d \in Decisions,
             SubmitSends(d, c) \/ SubmitAborts(d, c)
      PROVE  JournalMoves(x)
  <2>1. wal[c] = "none"
    BY <1>1 DEF SubmitSends, SubmitAborts, Admitted, OnceInv, UnmintedUntouched,
                Untouched
  <2>2. \E i, s : wal' = [wal EXCEPT ![c] = LastSubmitRecord(i, s)]
    BY <1>1 DEF SubmitSends, SubmitAborts
  <2>3. ost'[c] # "none"
    BY <1>1 DEF SubmitSends, SubmitAborts
  <2> QED BY <2>1, <2>2, <2>3 DEF LastSubmitRecord
<1>2. ASSUME NEW c \in Orders, SubmitReturns(c) PROVE JournalMoves(x)
  BY <1>2 DEF SubmitReturns
<1>3. ASSUME NEW c \in Orders, SubmitRejected(c) PROVE JournalMoves(x)
  BY <1>3 DEF SubmitRejected, Log, journalVars
<1>4. ASSUME NEW c \in Orders, NEW j \in BOOLEAN, ParkAsUnknown(c, j)
      PROVE  JournalMoves(x)
  BY <1>4 DEF ParkAsUnknown, Log, journalVars
<1>5. ASSUME NEW c \in Orders,
             \/ SubmitNetworkError(c) \/ SubmitRetries(c) \/ VenueStep(c)
             \/ StreamStep(c)
      PROVE  JournalMoves(x)
  BY <1>5 DEF SubmitNetworkError, SubmitRetries, VenueStep, VenueAccepts, VenueFills,
              VenueEnds, StreamStep, StreamOrder, StreamFill, journalVars
<1>6. ASSUME NEW c \in Orders, CancelStep(c) \/ SyncFillState(c)
      PROVE  JournalMoves(x)
  BY <1>6 DEF CancelStep, CancelBegins, CancelAnswered, CancelFails, CancelRefreshes,
              SyncFillState, Log, journalVars
<1>7. ASSUME NEW c \in Orders, ReconcileBegins(c) PROVE JournalMoves(x)
  BY <1>7 DEF ReconcileBegins, Log, journalVars
<1>8. CASE ReconcileFetches \/ ReconcileFails \/ ReconcileResolves
  BY <1>8 DEF ReconcileFetches, ReconcileFails, ReconcileResolves, Log, journalVars
<1>9. CASE CrashAndRestart
  BY <1>9 DEF CrashAndRestart
<1>10. ASSUME NEW c \in Orders, NEW d \in Decisions, CrashInsideSubmit(d, c)
       PROVE  JournalMoves(x)
  BY <1>10 DEF CrashInsideSubmit, Restarted, Rehydrated
<1>11. CASE AcknowledgeRecovery \/ SideRecordFails \/ UNCHANGED vars
  BY <1>11 DEF AcknowledgeRecovery, SideRecordFails, vars, journalVars
<1> QED
  BY <1>1, <1>2, <1>3, <1>4, <1>5, <1>6, <1>7, <1>8, <1>9, <1>10, <1>11
  DEF Next, SubmitStep, SubmitTimesOut, SubmitFaults, ReconcileStep, CrashStep

\* An order event says only how the venue's order has ended.
LEMMA EventEnds ==
    ASSUME NEW c \in Orders, NEW e \in OrderEvents(c)
    PROVE  EndedAs(StreamTarget(e), venue[c])
BY DEF OrderEvents, StreamTarget, EndedAs

\* A trade completes an order only when the venue's order is complete.
LEMMA TradeEnds ==
    ASSUME TypeOK, FillInv, NEW c \in Orders, NEW i \in 1 .. Qty, StreamFill(c, i),
           EndedAs(ost[c], venue[c])
    PROVE  EndedAs(ost'[c], venue[c])
<1> USE DEF TypeOK, ManagerTypeOK, VenueTypeOK
<1> DEFINE total  == Larger(filled[c], tradeSum[c] + 1)
           target == IF total >= Qty THEN "filled" ELSE "partially_filled"
<1>1. ost'[c] = StreamResult(ost[c], target)
  BY DEF StreamFill
<1>2. CASE ost[c] \in TerminalStates
  BY <1>1, <1>2, StreamKeepsTerminal
<1>3. CASE ost[c] \notin TerminalStates
  <2>1. total <= vfilled[c] /\ total \in Nat
    BY <1>3, TradeCredits DEF Larger
  <2>2. target = "filled" => venue[c] = "closed"
    BY <2>1 DEF FillInv, ClosedIsFull
  <2>3. ost'[c] \in {ost[c], target} /\ target \in {"filled", "partially_filled"}
    BY <1>1, StreamLeaves
  <2> HIDE DEF target
  <2> QED
    BY <2>2, <2>3 DEF EndedAs
<1> QED BY <1>2, <1>3

\* A step never ends an order in the manager's eyes otherwise than at the venue.
LEMMA EndsStep ==
    ASSUME NetworkAssumption, TypeOK, OnceInv, FillInv, TerminalInv, [Next]_vars,
           NEW x \in Orders
    PROVE  ost'[x] = ost[x] \/ EndedAs(ost'[x], venue[x])
<1> USE DEF TypeOK, ManagerTypeOK, CallTypeOK, VenueTypeOK
<1>1. ASSUME NEW c \in Orders, NEW d \in Decisions,
             SubmitSends(d, c) \/ SubmitAborts(d, c)
      PROVE  ost'[x] = ost[x] \/ EndedAs(ost'[x], venue[x])
  <2>1. venue[c] = "absent"
    BY <1>1 DEF SubmitSends, SubmitAborts, Admitted, OnceInv, UnmintedUntouched,
                Untouched, OnTheWay
  <2> QED BY <1>1, <2>1 DEF SubmitSends, SubmitAborts, EndedAs
<1>2. ASSUME NEW c \in Orders, CallEnds(c)
      PROVE  ost'[x] = ost[x] \/ EndedAs(ost'[x], venue[x])
  <2>1. SubmitRejected(c) => venue[c] = "absent"
    BY DEF SubmitRejected, NetworkAssumption
  <2> QED
    BY <1>2, <2>1 DEF CallEnds, SubmitReturns, SubmitRejected, SubmitNetworkError,
                SubmitRetries, SubmitTimesOut, SubmitFaults, ParkAsUnknown,
                managerVars, EndedAs
<1>3. ASSUME NEW c \in Orders, VenueStep(c) PROVE ost'[x] = ost[x]
  BY <1>3 DEF VenueStep, VenueAccepts, VenueFills, VenueEnds, managerVars
<1>4. ASSUME NEW c \in Orders, StreamOrder(c)
      PROVE  ost'[x] = ost[x] \/ EndedAs(ost'[x], venue[x])
  <2>1. PICK e \in OrderEvents(c) :
          ost' = [ost EXCEPT ![c] = StreamResult(@, StreamTarget(e))]
    BY <1>4 DEF StreamOrder
  <2> QED BY <2>1, StreamLeaves, EventEnds
<1>5. ASSUME NEW c \in Orders, NEW i \in 1 .. Qty, StreamFill(c, i)
      PROVE  ost'[x] = ost[x] \/ EndedAs(ost'[x], venue[x])
  <2>1. x # c => ost'[x] = ost[x]
    BY <1>5 DEF StreamFill
  <2> QED BY <1>5, <2>1, TradeEnds DEF TerminalInv, EndsAreTrue
<1>6. ASSUME NEW c \in Orders, CancelStep(c)
      PROVE  ost'[x] = ost[x] \/ EndedAs(ost'[x], venue[x])
  <2>1. CASE CancelAnswered(c)
    <3>1. venue[c] # "absent"
      BY <2>1 DEF CancelAnswered, OnceInv, KnownToVenue, ToldOf
    <3> QED BY <2>1, <3>1 DEF CancelAnswered, CancelTarget, EndedAs
  <2> QED
    BY <1>6, <2>1 DEF CancelStep, CancelBegins, CancelFails, CancelRefreshes,
                      managerVars, EndedAs
<1>7. ASSUME NEW c \in Orders, ReconcileBegins(c) \/ SyncFillState(c)
      PROVE  ost'[x] = ost[x] \/ EndedAs(ost'[x], venue[x])
  BY <1>7 DEF ReconcileBegins, SyncFillState, EndedAs
<1>8. CASE ReconcileFetches \/ ReconcileFails
  BY <1>8 DEF ReconcileFetches, ReconcileFails, managerVars
<1>9. CASE ReconcileResolves
  <2>1. recon.order \in Orders /\ recon.answer \in VenueStatuses
    BY <1>9 DEF ReconcileResolves, VenueStatuses
  <2>2. EndedAs(ReconcileTarget(recon.answer, recon.filled), venue[recon.order])
    BY <2>1 DEF TerminalInv, FetchIsFinal, EndedStatuses, EndedAs, ReconcileTarget,
                VenueStatuses
  <2> QED BY <1>9, <2>1, <2>2 DEF ReconcileResolves
<1>10. CASE CrashStep
  BY <1>10 DEF CrashStep, CrashAndRestart, CrashInsideSubmit, Restarted, Rehydrated,
               EndedAs, TerminalInv, RefusalIsTrue
<1>11. CASE AcknowledgeRecovery \/ SideRecordFails \/ UNCHANGED vars
  BY <1>11 DEF AcknowledgeRecovery, SideRecordFails, vars, managerVars
<1> QED
  BY <1>1, <1>2, <1>3, <1>4, <1>5, <1>6, <1>7, <1>8, <1>9, <1>10, <1>11
  DEF Next, SubmitStep, CallEnds, StreamStep, ReconcileStep

LEMMA EndsAreTrueStep ==
    ASSUME NetworkAssumption, TypeOK, OnceInv, FillInv, TerminalInv, [Next]_vars
    PROVE  EndsAreTrue'
<1> SUFFICES ASSUME NEW x \in Orders PROVE EndedAs(ost'[x], venue'[x])
  BY DEF EndsAreTrue
<1>1. EndedAs(ost'[x], venue[x])
  BY EndsStep DEF TerminalInv, EndsAreTrue
<1>2. MovesOn(x)
  BY VenueMovesOn
<1>3. ost'[x] = "rejected" => ~Exposed(x)'
  BY OverStep DEF OverAtVenue, CountsAsOver
<1> QED
  BY <1>1, <1>2, <1>3
  DEF EndedAs, MovesOn, EndedStatuses, Exposed, TypeOK, VenueTypeOK

LEMMA FetchIsFinalStep ==
    ASSUME TypeOK, OnceInv, TerminalInv, [Next]_vars
    PROVE  FetchIsFinal'
<1> USE DEF FetchIsFinal, TypeOK, CallTypeOK, VenueTypeOK, EndedStatuses
<1>1. CASE recon' = recon
  <2>1. recon.answer \in EndedStatuses \cup {"absent"} => recon.order \in Orders
    OBVIOUS
  <2> QED
    BY <1>1, <2>1, VenueMovesOn DEF TerminalInv, MovesOn, OnceInv, DoubtCannotLand
<1>2. CASE ReconcileFetches
  BY <1>2, FetchAnswers DEF ReconcileFetches, venueVars
<1> QED
  BY <1>1, <1>2, FetchStep DEF NoFetch

LEMMA RefusalIsTrueStep ==
    ASSUME NetworkAssumption, TypeOK, OnceInv, TerminalInv, [Next]_vars
    PROVE  RefusalIsTrue'
<1> SUFFICES ASSUME NEW x \in Orders, wal'[x] = "order_rejected"
             PROVE  venue'[x] \in {"absent", "rejected"}
  BY DEF RefusalIsTrue
<1>1. CASE wal[x] = "order_rejected"
  <2>1. venue[x] \in {"absent", "rejected"} /\ ~Exposed(x)
    BY <1>1 DEF TerminalInv, RefusalIsTrue, OnceInv, OverAtVenue, CountsAsOver
  <2> QED
    BY <2>1, VenueMovesOn DEF MovesOn, EndedStatuses, Exposed
<1>2. CASE SubmitRejected(x)
  BY <1>2 DEF SubmitRejected, NetworkAssumption
<1> QED
  BY <1>1, <1>2, JournalStep DEF JournalMoves, UnresolvedLastKinds, AckedKinds

LEMMA TerminalInvInit == Init => TerminalInv
BY DEF Init, TerminalInv, EndsAreTrue, EndedAs, FetchIsFinal, EndedStatuses, NoFetch,
       RefusalIsTrue

LEMMA TerminalInvAlways ==
    ASSUME NetworkAssumption
    PROVE  Spec => [](TypeOK /\ OnceInv /\ FillInv /\ TerminalInv)
<1>1. TypeOK /\ OnceInv /\ FillInv /\ TerminalInv /\ [Next]_vars => TerminalInv'
  BY EndsAreTrueStep, FetchIsFinalStep, RefusalIsTrueStep DEF TerminalInv
<1> QED
  BY TerminalInvInit, <1>1, FillInvAlways, PTL DEF Spec

\* A terminal state is never a guess (TerminalMatchesVenue): whichever of the pending
\* call, the private stream, a cancel, a poll, the reconciler or a replay after a
\* crash ends an order, the venue's order has ended in that very way.
THEOREM TerminalIsTrue ==
    ASSUME NetworkAssumption
    PROVE  Spec => []TerminalMatchesVenue
<1>1. OnceInv /\ TerminalInv => TerminalMatchesVenue
  BY DEF OnceInv, OverAtVenue, CountsAsOver, Exposed, TerminalInv, EndsAreTrue,
         EndedAs, TerminalMatchesVenue
<1> QED
  BY <1>1, TerminalInvAlways, PTL

-------------------------------------------------------------------------------
(***************************************************************************)
(* Orders that are open are remembered, provided the venue denies a cancel *)
(* only of an order that is over.                                          *)
(***************************************************************************)

CancelAssumption == NetworkAssumption /\ ~UnsureCancels

\* A journaled order has a record, and one the manager does not hold has a record
\* that settles it.
RecordsKept ==
    \A c \in walIntent :
        wal[c] # "none" /\ (ost[c] = "none" => wal[c] \notin UnresolvedLastKinds)

\* A cancel that went through, or is on record, did cancel.
CancelIsTrue ==
    \A c \in Orders :
        wal[c] = "order_cancel" \/ canc[c] = "refresh"
        => venue[c] \in {"canceled", "closed"}

MemoryInv == RecordsKept /\ CancelIsTrue

\* With its order_intent record an order has a last record, and the manager holds it.
LEMMA IntentStep ==
    ASSUME TypeOK, OnceInv, [Next]_vars, NEW x \in Orders,
           x \in walIntent', x \notin walIntent
    PROVE  wal'[x] # "none" /\ ost'[x] # "none"
<1> USE DEF TypeOK, ManagerTypeOK, JournalTypeOK
<1>1. ASSUME NEW c \in Orders, NEW d \in Decisions,
             SubmitSends(d, c) \/ SubmitAborts(d, c)
      PROVE  wal'[x] # "none" /\ ost'[x] # "none"
  <2>1. PICK i, s : /\ RegisterAndJournal(d, c, i)
                    /\ wal' = [wal EXCEPT ![c] = LastSubmitRecord(i, s)]
    BY <1>1 DEF SubmitSends, SubmitAborts
  <2>2. x = c /\ Durable(i)
    BY <2>1 DEF RegisterAndJournal
  <2> QED
    BY <1>1, <2>1, <2>2 DEF SubmitSends, SubmitAborts, LastSubmitRecord
<1>2. ASSUME NEW c \in Orders, NEW d \in Decisions, CrashInsideSubmit(d, c)
      PROVE  wal'[x] # "none" /\ ost'[x] # "none"
  BY <1>2 DEF CrashInsideSubmit, Restarted, Rehydrated, UnresolvedLastKinds
<1>3. ASSUME NEW c \in Orders, CallEnds(c) PROVE walIntent' = walIntent
  BY <1>3 DEF CallEnds, SubmitReturns, SubmitRejected, SubmitNetworkError,
              SubmitRetries, SubmitTimesOut, SubmitFaults, ParkAsUnknown, Log,
              journalVars
<1>4. ASSUME NEW c \in Orders,
             VenueStep(c) \/ StreamStep(c) \/ CancelStep(c) \/ SyncFillState(c)
      PROVE  walIntent' = walIntent
  BY <1>4 DEF VenueStep, VenueAccepts, VenueFills, VenueEnds, StreamStep, StreamOrder,
              StreamFill, CancelStep, CancelBegins, CancelAnswered, CancelFails,
              CancelRefreshes, SyncFillState, Log, journalVars
<1>5. CASE ReconcileStep \/ CrashAndRestart \/ AcknowledgeRecovery \/ SideRecordFails
           \/ UNCHANGED vars
  BY <1>5 DEF ReconcileStep, ReconcileBegins, ReconcileFetches, ReconcileFails,
              ReconcileResolves, CrashAndRestart, AcknowledgeRecovery,
              SideRecordFails, Log, vars, journalVars
<1> QED
  BY <1>1, <1>2, <1>3, <1>4, <1>5 DEF Next, SubmitStep, CallEnds, CrashStep

\* Only a crash makes the manager drop an order.
LEMMA DropStep ==
    ASSUME TypeOK, OnceInv, [Next]_vars, NEW x \in Orders, ost'[x] = "none", ~CrashStep
    PROVE  ost[x] = "none"
<1> USE DEF TypeOK, ManagerTypeOK, CallTypeOK
<1>1. ASSUME NEW c \in Orders, SubmitStep(c) PROVE ost[x] = "none"
  BY <1>1 DEF SubmitStep, SubmitSends, SubmitAborts, SubmitReturns, SubmitRejected,
              SubmitNetworkError, SubmitRetries, SubmitTimesOut, SubmitFaults,
              ParkAsUnknown, managerVars
<1>2. ASSUME NEW c \in Orders, VenueStep(c) \/ CancelStep(c) \/ SyncFillState(c)
      PROVE  ost[x] = "none"
  BY <1>2 DEF VenueStep, VenueAccepts, VenueFills, VenueEnds, CancelStep,
              CancelBegins, CancelAnswered, CancelTarget, CancelFails,
              CancelRefreshes, SyncFillState, managerVars
<1>3. ASSUME NEW c \in Orders, StreamStep(c) PROVE ost[x] = "none"
  BY <1>3, StreamMoves DEF OnceInv
<1>4. CASE ReconcileStep
  BY <1>4 DEF ReconcileStep, ReconcileBegins, ReconcileFetches, ReconcileFails,
              ReconcileResolves, ReconcileTarget, VenueStatuses, managerVars
<1>5. CASE AcknowledgeRecovery \/ SideRecordFails \/ UNCHANGED vars
  BY <1>5 DEF AcknowledgeRecovery, SideRecordFails, vars, managerVars
<1> QED
  BY <1>1, <1>2, <1>3, <1>4, <1>5 DEF Next

\* Which step begins the refresh of a cancel, and which sends an order.
LEMMA CancelCalls ==
    ASSUME TypeOK, [Next]_vars, NEW x \in Orders,
           canc'[x] = "refresh", canc[x] # "refresh"
    PROVE  CancelAnswered(x)
<1> USE DEF TypeOK, CallTypeOK
<1>1. ASSUME NEW c \in Orders, SubmitStep(c) PROVE canc' = canc
  BY <1>1 DEF SubmitStep, SubmitSends, SubmitAborts, SubmitReturns, SubmitRejected,
              SubmitNetworkError, SubmitRetries, SubmitTimesOut, SubmitFaults,
              ParkAsUnknown, Settled, callVars
<1>2. ASSUME NEW c \in Orders, VenueStep(c) \/ StreamStep(c) \/ SyncFillState(c)
      PROVE  canc' = canc
  BY <1>2 DEF VenueStep, VenueAccepts, VenueFills, VenueEnds, StreamStep, StreamOrder,
              StreamFill, SyncFillState, callVars
<1>3. ASSUME NEW c \in Orders, CancelStep(c) PROVE CancelAnswered(x)
  BY <1>3 DEF CancelStep, CancelBegins, CancelAnswered, CancelFails, CancelRefreshes
<1>4. CASE ReconcileStep
  BY <1>4 DEF ReconcileStep, ReconcileBegins, ReconcileFetches, ReconcileFails,
              ReconcileResolves
<1>5. CASE CrashStep
  BY <1>5 DEF CrashStep, CrashAndRestart, CrashInsideSubmit, Restarted
<1>6. CASE AcknowledgeRecovery \/ SideRecordFails \/ UNCHANGED vars
  BY <1>6 DEF AcknowledgeRecovery, SideRecordFails, vars, callVars
<1> QED
  BY <1>1, <1>2, <1>3, <1>4, <1>5, <1>6 DEF Next

LEMMA CreateCalls ==
    ASSUME TypeOK, [Next]_vars, NEW x \in Orders,
           phase[x] = "idle", phase'[x] = "create"
    PROVE  \E d \in Decisions : SubmitSends(d, x)
<1> USE DEF TypeOK, CallTypeOK
<1>1. ASSUME NEW c \in Orders, NEW d \in Decisions, SubmitSends(d, c)
      PROVE  c = x
  BY <1>1 DEF SubmitSends
<1>2. ASSUME NEW c \in Orders, NEW d \in Decisions, SubmitAborts(d, c)
      PROVE  phase' = phase
  BY <1>2 DEF SubmitAborts, callVars
<1>3. ASSUME NEW c \in Orders, CallEnds(c) PROVE FALSE
  BY <1>3 DEF CallEnds, SubmitReturns, SubmitRejected, SubmitNetworkError,
              SubmitRetries, SubmitTimesOut, SubmitFaults, ParkAsUnknown, Settled
<1>4. ASSUME NEW c \in Orders,
             VenueStep(c) \/ StreamStep(c) \/ CancelStep(c) \/ SyncFillState(c)
      PROVE  phase' = phase
  BY <1>4 DEF VenueStep, VenueAccepts, VenueFills, VenueEnds, StreamStep, StreamOrder,
              StreamFill, CancelStep, CancelBegins, CancelAnswered, CancelFails,
              CancelRefreshes, SyncFillState, callVars
<1>5. CASE ReconcileStep
  BY <1>5 DEF ReconcileStep, ReconcileBegins, ReconcileFetches, ReconcileFails,
              ReconcileResolves
<1>6. CASE CrashStep
  BY <1>6 DEF CrashStep, CrashAndRestart, CrashInsideSubmit, Restarted
<1>7. CASE AcknowledgeRecovery \/ SideRecordFails \/ UNCHANGED vars
  BY <1>7 DEF AcknowledgeRecovery, SideRecordFails, vars, callVars
<1> QED
  BY <1>1, <1>2, <1>3, <1>4, <1>5, <1>6, <1>7 DEF Next, SubmitStep, CallEnds

LEMMA RecordsKeptStep ==
    ASSUME TypeOK, OnceInv, MemoryInv, [Next]_vars
    PROVE  RecordsKept'
<1> SUFFICES ASSUME NEW x \in walIntent'
             PROVE  /\ wal'[x] # "none"
                    /\ ost'[x] = "none" => wal'[x] \notin UnresolvedLastKinds
  BY DEF RecordsKept
<1>1. x \in Orders
  <2>1. walIntent' \subseteq Orders
    BY TypeOKStep DEF TypeOK, JournalTypeOK
  <2> QED BY <2>1
<1>2. CASE x \notin walIntent
  BY <1>1, <1>2, IntentStep
<1>3. CASE x \in walIntent /\ CrashStep
  <2>1. wal'[x] # "none"
    BY <1>1, <1>3, JournalStep
    DEF JournalMoves, UnresolvedLastKinds, AckedKinds, MemoryInv, RecordsKept
  <2>2. CASE CrashAndRestart
    <3>1. /\ ost' = [c \in Orders |-> Rehydrated(c, wal, walIntent)]
          /\ wal' = wal /\ walIntent' = walIntent
      BY <2>2 DEF CrashAndRestart, Restarted
    <3>2. ost'[x] = Rehydrated(x, wal, walIntent)
      BY <1>1, <3>1
    <3> QED
      BY <2>1, <3>1, <3>2 DEF Rehydrated
  <2>3. ASSUME NEW c \in Orders, NEW d \in Decisions, CrashInsideSubmit(d, c),
               ost'[x] = "none"
        PROVE  wal'[x] \notin UnresolvedLastKinds
    <3> DEFINE w == [wal EXCEPT ![c] = "order_intent"]
               wi == walIntent \cup {c}
    <3>1. /\ ost' = [y \in Orders |-> Rehydrated(y, w, wi)]
          /\ wal' = w /\ walIntent' = wi
      BY <2>3 DEF CrashInsideSubmit, Restarted
    <3>2. ost'[x] = Rehydrated(x, w, wi) /\ x \in wi
      BY <1>1, <3>1
    <3> HIDE DEF w, wi
    <3> QED
      BY <2>3, <3>1, <3>2 DEF Rehydrated
  <2> QED
    BY <1>3, <2>1, <2>2, <2>3 DEF CrashStep
<1>4. CASE x \in walIntent /\ ~CrashStep
  BY <1>1, <1>4, JournalStep, DropStep
  DEF JournalMoves, UnresolvedLastKinds, AckedKinds, MemoryInv, RecordsKept
<1> QED
  BY <1>2, <1>3, <1>4

LEMMA CancelIsTrueStep ==
    ASSUME CancelAssumption, TypeOK, OnceInv, MemoryInv, [Next]_vars
    PROVE  CancelIsTrue'
<1> USE DEF CancelIsTrue, TypeOK, CallTypeOK, VenueTypeOK
<1> SUFFICES ASSUME NEW x \in Orders,
                    wal'[x] = "order_cancel" \/ canc'[x] = "refresh"
             PROVE  venue'[x] \in {"canceled", "closed"}
  OBVIOUS
<1>1. CASE wal[x] = "order_cancel" \/ canc[x] = "refresh"
  BY <1>1, VenueMovesOn DEF MemoryInv, MovesOn, EndedStatuses
<1>2. CASE wal'[x] = "order_cancel" /\ wal[x] # "order_cancel"
  <2>1. CancelRefreshes(x)
    BY <1>2, JournalStep DEF JournalMoves, UnresolvedLastKinds, AckedKinds
  <2> QED
    BY <1>1, <2>1 DEF CancelRefreshes
<1>3. CASE canc'[x] = "refresh" /\ canc[x] # "refresh"
  <2>1. CancelAnswered(x)
    BY <1>3, CancelCalls
  <2> QED
    BY <2>1 DEF CancelAnswered, CancelAssumption, venueVars
<1> QED
  BY <1>1, <1>2, <1>3

LEMMA MemoryInvInit == Init => MemoryInv
BY DEF Init, MemoryInv, RecordsKept, CancelIsTrue

LEMMA MemoryInvAlways ==
    ASSUME CancelAssumption
    PROVE  Spec => [](TypeOK /\ OnceInv /\ FillInv /\ TerminalInv /\ MemoryInv)
<1>1. TypeOK /\ OnceInv /\ MemoryInv /\ [Next]_vars => MemoryInv'
  BY RecordsKeptStep, CancelIsTrueStep DEF MemoryInv
<1>2. NetworkAssumption
  BY DEF CancelAssumption
<1> QED
  BY MemoryInvInit, <1>1, <1>2, TerminalInvAlways, PTL DEF Spec

LEMMA OpenIsRemembered ==
    ASSUME TypeOK, OnceInv, TerminalInv, MemoryInv
    PROVE  NoOrderForgotten
<1> SUFFICES ASSUME NEW c \in walIntent, venue[c] = "open"
             PROVE  KnownOpen(c) \/ ost[c] \in UnresolvedStates
  BY DEF NoOrderForgotten
<1>1. c \in Orders
  BY DEF TypeOK, JournalTypeOK
<1>2. ost[c] \notin {"filled", "cancelled", "rejected"}
  BY <1>1 DEF TerminalInv, EndsAreTrue, EndedAs
<1>3. CASE ost[c] = "none"
  <2>1. /\ wal[c] \in LifecycleKinds
        /\ wal[c] \notin UnresolvedLastKinds \cup {"order_rejected", "order_cancel"}
    BY <1>1, <1>3 DEF TypeOK, JournalTypeOK, MemoryInv, RecordsKept, CancelIsTrue,
                      TerminalInv, RefusalIsTrue
  <2> QED
    BY <1>3, <2>1 DEF KnownOpen, AckedKinds, LifecycleKinds, UnresolvedLastKinds
<1>4. CASE ost[c] # "none"
  BY <1>1, <1>2, <1>4 DEF TypeOK, ManagerTypeOK, VenueFacingStates, KnownOpen,
                          WorkingStates, UnresolvedStates
<1> QED BY <1>3, <1>4

\* No journaled order that is open at the venue is lost from sight
\* (NoOrderForgotten): it is held as working or unresolved, or a process before this
\* one learned, and recorded, that it was open.
THEOREM OpenOrdersRemembered ==
    ASSUME CancelAssumption
    PROVE  Spec => []NoOrderForgotten
BY MemoryInvAlways, OpenIsRemembered, PTL

\* No new risk in doubt (NoNewRiskWhileInDoubt): an entry is sent only when every
\* journaled order that is open at the venue is known to be open.
THEOREM EntriesWaitForDoubt ==
    ASSUME CancelAssumption
    PROVE  Spec => NoNewRiskWhileInDoubt
<1> DEFINE Sends == \A c \in Orders :
             phase[c] = "idle" /\ phase'[c] = "create" /\ owner'[c] \notin ReduceOnly
             => \A o \in walIntent : venue[o] = "open" => KnownOpen(o)
<1>1. ASSUME TypeOK, OnceInv, TerminalInv, MemoryInv, [Next]_vars PROVE [Sends]_vars
  <2> SUFFICES ASSUME NEW c \in Orders, phase[c] = "idle", phase'[c] = "create",
                      owner'[c] \notin ReduceOnly, NEW o \in walIntent,
                      venue[o] = "open"
               PROVE  KnownOpen(o)
    OBVIOUS
  <2>1. PICK d \in Decisions : SubmitSends(d, c)
    BY <1>1, CreateCalls
  <2>2. ~HasUnresolvedOrders
    <3>1. owner' = [owner EXCEPT ![c] = d]
      BY <2>1 DEF SubmitSends, RegisterAndJournal
    <3>2. d \notin ReduceOnly
      BY <1>1, <3>1 DEF TypeOK
    <3> QED
      BY <2>1, <3>2 DEF SubmitSends, Admitted, EntryAllowed
  <2>3. KnownOpen(o) \/ ost[o] \in UnresolvedStates
    BY <1>1, OpenIsRemembered DEF NoOrderForgotten
  <2> QED
    BY <1>1, <2>2, <2>3 DEF HasUnresolvedOrders, TypeOK, JournalTypeOK
<1>2. Spec => [][Sends]_vars
  BY MemoryInvAlways, <1>1, PTL DEF Spec
<1> QED
  BY <1>2 DEF NoNewRiskWhileInDoubt
===============================================================================
