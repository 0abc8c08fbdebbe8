------------------------------ MODULE OrderSpine ------------------------------
(***************************************************************************)
(* The guarded order spine: OrderManager, its IntentRegistry and its       *)
(* DecisionJournal, the CCXT execution adapter, the live reconciler and    *)
(* the private order/fill stream, against a venue and a lossy network.     *)
(*                                                                         *)
(* Everything runs on one asyncio loop, so a step of the model is a        *)
(* stretch of code between two awaits.  What interleaves is: the pending   *)
(* adapter call of a submit, the pending adapter calls of a cancel, the    *)
(* pending status fetch of the reconciler, the private stream's callbacks, *)
(* the venue, and process crashes followed by a replay of the journal.     *)
(***************************************************************************)
EXTENDS Integers, FiniteSets, OrderStates

CONSTANTS
    Decisions,      \* decision ids (DecisionEnvelope.decision_id, flatten keys)
    ReduceOnly,     \* the decisions whose intent is reduce_only
    Orders,         \* random client order ids, each minted at most once
    Qty,            \* intent.quantity, in units of the smallest trade
    MaxAttempts,    \* CcxtExecutionAdapter.max_submit_attempts
    MaxInFlight,    \* callers awaiting the manager at once (LiveTraderSession: 1)
    MaxTradeSum,    \* bound: private trades applied to one order in one process
    AppendOutcomes, \* what may become of a DecisionJournal.append
    LateLanding,    \* can a create request land after the adapter gave up on it?
    DuplicatesFirst, \* does the venue notice a repeated id before other faults?
    UnsureCancels,  \* can the venue deny a cancel without reporting the order done?
    Crashes,        \* does the process crash?
    NoDecision, NoOrder

ASSUME SpineAssumption ==
    /\ ReduceOnly \subseteq Decisions
    /\ NoDecision \notin Decisions /\ NoOrder \notin Orders
    /\ Qty \in Nat \ {0} /\ MaxAttempts \in Nat \ {0} /\ MaxInFlight \in Nat
    /\ MaxTradeSum \in Nat
    /\ AppendOutcomes \subseteq {"ok", "lost", "unsure"} /\ "ok" \in AppendOutcomes
    /\ LateLanding \in BOOLEAN /\ DuplicatesFirst \in BOOLEAN
    /\ UnsureCancels \in BOOLEAN
    /\ Crashes \in BOOLEAN

VARIABLES
    \* --- process memory: OrderManager.orders, IntentRegistry, stream applier
    ost,        \* ManagedOrder.state, "none" when orders does not hold the id
    filled,     \* ManagedOrder.filled_quantity
    tradeSum,   \* ManagedOrder.venue_trade_filled
    seen,       \* PrivateStreamEventApplier._seen_trade_ids
    registry,   \* IntentRegistry._seen
    available,  \* DecisionJournal.available
    degraded,   \* DecisionJournal.recovery_degraded
    \* --- process memory: coroutines suspended in an await
    phase,      \* the adapter's submit_order call for an order
    attempt,    \* its attempt number, 0 when there is no call
    canc,       \* the manager's cancel_order call for an order
    recon,      \* the reconciler's fetch_order_status call
    \* --- the journal file, reduced to what its replay reads
    wal,        \* kind of the last lifecycle record of an order
    walIntent,  \* orders that have an order_intent record
    walKey,     \* order id of the last order_intent record of a decision
    \* --- the network and the venue
    wire,       \* a create request for the order may still reach the venue
    venue,      \* the venue's status of the order
    vfilled,    \* the quantity the venue has executed, in trades of one unit
    \* --- fixed when the id is minted
    owner       \* the decision an order id was minted for

managerVars == <<ost, filled, tradeSum, seen, registry>>
journalVars == <<wal, walIntent, walKey, available, degraded>>
callVars    == <<phase, attempt, canc, recon>>
venueVars   == <<wire, venue, vfilled>>
vars == <<managerVars, journalVars, callVars, venueVars, owner>>

-------------------------------------------------------------------------------
(* Journal record kinds and the replay rule. *)

LifecycleKinds ==
    {"order_intent", "order_submitted", "order_acknowledged",
     "order_ack_race_resolved", "order_timeout_unknown", "order_rejected",
     "order_cancel", "order_fill_sync", "reconciling", "order_resolved"}

\* A replay that forgets the crash window between submit and acknowledgement.
UnresolvedLastKinds_NoSubmitted == {"order_timeout_unknown", "reconciling"}

\* OrderManager._UNRESOLVED_LAST_KINDS.
UnresolvedLastKinds ==
    {"order_intent", "order_submitted", "order_timeout_unknown", "reconciling"}

VenueStatuses == {"absent", "open", "closed", "canceled", "rejected"}

NoFetch == [order |-> NoOrder, answer |-> "idle", filled |-> 0]

Larger(a, b) == IF a >= b THEN a ELSE b

ManagerTypeOK ==
    /\ ost \in [Orders -> VenueFacingStates \cup {"none"}]
    /\ filled \in [Orders -> Nat]
    /\ tradeSum \in [Orders -> Nat]
    /\ seen \subseteq Orders \X (1 .. Qty)
    /\ registry \in [Decisions -> Orders \cup {NoOrder}]

JournalTypeOK ==
    /\ wal \in [Orders -> LifecycleKinds \cup {"none"}]
    /\ walIntent \subseteq Orders
    /\ walKey \in [Decisions -> Orders \cup {NoOrder}]
    /\ available \in BOOLEAN
    /\ degraded \in BOOLEAN

CallTypeOK ==
    /\ phase \in [Orders -> {"idle", "create", "verify"}]
    /\ attempt \in [Orders -> 0 .. MaxAttempts]
    /\ canc \in [Orders -> {"idle", "sent", "refresh"}]
    /\ recon \in [order : Orders \cup {NoOrder},
                  answer : {"idle", "waiting"} \cup VenueStatuses,
                  filled : 0 .. Qty]
    /\ recon.order = NoOrder <=> recon.answer = "idle"

VenueTypeOK ==
    /\ wire \in [Orders -> BOOLEAN]
    /\ venue \in [Orders -> VenueStatuses]
    /\ vfilled \in [Orders -> 0 .. Qty]
    /\ \A c \in Orders : venue[c] \in {"absent", "open"} => vfilled[c] < Qty

TypeOK ==
    /\ ManagerTypeOK /\ JournalTypeOK /\ CallTypeOK /\ VenueTypeOK
    /\ owner \in [Orders -> Decisions \cup {NoDecision}]

\* A process started on an empty journal, and a venue that knows none of our ids.
Init ==
    /\ ost = [c \in Orders |-> "none"]
    /\ filled = [c \in Orders |-> 0]
    /\ tradeSum = [c \in Orders |-> 0]
    /\ seen = {}
    /\ registry = [d \in Decisions |-> NoOrder]
    /\ available = TRUE /\ degraded = FALSE
    /\ phase = [c \in Orders |-> "idle"]
    /\ attempt = [c \in Orders |-> 0]
    /\ canc = [c \in Orders |-> "idle"]
    /\ recon = NoFetch
    /\ wal = [c \in Orders |-> "none"]
    /\ walIntent = {}
    /\ walKey = [d \in Decisions |-> NoOrder]
    /\ wire = [c \in Orders |-> FALSE]
    /\ venue = [c \in Orders |-> "absent"]
    /\ vfilled = [c \in Orders |-> 0]
    /\ owner = [c \in Orders |-> NoDecision]

\* DecisionJournal.append returns TRUE only when the record was written and
\* fsynced.  When it returns FALSE the record is lost, or it reached the file
\* and only the fsync failed; either way the journal is latched unavailable.
Durable(outcome) == outcome # "lost"

\* Append one lifecycle record about order c.
Log(c, kind, outcome) ==
    /\ wal' = IF Durable(outcome) THEN [wal EXCEPT ![c] = kind] ELSE wal
    /\ available' = (available /\ outcome = "ok")
    /\ UNCHANGED <<walIntent, walKey, degraded>>

\* Appends whose record no replay reads (risk_decision, order_refused,
\* duplicate_intent_dropped, private_*) matter only when they fail.
SideRecordFails ==
    /\ AppendOutcomes # {"ok"}
    /\ available' = FALSE
    /\ UNCHANGED <<managerVars, wal, walIntent, walKey, degraded, callVars,
                   venueVars, owner>>

-------------------------------------------------------------------------------
(* OrderManager.submit up to the adapter call: one atomic stretch. *)

InFlight == Cardinality({c \in Orders : phase[c] # "idle"})
            + Cardinality({c \in Orders : canc[c] # "idle"})
            + (IF recon = NoFetch THEN 0 ELSE 1)

\* A caller is free to start an operation of the manager.
CallerFree == InFlight < MaxInFlight

HasUnresolvedOrders ==
    degraded \/ \E c \in Orders : ost[c] \in UnresolvedStates

\* The state of the attempt the registry holds for a decision, if any.
PriorState(d) == IF registry[d] = NoOrder THEN "none" ELSE ost[registry[d]]

\* The previous attempt was definitively rejected and may be protectively
\* resubmitted (the resubmission has the decision's own intent).
ProtectiveResubmission(d) ==
    /\ d \in ReduceOnly
    /\ PriorState(d) = "rejected"

\* The caller names the previous attempt in replaces=: a cancelled or rejected
\* maker order is replaced by its taker route.
RouteReplacement(d) == PriorState(d) \in {"cancelled", "rejected"}

\* A duplicate guard that also lets an unresolved attempt be replaced.
NotDuplicate_ReplacesUnknown(d) ==
    \/ registry[d] = NoOrder
    \/ PriorState(d) \in {"cancelled", "rejected", "timeout_unknown"}

NotDuplicate(d) ==
    \/ registry[d] = NoOrder
    \/ ProtectiveResubmission(d)
    \/ RouteReplacement(d)

\* An exits-only guard that does not look at unresolved orders.
EntryAllowed_IgnoresUnresolved == available /\ ~degraded

EntryAllowed == available /\ ~degraded /\ ~HasUnresolvedOrders

\* The intent passes the duplicate guard, the exits-only guards and (its
\* verdict is an input here) the pre-trade gateway, and c is freshly minted.
Admitted(d, c) ==
    /\ CallerFree
    /\ owner[c] = NoDecision
    /\ NotDuplicate(d)
    /\ d \in ReduceOnly \/ EntryAllowed

\* Mint c, register it, and append order_intent.
RegisterAndJournal(d, c, intentRecord) ==
    /\ owner' = [owner EXCEPT ![c] = d]
    /\ registry' = [registry EXCEPT ![d] = c]
    /\ walIntent' = IF Durable(intentRecord) THEN walIntent \cup {c} ELSE walIntent
    /\ walKey' = IF Durable(intentRecord) THEN [walKey EXCEPT ![d] = c] ELSE walKey

\* The last lifecycle record of c after order_intent and order_submitted.
LastSubmitRecord(intentRecord, submittedRecord) ==
    IF Durable(submittedRecord) THEN "order_submitted"
    ELSE IF Durable(intentRecord) THEN "order_intent"
    ELSE "none"

\* A submit that carries on when the journal cannot be written.
MayProceed_Unjournaled(d, intentRecord, submittedRecord) == TRUE

\* The records submit insists on before the venue may learn of the order.
MayProceed(d, intentRecord, submittedRecord) ==
    d \in ReduceOnly \/ (intentRecord = "ok" /\ submittedRecord = "ok")

\* Both records written (or the intent reduces risk): the adapter is called.
SubmitSends(d, c) ==
    /\ Admitted(d, c)
    /\ \E risk, intentRecord, submittedRecord \in AppendOutcomes :
        /\ MayProceed(d, intentRecord, submittedRecord)
        /\ RegisterAndJournal(d, c, intentRecord)
        /\ wal' = [wal EXCEPT ![c] = LastSubmitRecord(intentRecord, submittedRecord)]
        /\ available' = (available /\ {risk, intentRecord, submittedRecord} = {"ok"})
    /\ ost' = [ost EXCEPT ![c] = "submitting"]
    /\ phase' = [phase EXCEPT ![c] = "create"]
    /\ attempt' = [attempt EXCEPT ![c] = 1]
    /\ wire' = [wire EXCEPT ![c] = TRUE]
    /\ UNCHANGED <<filled, tradeSum, seen, degraded, canc, recon, venue, vfilled>>

\* One of the two records could not be written for a risk-increasing intent;
\* after a failed order_intent the other one is not attempted.
SubmitAborts(d, c) ==
    /\ Admitted(d, c)
    /\ d \notin ReduceOnly
    /\ \E intentRecord \in AppendOutcomes :
        \E submittedRecord \in IF intentRecord = "ok" THEN AppendOutcomes \ {"ok"}
                               ELSE {"lost"} :
            /\ RegisterAndJournal(d, c, intentRecord)
            /\ wal' = [wal EXCEPT ![c] =
                          LastSubmitRecord(intentRecord, submittedRecord)]
    /\ available' = FALSE
    /\ ost' = [ost EXCEPT ![c] = "rejected"]
    /\ UNCHANGED <<filled, tradeSum, seen, degraded, callVars, venueVars>>

-------------------------------------------------------------------------------
(* CcxtExecutionAdapter.submit_order and the code after its await. *)

Settled(c) ==
    /\ phase' = [phase EXCEPT ![c] = "idle"]
    /\ attempt' = [attempt EXCEPT ![c] = 0]
    /\ UNCHANGED <<canc, recon>>

\* Unless requests may land late, none outlives the exchange it belongs to.
WireAfterGivingUp(c) == [wire EXCEPT ![c] = wire[c] /\ LateLanding]

\* create_order answered, or DuplicateOrderId / a timeout was settled by
\* finding the order under its client id: the call returns the venue's id.
SubmitReturns(c) ==
    /\ phase[c] \in {"create", "verify"}
    /\ venue[c] # "absent"
    /\ Settled(c)
    /\ \E race, ack \in AppendOutcomes :
        LET raced == ost[c] # "submitting"
        IN  /\ wal' = [wal EXCEPT ![c] =
                          IF Durable(ack) THEN "order_acknowledged"
                          ELSE IF raced /\ Durable(race) THEN "order_ack_race_resolved"
                          ELSE @]
            /\ available' = (available /\ ack = "ok" /\ (raced => race = "ok"))
    /\ ost' = [ost EXCEPT ![c] = IF @ = "submitting" THEN "acknowledged" ELSE @]
    /\ UNCHANGED <<filled, tradeSum, seen, registry, walIntent, walKey, degraded,
                   venueVars, owner>>

\* InsufficientFunds, InvalidOrder or another ExchangeError: AdapterRejection.
\* The refused request is gone; an earlier one may still be under way, or, if
\* the venue finds another fault before the repeated id, have landed.
SubmitRejected(c) ==
    /\ phase[c] = "create"
    /\ venue[c] = "absent" \/ (~DuplicatesFirst /\ attempt[c] > 1)
    /\ Settled(c)
    /\ \E w \in {FALSE, wire[c] /\ LateLanding /\ attempt[c] > 1} :
          wire' = [wire EXCEPT ![c] = w]
    /\ IF Legal(ost[c], "rejected")
       THEN /\ ost' = [ost EXCEPT ![c] = "rejected"]
            /\ \E o \in AppendOutcomes : Log(c, "order_rejected", o)
       ELSE UNCHANGED <<ost, journalVars>>
    /\ UNCHANGED <<filled, tradeSum, seen, registry, venue, vfilled, owner>>

\* NetworkError: the adapter pauses, then asks the venue for the client id.
SubmitNetworkError(c) ==
    /\ phase[c] = "create"
    /\ phase' = [phase EXCEPT ![c] = "verify"]
    /\ wire' = WireAfterGivingUp(c)
    /\ UNCHANGED <<managerVars, journalVars, attempt, canc, recon, venue, vfilled,
                   owner>>

\* A retry loop that runs once too often.
AttemptsLeft_OneMore(c) == attempt[c] <= MaxAttempts

AttemptsLeft(c) == attempt[c] < MaxAttempts

\* Not found, or the verification itself failed: resubmit with the SAME id.
SubmitRetries(c) ==
    /\ phase[c] = "verify"
    /\ AttemptsLeft(c)
    /\ phase' = [phase EXCEPT ![c] = "create"]
    /\ attempt' = [attempt EXCEPT ![c] = @ + 1]
    /\ wire' = [wire EXCEPT ![c] = (venue[c] = "absent")]
    /\ UNCHANGED <<managerVars, journalVars, canc, recon, venue, vfilled, owner>>

\* What submit does with an order whose fate the adapter could not tell.  If
\* the private stream has moved the order in the meantime the transition is
\* illegal and IllegalTransition leaves submit: nothing is written.
ParkAsUnknown(c, journaled) ==
    /\ Settled(c)
    /\ wire' = WireAfterGivingUp(c)
    /\ IF Legal(ost[c], "timeout_unknown")
       THEN /\ ost' = [ost EXCEPT ![c] = "timeout_unknown"]
            /\ \E o \in AppendOutcomes :
                 Log(c, IF journaled THEN "order_timeout_unknown" ELSE wal[c], o)
       ELSE UNCHANGED <<ost, journalVars>>
    /\ UNCHANGED <<filled, tradeSum, seen, registry, venue, vfilled, owner>>

\* AdapterTimeout after the last attempt, or because the venue refuses a
\* repeated id whose order it does not show yet.
SubmitTimesOut(c) ==
    /\ \/ phase[c] = "verify" /\ ~AttemptsLeft(c)
       \/ phase[c] = "create" /\ attempt[c] > 1 /\ venue[c] # "absent"
    /\ ParkAsUnknown(c, TRUE)

\* Any other exception of the adapter; its record is not a lifecycle record.
SubmitFaults(c) ==
    /\ phase[c] = "create"
    /\ ParkAsUnknown(c, FALSE)

-------------------------------------------------------------------------------
(* The venue. *)

VenueAccepts(c) ==
    /\ wire[c] /\ venue[c] = "absent"
    /\ venue' = [venue EXCEPT ![c] = "open"]
    /\ wire' = [wire EXCEPT ![c] = FALSE]
    /\ UNCHANGED <<managerVars, journalVars, callVars, vfilled, owner>>

VenueFills(c) ==
    /\ venue[c] = "open"
    /\ vfilled' = [vfilled EXCEPT ![c] = @ + 1]
    /\ venue' = [venue EXCEPT ![c] = IF vfilled[c] + 1 = Qty THEN "closed" ELSE "open"]
    /\ UNCHANGED <<managerVars, journalVars, callVars, wire, owner>>

\* A cancel takes effect, an order expires, or the venue throws it out.
VenueEnds(c) ==
    /\ venue[c] = "open"
    /\ \E s \in {"canceled", "rejected"} :
        /\ s = "rejected" => vfilled[c] = 0
        /\ venue' = [venue EXCEPT ![c] = s]
    /\ UNCHANGED <<managerVars, journalVars, callVars, wire, vfilled, owner>>

-------------------------------------------------------------------------------
(* Private stream.  The order channel and the trade channel are consumed   *)
(* concurrently and survive reconnects, so any event the venue has ever    *)
(* emitted may reach the manager at any later time, again, or never.       *)

\* The events watch_orders can carry: a snapshot the venue's order has been in.
OrderEvents(c) ==
    [status : {"open"}, filled : IF venue[c] = "absent" THEN {} ELSE
                                 0 .. (IF venue[c] = "closed" THEN Qty - 1
                                       ELSE vfilled[c])]
    \cup (IF venue[c] \in {"closed", "canceled", "rejected"}
          THEN {[status |-> venue[c], filled |-> vfilled[c]]} ELSE {})

\* apply_order: an open order with fills is PARTIALLY_FILLED.
StreamTarget(e) ==
    CASE e.status = "open"     -> IF e.filled > 0 THEN "partially_filled"
                                  ELSE "acknowledged"
      [] e.status = "closed"   -> "filled"
      [] e.status = "canceled" -> "cancelled"
      [] e.status = "rejected" -> "rejected"

\* apply_venue_order_update; an order the manager does not hold is unmatched.
StreamOrder(c) ==
    /\ ost[c] # "none"
    /\ \E e \in OrderEvents(c) :
        /\ filled' = [filled EXCEPT ![c] = Larger(@, e.filled)]
        /\ ost' = [ost EXCEPT ![c] = StreamResult(@, StreamTarget(e))]
    /\ UNCHANGED <<tradeSum, seen, registry, journalVars, callVars, venueVars, owner>>

\* Trade deduplication that remembers a trade whether or not it was applied.
SeenAfter_NeverRemembers(c, i, applied) == seen

\* A trade id is remembered only when its update was applied.
SeenAfter(c, i, applied) == IF applied THEN seen \cup {<<c, i>>} ELSE seen

\* apply_fill / apply_venue_fill_update: the i-th trade of order c, one unit.
\* The sum of trades and the cumulative totals report the same fills: the
\* order's fill is the larger of the two.
StreamFill(c, i) ==
    /\ ost[c] # "none"
    /\ i <= vfilled[c] /\ <<c, i>> \notin seen
    /\ tradeSum[c] < MaxTradeSum
    /\ LET total  == Larger(filled[c], tradeSum[c] + 1)
           target == IF total >= Qty THEN "filled" ELSE "partially_filled"
       IN  /\ tradeSum' = [tradeSum EXCEPT ![c] = @ + 1]
           /\ filled' = [filled EXCEPT ![c] = total]
           /\ ost' = [ost EXCEPT ![c] = StreamResult(@, target)]
           /\ seen' = SeenAfter(c, i, StreamApplies(ost[c], target))
    /\ UNCHANGED <<registry, journalVars, callVars, venueVars, owner>>

-------------------------------------------------------------------------------
(* OrderManager.cancel_order. *)

CancelBegins(c) ==
    /\ CallerFree
    /\ canc[c] = "idle"
    /\ Legal(ost[c], "cancel_requested")
    /\ ost' = [ost EXCEPT ![c] = "cancel_requested"]
    /\ canc' = [canc EXCEPT ![c] = "sent"]
    /\ UNCHANGED <<filled, tradeSum, seen, registry, journalVars, phase, attempt,
                   recon, venueVars, owner>>

\* A manager that takes every answer to a cancel for a cancellation.
CancelTarget_Assumes(c) == "cancelled"

\* The state cancel_order derives from the adapter's answer.  The answers that
\* do not end the order come from OrderNotFound followed by a status lookup.
CancelTarget(c) ==
    CASE venue[c] \in {"canceled", "absent"} -> "cancelled"
      [] venue[c] = "closed" -> "filled"
      [] venue[c] = "open" /\ vfilled[c] > 0 -> "partially_filled"
      [] OTHER -> "timeout_unknown"

\* The answer arrives.  If the private stream has moved the order out of
\* CANCEL_REQUESTED in the meantime, IllegalTransition leaves cancel_order.
CancelAnswered(c) ==
    /\ canc[c] = "sent"
    /\ UnsureCancels \/ venue[c] \in {"canceled", "closed"}
    /\ IF Legal(ost[c], CancelTarget(c))
       THEN /\ ost' = [ost EXCEPT ![c] = CancelTarget(c)]
            /\ canc' = [canc EXCEPT ![c] = "refresh"]
       ELSE /\ canc' = [canc EXCEPT ![c] = "idle"]
            /\ UNCHANGED ost
    /\ UNCHANGED <<filled, tradeSum, seen, registry, journalVars, phase, attempt,
                   recon, venueVars, owner>>

\* The adapter's cancel call raises; nothing catches it.
CancelFails(c) ==
    /\ canc[c] = "sent"
    /\ canc' = [canc EXCEPT ![c] = "idle"]
    /\ UNCHANGED <<managerVars, journalVars, phase, attempt, recon, venueVars, owner>>

\* _refresh_fill_state (best effort), then the order_cancel record.
CancelRefreshes(c) ==
    /\ canc[c] = "refresh"
    /\ canc' = [canc EXCEPT ![c] = "idle"]
    /\ \E v \in 0 .. vfilled[c] : filled' = [filled EXCEPT ![c] = Larger(@, v)]
    /\ \E o \in AppendOutcomes : Log(c, "order_cancel", o)
    /\ UNCHANGED <<ost, tradeSum, seen, registry, phase, attempt, recon, venueVars,
                   owner>>

-------------------------------------------------------------------------------
(* LiveReconciler.resolve_unknown_orders, one order of its loop at a time,  *)
(* and the paper lane's status poll.                                        *)

\* A loop that takes an order it has once begun to reconcile for settled.
NeedsReconciliation_OnlyTimeouts(c) == ost[c] = "timeout_unknown"

NeedsReconciliation(c) == ost[c] \in UnresolvedStates

\* begin_reconciliation, unless the order is RECONCILING already.
ReconcileBegins(c) ==
    /\ CallerFree /\ recon = NoFetch
    /\ NeedsReconciliation(c)
    /\ ost' = [ost EXCEPT ![c] = "reconciling"]
    /\ recon' = [order |-> c, answer |-> "waiting", filled |-> 0]
    /\ IF ost[c] = "timeout_unknown"
       THEN \E o \in AppendOutcomes : Log(c, "reconciling", o)
       ELSE UNCHANGED journalVars
    /\ UNCHANGED <<filled, tradeSum, seen, registry, phase, attempt, canc, venueVars,
                   owner>>

\* The venue answers fetch_order_status.
ReconcileFetches ==
    /\ recon.answer = "waiting"
    /\ recon' = [recon EXCEPT !.answer = venue[recon.order],
                              !.filled = vfilled[recon.order]]
    /\ UNCHANGED <<managerVars, journalVars, phase, attempt, canc, venueVars, owner>>

\* The fetch raises, or its status cannot be mapped: RECONCILING stays.
ReconcileFails ==
    /\ recon.answer = "waiting"
    /\ recon' = NoFetch
    /\ UNCHANGED <<managerVars, journalVars, phase, attempt, canc, venueVars, owner>>

\* What the fetched status resolves the order to; absence is a rejection.
ReconcileTarget(a, f) ==
    CASE a = "absent"   -> "rejected"
      [] a = "open"     -> IF f > 0 THEN "partially_filled" ELSE "acknowledged"
      [] a = "closed"   -> "filled"
      [] a = "canceled" -> "cancelled"
      [] a = "rejected" -> "rejected"

\* resolve_order: the fill total first, then the transition; an illegal one
\* (the private stream was faster) raises before the record is written.
ReconcileResolves ==
    LET c == recon.order
        target == ReconcileTarget(recon.answer, recon.filled)
    IN  /\ recon.answer \in VenueStatuses
        /\ recon' = NoFetch
        /\ filled' = [filled EXCEPT ![c] = Larger(@, recon.filled)]
        /\ IF Legal(ost[c], target)
           THEN /\ ost' = [ost EXCEPT ![c] = target]
                /\ \E o \in AppendOutcomes : Log(c, "order_resolved", o)
           ELSE UNCHANGED <<ost, journalVars>>
        /\ UNCHANGED <<tradeSum, seen, registry, phase, attempt, canc, venueVars,
                       owner>>

\* sync_fill_state, driven synchronously by PaperReconciler._sync_fills.
SyncFillState(c) ==
    LET target == CASE venue[c] = "closed" -> "filled"
                    [] venue[c] = "open" /\ vfilled[c] > 0
                         /\ ost[c] = "acknowledged" -> "partially_filled"
                    [] OTHER -> ost[c]
    IN  /\ ost[c] \in {"acknowledged", "partially_filled"}
        /\ vfilled[c] > filled[c] \/ target # ost[c]
        /\ filled' = [filled EXCEPT ![c] = Larger(@, vfilled[c])]
        /\ ost' = [ost EXCEPT ![c] = target]
        /\ \E o \in AppendOutcomes : Log(c, "order_fill_sync", o)
        /\ UNCHANGED <<tradeSum, seen, registry, callVars, venueVars, owner>>

-------------------------------------------------------------------------------
(* Crash, and the next process: DecisionJournal._recover_valid_prefix,      *)
(* _seed_registry_from_journal, _seed_orders_from_journal.                  *)

\* A replay that takes a reduce-only order it has no answer for as refused.
Rehydrated_SubmittedRejected(c, w, wi) ==
    CASE c \in wi /\ w[c] = "order_submitted" /\ owner[c] \in ReduceOnly -> "rejected"
      [] c \in wi /\ w[c] \in UnresolvedLastKinds -> "timeout_unknown"
      [] OTHER -> "none"

\* The state an order is rebuilt in from last kinds w and intent records wi.
Rehydrated(c, w, wi) ==
    CASE c \in wi /\ w[c] \in UnresolvedLastKinds -> "timeout_unknown"
      [] c \in wi /\ w[c] = "order_rejected" /\ owner[c] \in ReduceOnly -> "rejected"
      [] OTHER -> "none"

\* The memory of a process started on a journal with last kinds w, intent
\* records wi and decision attempts wk; torn: its final record was malformed
\* and has been quarantined.
Restarted(w, wi, wk, torn) ==
    /\ ost' = [c \in Orders |-> Rehydrated(c, w, wi)]
    /\ filled' = [c \in Orders |-> 0]
    /\ tradeSum' = [c \in Orders |-> 0]
    /\ seen' = {}
    /\ registry' = wk
    /\ available' = TRUE
    /\ degraded' = torn
    /\ phase' = [c \in Orders |-> "idle"]
    /\ attempt' = [c \in Orders |-> 0]
    /\ canc' = [c \in Orders |-> "idle"]
    /\ recon' = NoFetch
    /\ wire' = [c \in Orders |-> wire[c] /\ LateLanding]

\* The process dies between two steps, or (torn) inside an append.
CrashAndRestart ==
    /\ Crashes
    /\ \E torn \in BOOLEAN : Restarted(wal, walIntent, walKey, torn)
    /\ UNCHANGED <<wal, walIntent, walKey, venue, vfilled, owner>>

\* The process dies inside submit: order_intent is durable, order_submitted
\* is not (or is the torn record).
CrashInsideSubmit(d, c) ==
    LET w  == [wal EXCEPT ![c] = "order_intent"]
        wi == walIntent \cup {c}
        wk == [walKey EXCEPT ![d] = c]
    IN  /\ Crashes
        /\ Admitted(d, c)
        /\ owner' = [owner EXCEPT ![c] = d]
        /\ wal' = w /\ walIntent' = wi /\ walKey' = wk
        /\ \E torn \in BOOLEAN : Restarted(w, wi, wk, torn)
        /\ UNCHANGED <<venue, vfilled>>

\* acknowledge_recovery: an operator's note clears the degraded latch.
AcknowledgeRecovery ==
    /\ degraded
    /\ \E o \in AppendOutcomes :
        /\ available' = (available /\ o = "ok")
        /\ degraded' = (o # "ok")
    /\ UNCHANGED <<managerVars, wal, walIntent, walKey, callVars, venueVars, owner>>

-------------------------------------------------------------------------------
SubmitStep(c) ==
    \/ \E d \in Decisions : SubmitSends(d, c) \/ SubmitAborts(d, c)
    \/ SubmitReturns(c) \/ SubmitRejected(c) \/ SubmitNetworkError(c)
    \/ SubmitRetries(c) \/ SubmitTimesOut(c) \/ SubmitFaults(c)

VenueStep(c) == VenueAccepts(c) \/ VenueFills(c) \/ VenueEnds(c)

StreamStep(c) == StreamOrder(c) \/ \E i \in 1 .. Qty : StreamFill(c, i)

CancelStep(c) ==
    CancelBegins(c) \/ CancelAnswered(c) \/ CancelFails(c) \/ CancelRefreshes(c)

ReconcileStep ==
    \/ \E c \in Orders : ReconcileBegins(c)
    \/ ReconcileFetches \/ ReconcileFails \/ ReconcileResolves

CrashStep ==
    CrashAndRestart \/ \E d \in Decisions, c \in Orders : CrashInsideSubmit(d, c)

Next ==
    \/ \E c \in Orders :
          SubmitStep(c) \/ VenueStep(c) \/ StreamStep(c) \/ CancelStep(c)
          \/ SyncFillState(c)
    \/ ReconcileStep
    \/ CrashStep
    \/ AcknowledgeRecovery
    \/ SideRecordFails

Spec == Init /\ [][Next]_vars

(***************************************************************************)
(* Fairness.  Every await of the code ends: an adapter call returns or     *)
(* raises, and LiveTraderSession.run calls _reconcile on every bar and on  *)
(* every five-second timeout, so the loop over unresolved orders comes     *)
(* round for as long as one is left, and the venue answers a status request *)
(* that is made again and again.  Nothing is assumed of the venue's        *)
(* matching, of the stream, of new submits or cancels, or of crashes.      *)
(***************************************************************************)
CallEnds(c) ==
    \/ SubmitReturns(c) \/ SubmitRejected(c) \/ SubmitNetworkError(c)
    \/ SubmitRetries(c) \/ SubmitTimesOut(c) \/ SubmitFaults(c)

CancelEnds(c) == CancelAnswered(c) \/ CancelFails(c) \/ CancelRefreshes(c)

FetchSucceeds(c) == recon.order = c /\ ReconcileFetches

Fairness ==
    /\ \A c \in Orders : WF_vars(CallEnds(c)) /\ WF_vars(CancelEnds(c))
    /\ \A c \in Orders : SF_vars(ReconcileBegins(c)) /\ SF_vars(FetchSucceeds(c))
    /\ WF_vars(ReconcileResolves)

FairSpec == Spec /\ Fairness

-------------------------------------------------------------------------------
(* Properties. *)

IsEntry(c) == owner[c] \in Decisions \ ReduceOnly

\* The venue may know the order, or may still come to know it.
OnTheWay(c) == wire[c] \/ phase[c] # "idle" \/ venue[c] # "absent"

\* WAL rule (order_manager.py:407, DESIGN.md section 4): whatever crashes,
\* failed writes and retries happen, a risk-increasing order can be known to
\* the venue, or be on its way there, only with both of its submission records
\* durable.
JournaledBeforeVenue ==
    \A c \in Orders :
        IsEntry(c) /\ OnTheWay(c)
        => c \in walIntent /\ wal[c] \notin {"none", "order_intent"}

\* Idempotency (DESIGN.md section 4): two journaled attempts of one decision
\* are never both at work, or able to come to work, at the venue, across
\* resubmissions, replacements, crashes and replays.
MayLand(c) == venue[c] = "absent" /\ (wire[c] \/ phase[c] # "idle")

Exposed(c) == MayLand(c) \/ venue[c] = "open"

OneExposedAttempt ==
    \A c1, c2 \in walIntent :
        owner[c1] = owner[c2] /\ Exposed(c1) /\ Exposed(c2) => c1 = c2

\* A terminal state is never a guess: an order the manager holds as FILLED,
\* CANCELLED or REJECTED is finished at the venue in that very way, or (for
\* REJECTED) never got there and no longer can.
TerminalMatchesVenue ==
    \A c \in Orders :
        /\ ost[c] = "filled" => venue[c] = "closed"
        /\ ost[c] = "cancelled" => venue[c] = "canceled"
        /\ ost[c] = "rejected" => venue[c] \in {"absent", "rejected"} /\ ~MayLand(c)

\* Fill accounting of an order that is still open: the trade channel, the
\* cumulative order channel, polls and reconciliation report the same fills,
\* and together never credit more than the venue has executed.
OpenFillsAreVenueFills ==
    \A c \in Orders :
        ost[c] \notin TerminalStates \cup {"none"} => filled[c] <= vfilled[c]

\* No journaled order that is open at the venue is lost from sight: it is
\* working or unresolved in memory, or a previous process had learned, and
\* durably recorded, that it was open.
AckedKinds == {"order_acknowledged", "order_ack_race_resolved",
               "order_fill_sync", "order_resolved"}

\* Orders the manager believes to be at work at the venue.
WorkingStates ==
    {"submitting", "acknowledged", "partially_filled", "cancel_requested"}

KnownOpen(c) ==
    \/ ost[c] \in WorkingStates
    \/ ost[c] = "none" /\ wal[c] \in AckedKinds

NoOrderForgotten ==
    \A c \in walIntent :
        venue[c] = "open" => KnownOpen(c) \/ ost[c] \in UnresolvedStates

\* No new risk in doubt (order_state.py:7, order_manager.py:93): a step that
\* sends a risk-increasing order is taken only when every other journaled
\* order that is open at the venue is known to be open.
NoNewRiskWhileInDoubt ==
    [][\A c \in Orders :
          phase[c] = "idle" /\ phase'[c] = "create" /\ owner'[c] \notin ReduceOnly
          => \A o \in walIntent : venue[o] = "open" => KnownOpen(o)]_vars

\* TIMEOUT_UNKNOWN and RECONCILING end (DESIGN.md section 2): once the process
\* stops crashing, every unresolved order is eventually resolved.
EventuallyUp == <>[][~CrashStep]_vars

DoubtIsResolved ==
    EventuallyUp =>
        \A c \in Orders :
            (ost[c] \in UnresolvedStates) ~> (ost[c] \notin UnresolvedStates)

-------------------------------------------------------------------------------
(* What the code promises in words and does not keep: refuted by a run.     *)

\* apply_venue_fill_update applies a fill "idempotently" (order_manager.py:864):
\* an order is never credited with more than the venue executed.
FillsAreIdempotent == \A c \in Orders : filled[c] <= vfilled[c]

-------------------------------------------------------------------------------
(* The spine implements DecisionOnce, for the attempts its journal records. *)

AttemptStatus(c) ==
    IF c \notin walIntent THEN "unused"
    ELSE IF venue[c] = "open" THEN "live"
    ELSE IF MayLand(c) THEN "pending"
    ELSE "ended"

Once == INSTANCE DecisionOnce WITH
    Attempts <- Orders,
    owner    <- [c \in Orders |-> IF c \in walIntent THEN owner[c] ELSE NoDecision],
    status   <- [c \in Orders |-> AttemptStatus(c)]

\* Every step of the spine is a step of DecisionOnce or leaves it unchanged.
ImplementsDecisionOnce == Once!Spec
=============================================================================
