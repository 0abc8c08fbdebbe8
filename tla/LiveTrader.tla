------------------------------ MODULE LiveTrader ------------------------------
(***************************************************************************)
(* LiveTraderSession: the loop of runtime/live_trader.py that decides when *)
(* an order is sent, on one symbol, above the order manager.  The manager, *)
(* its adapter and the private stream appear as what the session sees of   *)
(* them: an order's state, moved through the whitelist of OrderStates.     *)
(* OrderSpine models them in full.                                         *)
(*                                                                         *)
(* The loop is one coroutine.  loop.at names the await it stands in; a     *)
(* step is the stretch of code from there to the next await.  Between two  *)
(* of its steps the private stream, the venue and other users of the       *)
(* account move.  An account read and the code that looks at its answer    *)
(* are one step: that code reads nothing else that changes meanwhile.      *)
(***************************************************************************)
EXTENDS Integers, FiniteSets, OrderStates

CONSTANTS
    Entries,        \* client order ids of risk-increasing orders
    Exits,          \* client order ids of reduce-only orders
    EntryQty,       \* the sized quantity of an entry
    MaxExposure,    \* RiskConfig.max_exposure_per_symbol_usd, in units
    MaxReadFailures, \* _MAX_RECON_READ_FAILURES, 3 in the code
    SharedAccount,  \* can the account hold a position on another symbol?
    NoOrder,
    PastOrder       \* stands for an order that is over and will not be read again

ASSUME LiveTraderAssumption ==
    /\ Entries \cap Exits = {}
    /\ {NoOrder, PastOrder} \cap (Entries \cup Exits) = {} /\ NoOrder # PastOrder
    /\ EntryQty \in Nat \ {0} /\ MaxExposure \in Nat
    /\ MaxReadFailures \in Nat \ {0}
    /\ SharedAccount \in BOOLEAN

Orders == Entries \cup Exits

VARIABLES
    ost,        \* ManagedOrder.state, "none" when the manager does not hold it
    track,      \* what the session tracks: plan, parked entries, pending exits
    decided,    \* the order the registry holds for this bar's tick_stop decision
    halt,       \* _reconciliation_halt
    fails,      \* _recon_read_failures
    loop,       \* where the loop awaits, and its local variables there
    venue,      \* the venue's status of an order
    left,       \* the quantity of the order the venue has not executed
    pos,        \* the venue's position on the symbol, long
    elsewhere   \* the account holds a position on another symbol

sessionVars == <<track, decided, halt, fails, loop>>
venueVars == <<venue, left, pos, elsewhere>>
vars == <<ost, sessionVars, venueVars>>

-------------------------------------------------------------------------------
(* Types. *)

\* Exits are keyed by reason; a tick can only decide tick_stop, a bar never does.
Reasons == {"tick", "bar"}

NothingPending == [r \in Reasons |-> NoOrder]

\* loop.at: the await of closed_candles.get, open_positions and account_state of
\* _submit_exit, account_state of _submit_entry, the adapter call,
\* fetch_order_status, account_state and open_positions of the position
\* reconciliation; "dead": an exception has left run().
Locations == {"wait", "exitPositions", "exitAccount", "entryAccount", "submit",
              "fetch", "settle", "diverge", "dead"}

Waiting == [at |-> "wait", turn |-> "tick", order |-> NoOrder, want |-> 0,
            todo |-> {}, answered |-> {}]

VenueStatuses == {"absent", "open", "partial", "closed", "canceled"}

\* track.plan stands for _plan and the exit engine opened and cleared with it.
Tracks == [plan : BOOLEAN, parked : SUBSET (Entries \cup {PastOrder}),
           pending : [Reasons -> Exits \cup {NoOrder, PastOrder}]]

TypeOK ==
    /\ ost \in [Orders -> VenueFacingStates \cup {"none"}]
    /\ track \in Tracks
    /\ decided \in Exits \cup {NoOrder, PastOrder}
    /\ halt \in BOOLEAN
    /\ fails \in 0 .. MaxReadFailures
    /\ loop \in [at : Locations, turn : Reasons, order : Orders \cup {NoOrder},
                 want : Nat, todo : SUBSET Orders, answered : SUBSET Orders]
    /\ venue \in [Orders -> VenueStatuses]
    /\ left \in [Orders -> Nat]
    /\ pos \in Nat
    /\ elsewhere \in BOOLEAN

\* A session started on a fresh journal and a flat account.
Init ==
    /\ ost = [c \in Orders |-> "none"]
    /\ track = [plan |-> FALSE, parked |-> {}, pending |-> NothingPending]
    /\ decided = NoOrder
    /\ halt = FALSE
    /\ fails = 0
    /\ loop = Waiting
    /\ venue = [c \in Orders |-> "absent"]
    /\ left = [c \in Orders |-> 0]
    /\ pos = 0
    /\ elsewhere = FALSE

-------------------------------------------------------------------------------
(* Reads of the account. *)

\* A read raised, or came back not ok.
ReadFails ==
    /\ fails' = IF fails < MaxReadFailures THEN fails + 1 ELSE fails
    /\ halt' = (halt \/ fails + 1 >= MaxReadFailures)

ReadSucceeds == fails' = 0

OpenPositions == (IF pos > 0 THEN 1 ELSE 0) + (IF elsewhere THEN 1 ELSE 0)

Unresolved(o) == {c \in Orders : o[c] \in UnresolvedStates}

-------------------------------------------------------------------------------
(* _reconcile: LiveReconciler.resolve_unknown_orders one fetch at a time,   *)
(* then what the session makes of the ids it returned.  o, t: the order     *)
(* states and the tracking so far in this step.                             *)

\* An end of a trade that leaves its pending exits behind.
Cleared_KeepsPending(t) == [t EXCEPT !.plan = FALSE]

\* _clear_exit_plan
Cleared(t) == [t EXCEPT !.plan = FALSE, !.pending = NothingPending]

AcceptedStates == {"acknowledged", "partially_filled", "filled"}

RetryableStates == {"risk_rejected", "rejected", "cancelled"}

\* The parked entries among ids that the venue turns out to have.
ResumedEntries(o, t, ids) == {c \in t.parked \cap ids : o[c] \in AcceptedStates}

\* _resolve_pending_exit: one that is rejected or cancelled may be sent again;
\* one that is filled ends the trade; one that is working stays pending.
PendingAfter(o, t, ids) ==
    [r \in Reasons |-> IF t.pending[r] \in ids /\ o[t.pending[r]] \in RetryableStates
                       THEN NoOrder ELSE t.pending[r]]

ExitIsFilled(o, t, ids) ==
    \E r \in Reasons : t.pending[r] \in ids /\ o[t.pending[r]] = "filled"

\* The plan and the pending exits after the loop over ids; the orders come in
\* the order of the manager's table, which an entry and an exit can have either
\* way round.
AfterAnswers(o, t, ids) ==
    LET resumed == ResumedEntries(o, t, ids) # {}
        unparked == [t EXCEPT !.parked = @ \ ids]
        kept == [unparked EXCEPT !.pending = PendingAfter(o, t, ids)]
    IN  IF ExitIsFilled(o, t, ids)
        THEN {Cleared(kept)} \cup
             (IF resumed THEN {[Cleared(kept) EXCEPT !.plan = TRUE]} ELSE {})
        ELSE {[kept EXCEPT !.plan = t.plan \/ resumed]}

\* A settled state that forgets the orders whose fate is unknown.
Settled_IgnoresInFlight(o, t) == Unresolved(o) = {}

\* Nothing in flight: the venue can be judged against the session.
Settled(o, t) ==
    /\ Unresolved(o) = {}
    /\ t.parked = {}
    /\ t.pending = NothingPending

\* The rest of a pass over todo, up to the next fetch or its end.
Resolving(o, t, todo, ids) ==
    LET open == {c \in todo : o[c] \in UnresolvedStates}
    IN  \/ \E c \in open :
             /\ ost' = [o EXCEPT ![c] = "reconciling"]
             /\ track' = t
             /\ loop' = [Waiting EXCEPT !.at = "fetch", !.order = c,
                                        !.todo = todo \ {c}, !.answered = ids]
        \/ /\ open = {}
           /\ ost' = o
           /\ \E t1 \in AfterAnswers(o, t, ids) :
                /\ track' = t1
                /\ loop' = IF Settled(o, t1) THEN [Waiting EXCEPT !.at = "settle"]
                           ELSE Waiting

\* Every tick and every bar (reconcile_every_bars = 1) ends in a pass.
Reconcile(o, t) == Resolving(o, t, Unresolved(o), {})

VenueOrderState(s) ==
    CASE s = "absent"   -> "rejected"
      [] s = "open"     -> "acknowledged"
      [] s = "partial"  -> "partially_filled"
      [] s = "closed"   -> "filled"
      [] s = "canceled" -> "cancelled"

\* The venue's answer resolves the order.
FetchAnswers ==
    LET c == loop.order
        target == VenueOrderState(venue[c])
    IN  /\ loop.at = "fetch"
        /\ Legal(ost[c], target)
        /\ Resolving([ost EXCEPT ![c] = target], track, loop.todo,
                     loop.answered \cup {c})
        /\ UNCHANGED <<decided, halt, fails, venueVars>>

\* The status cannot be mapped: the order stays RECONCILING.
FetchUnmappable ==
    /\ loop.at = "fetch"
    /\ Resolving(ost, track, loop.todo, loop.answered)
    /\ UNCHANGED <<decided, halt, fails, venueVars>>

\* The fetch raises, or the private stream was faster and resolve_order does:
\* the pass is over, and the ids it had resolved so far are not returned.
FetchRaises ==
    /\ loop.at = "fetch"
    /\ loop' = Waiting
    /\ UNCHANGED <<ost, track, decided, halt, fails, venueVars>>

-------------------------------------------------------------------------------
(* _reconcile_positions. *)

\* Settled, but the account disagrees with the plan: halt, and rebuild.
PositionsMismatch ==
    /\ loop.at = "settle"
    /\ track.plan # (OpenPositions > 0)
    /\ ReadSucceeds
    /\ halt' = TRUE
    /\ track' = Cleared(track)      \* no change when there is no plan
    /\ loop' = Waiting
    /\ UNCHANGED <<ost, decided, venueVars>>

\* A clean pass that forgets to re-open entries.
FlatAndAgreed_KeepsHalt ==
    /\ loop.at = "settle"
    /\ ~track.plan /\ OpenPositions = 0
    /\ ReadSucceeds
    /\ loop' = Waiting
    /\ UNCHANGED <<ost, track, decided, halt, venueVars>>

\* No plan and no position: a standing halt is lifted.
FlatAndAgreed ==
    /\ loop.at = "settle"
    /\ ~track.plan /\ OpenPositions = 0
    /\ ReadSucceeds
    /\ halt' = FALSE
    /\ loop' = Waiting
    /\ UNCHANGED <<ost, track, decided, venueVars>>

\* A plan and some position: is it a position on this symbol?
HeldSomewhere ==
    /\ loop.at = "settle"
    /\ track.plan /\ OpenPositions > 0
    /\ ReadSucceeds
    /\ loop' = [Waiting EXCEPT !.at = "diverge"]
    /\ UNCHANGED <<ost, track, decided, halt, venueVars>>

SettleReadFails ==
    /\ loop.at = "settle"
    /\ ReadFails
    /\ loop' = Waiting
    /\ UNCHANGED <<ost, track, decided, venueVars>>

\* _symbol_position_divergence found none, or could not read the positions.
PlanAgreed ==
    /\ loop.at = "diverge"
    /\ \/ pos > 0 /\ UNCHANGED fails
       \/ fails' = fails + 1
    /\ halt' = FALSE
    /\ loop' = Waiting
    /\ UNCHANGED <<ost, track, decided, venueVars>>

\* The position that agreed with the plan is on another symbol.
PlanDiverges ==
    /\ loop.at = "diverge"
    /\ pos = 0
    /\ halt' = TRUE
    /\ loop' = Waiting
    /\ UNCHANGED <<ost, track, decided, fails, venueVars>>

-------------------------------------------------------------------------------
(* The bar and the tick, and what follows an exit decision.                 *)

\* A gate that leaves the halt to the gateway.
EntryGate_IgnoresHalt(o, t, halted) == ~t.plan /\ Unresolved(o) = {}

\* The entry gate at the end of a bar; entries_allowed reads only the halt here.
EntryGate(o, t, halted) == ~halted /\ ~t.plan /\ Unresolved(o) = {}

\* _submit_exit is over: a bar goes on to its entry check, and both to _reconcile.
AfterExit(o, t, halted) ==
    \/ Reconcile(o, t)
    \/ /\ loop.turn = "bar"
       /\ EntryGate(o, t, halted)
       /\ ost' = o /\ track' = t
       /\ loop' = [Waiting EXCEPT !.at = "entryAccount", !.turn = "bar"]

\* Five seconds without a bar: _check_tick_stop finds nothing to do.
TickWithoutStop ==
    /\ loop.at = "wait"
    /\ Reconcile(ost, track)
    /\ UNCHANGED <<decided, halt, fails, venueVars>>

\* The quote has crossed the plan's stop.
TickStop ==
    /\ loop.at = "wait"
    /\ track.plan
    /\ loop' = [Waiting EXCEPT !.at = "exitPositions"]
    /\ UNCHANGED <<ost, track, decided, halt, fails, venueVars>>

\* A bar on which the exit engine and the strategy keep the plan, if there is one.
\* A new bar is a new decision: its tick_stop has not been sent yet.
BarWithoutExit ==
    /\ loop.at = "wait"
    /\ decided' = NoOrder
    /\ \/ Reconcile(ost, track)
       \/ /\ EntryGate(ost, track, halt)
          /\ loop' = [Waiting EXCEPT !.at = "entryAccount", !.turn = "bar"]
          /\ UNCHANGED <<ost, track>>
    /\ UNCHANGED <<halt, fails, venueVars>>

\* The exit engine decides to close; at the holding cap it does so on every bar.
BarExit ==
    /\ loop.at = "wait"
    /\ track.plan
    /\ decided' = NoOrder
    /\ loop' = [Waiting EXCEPT !.at = "exitPositions", !.turn = "bar"]
    /\ UNCHANGED <<ost, track, halt, fails, venueVars>>

-------------------------------------------------------------------------------
(* _submit_exit. *)

\* The read fails: the plan stays for the next bar.
ExitPositionsFail ==
    /\ loop.at = "exitPositions"
    /\ ReadFails
    /\ AfterExit(ost, track, fails + 1 >= MaxReadFailures \/ halt)
    /\ UNCHANGED <<decided, venueVars>>

\* The venue holds nothing on the symbol: the trade is over.
ExitFindsFlat ==
    /\ loop.at = "exitPositions"
    /\ pos = 0
    /\ AfterExit(ost, Cleared(track), halt)
    /\ UNCHANGED <<decided, halt, fails, venueVars>>

\* A close that leaves the last unit.
CloseQty_OffByOne == pos - 1

\* An exit closes the whole position the venue reports.
CloseQty == pos

\* The size is read now, and the order sent after another await.
ExitFindsPosition ==
    /\ loop.at = "exitPositions"
    /\ pos > 0
    /\ loop' = [loop EXCEPT !.at = "exitAccount", !.want = CloseQty]
    /\ UNCHANGED <<ost, track, decided, halt, fails, venueVars>>

ExitAccountFails ==
    /\ loop.at = "exitAccount"
    /\ ReadFails
    /\ AfterExit(ost, track, fails + 1 >= MaxReadFailures \/ halt)
    /\ UNCHANGED <<decided, venueVars>>

\* An exit that waits for whatever it has sent before.
ExitInDoubt_Pending == track.pending[loop.turn] # NoOrder

\* The exit this plan has sent for the same reason is still of unknown fate.
ExitInDoubt ==
    \E c \in Exits : track.pending[loop.turn] = c /\ ost[c] \in UnresolvedStates

ExitWaits ==
    /\ loop.at = "exitAccount"
    /\ ExitInDoubt
    /\ ReadSucceeds
    /\ AfterExit(ost, track, halt)
    /\ UNCHANGED <<decided, halt, venueVars>>

\* Otherwise the pending entry is popped, whatever becomes of the new attempt.
Popped == [track EXCEPT !.pending[loop.turn] = NoOrder]

\* OrderManager's duplicate guard: the decision of a bar's tick_stop is sent
\* again on that bar only after a rejection, and only for the same quantity.
ExitIsDuplicate ==
    /\ loop.turn = "tick" /\ decided # NoOrder
    /\ ~\E c \in Exits : decided = c /\ ost[c] = "rejected" /\ left[c] = loop.want

\* A duplicate, or the gateway refuses: RISK_REJECTED, the plan is kept.
ExitRefused ==
    /\ loop.at = "exitAccount"
    /\ ~ExitInDoubt
    /\ ReadSucceeds
    /\ AfterExit(ost, Popped, halt)
    /\ UNCHANGED <<decided, halt, venueVars>>

\* An order id no part of the session or the manager remembers.
Fresh(c) == ost[c] = "none"

SendExit(c) ==
    /\ loop.at = "exitAccount"
    /\ ~ExitInDoubt /\ ~ExitIsDuplicate
    /\ Fresh(c)
    /\ ReadSucceeds
    /\ ost' = [ost EXCEPT ![c] = "submitting"]
    /\ left' = [left EXCEPT ![c] = loop.want]
    /\ track' = Popped
    /\ decided' = IF loop.turn = "tick" THEN c ELSE decided
    /\ loop' = [loop EXCEPT !.at = "submit", !.order = c, !.want = 0]
    /\ UNCHANGED <<halt, venue, pos, elsewhere>>

-------------------------------------------------------------------------------
(* _submit_entry. *)

EntryAccountFails ==
    /\ loop.at = "entryAccount"
    /\ ReadFails
    /\ Reconcile(ost, track)
    /\ UNCHANGED <<decided, venueVars>>

\* A quote, cost, sizing, guard or gateway check refuses: nothing is sent.
EntryRefused ==
    /\ loop.at = "entryAccount"
    /\ ReadSucceeds
    /\ Reconcile(ost, track)
    /\ UNCHANGED <<decided, halt, venueVars>>

\* max_open_positions (2 unless configured) and the symbol exposure cap.
GatewayAllows == OpenPositions < 2 /\ pos + EntryQty <= MaxExposure

SendEntry(c) ==
    /\ loop.at = "entryAccount"
    /\ Unresolved(ost) = {}
    /\ GatewayAllows
    /\ Fresh(c)
    /\ ReadSucceeds
    /\ ost' = [ost EXCEPT ![c] = "submitting"]
    /\ left' = [left EXCEPT ![c] = EntryQty]
    /\ loop' = [loop EXCEPT !.at = "submit", !.order = c]
    /\ UNCHANGED <<track, decided, halt, venue, pos, elsewhere>>

-------------------------------------------------------------------------------
(* The submit call ends, and the session looks at the state of the order.   *)

\* A session that does not park an entry of unknown fate.
AfterEntrySubmit_NotParked(c, s) ==
    IF s = "acknowledged" THEN [track EXCEPT !.plan = TRUE] ELSE track

\* A session that opens the plan at once and does not wait for the fate.
AfterEntrySubmit_OpensInDoubt(c, s) ==
    IF s \in {"acknowledged", "timeout_unknown"} THEN [track EXCEPT !.plan = TRUE]
    ELSE track

\* _submit_entry's branches: only a state of ACKNOWLEDGED opens a plan.
AfterEntrySubmit(c, s) ==
    CASE s = "acknowledged"    -> [track EXCEPT !.plan = TRUE]
      [] s = "timeout_unknown" -> [track EXCEPT !.parked = @ \cup {c}]
      [] OTHER -> track

\* _preserve_exit_plan; a FILLED exit clears the plan instead.
AfterExitSubmit(c, s) ==
    CASE s = "filled" -> Cleared(track)
      [] s \in {"acknowledged", "partially_filled"} \cup UnresolvedStates ->
            [track EXCEPT !.pending[loop.turn] = c]
      [] OTHER -> track

\* The order is in state s when submit returns.
SubmitEnds(s) ==
    LET c == loop.order
        o == [ost EXCEPT ![c] = s]
    IN  /\ IF c \in Entries THEN Reconcile(o, AfterEntrySubmit(c, s))
           ELSE AfterExit(o, AfterExitSubmit(c, s), halt)
        /\ UNCHANGED <<decided, halt, fails, venueVars>>

\* A submit that takes the venue's answer for the last word.
SubmitReturns_Overwrites ==
    /\ loop.at = "submit"
    /\ venue[loop.order] # "absent"
    /\ SubmitEnds("acknowledged")

\* The venue has answered; the private stream may have been faster.
SubmitReturns ==
    /\ loop.at = "submit"
    /\ venue[loop.order] # "absent"
    /\ SubmitEnds(IF ost[loop.order] = "submitting" THEN "acknowledged"
                  ELSE ost[loop.order])

SubmitRejected ==
    /\ loop.at = "submit"
    /\ venue[loop.order] = "absent"
    /\ SubmitEnds("rejected")

\* The adapter gave up and the order may or may not be at the venue.
SubmitTimesOut ==
    /\ loop.at = "submit"
    /\ ost[loop.order] = "submitting"
    /\ SubmitEnds("timeout_unknown")

\* The adapter gave up on an order the stream has already moved on: the illegal
\* transition to TIMEOUT_UNKNOWN leaves submit as an exception.  In a bar it is
\* a bar fault, and run() reconciles; around a tick nothing catches it.
SubmitRaises ==
    /\ loop.at = "submit"
    /\ ost[loop.order] # "submitting"
    /\ IF loop.turn = "bar" THEN Reconcile(ost, track)
       ELSE /\ loop' = [Waiting EXCEPT !.at = "dead"]
            /\ UNCHANGED <<ost, track>>
    /\ UNCHANGED <<decided, halt, fails, venueVars>>

-------------------------------------------------------------------------------
(* The venue and the private stream. *)

\* No create request outlives the call it belongs to (OrderSpine.LateLanding).
VenueAccepts(c) ==
    /\ ost[c] = "submitting" /\ venue[c] = "absent"
    /\ venue' = [venue EXCEPT ![c] = "open"]
    /\ UNCHANGED <<ost, sessionVars, left, pos, elsewhere>>

Working(c) == venue[c] \in {"open", "partial"}

\* A reduce-only order executes only against a position.
VenueFills(c) ==
    /\ Working(c)
    /\ c \in Exits => pos > 0
    /\ left' = [left EXCEPT ![c] = @ - 1]
    /\ venue' = [venue EXCEPT ![c] = IF left[c] = 1 THEN "closed" ELSE "partial"]
    /\ pos' = IF c \in Exits THEN pos - 1 ELSE pos + 1
    /\ UNCHANGED <<ost, sessionVars, elsewhere>>

\* The venue cancels or expires an order.
VenueEnds(c) ==
    /\ Working(c)
    /\ venue' = [venue EXCEPT ![c] = "canceled"]
    /\ UNCHANGED <<ost, sessionVars, left, pos, elsewhere>>

\* A liquidation, or the operator closes the position.
ExternalClose ==
    /\ pos > 0
    /\ pos' = 0
    /\ UNCHANGED <<ost, sessionVars, venue, left, elsewhere>>

\* A user of the same account opens or closes a position on another symbol.
OtherSymbol ==
    /\ SharedAccount
    /\ elsewhere' = ~elsewhere
    /\ UNCHANGED <<ost, sessionVars, venue, left, pos>>

\* The statuses the private stream can report: what the order is, or that it was
\* open.  (A late report of a partial fill means no more to the session.)
StreamStatuses(c) == IF venue[c] = "absent" THEN {} ELSE {venue[c], "open"}

StreamOrder(c) ==
    /\ ost[c] # "none"
    /\ \E s \in StreamStatuses(c) :
          ost' = [ost EXCEPT ![c] = StreamResult(@, VenueOrderState(s))]
    /\ UNCHANGED <<sessionVars, venueVars>>

\* Model only: an order that is over makes room for a new one.  Where the session
\* or the registry still holds its id, that id will only be found not to be in
\* doubt, so PastOrder can stand for it.
ReadAgain ==
    {loop.order} \cup loop.todo \cup loop.answered
    \cup {c \in Exits : decided = c /\ ost[c] = "rejected"}

Retire(c) ==
    /\ ost[c] \notin UnresolvedStates \cup {"none", "submitting"}
    /\ ~Working(c)
    /\ c \notin ReadAgain
    /\ track' = [plan |-> track.plan,
                 parked |-> {IF p = c THEN PastOrder ELSE p : p \in track.parked},
                 pending |-> [r \in Reasons |-> IF track.pending[r] = c THEN PastOrder
                                                ELSE track.pending[r]]]
    /\ decided' = IF decided = c THEN PastOrder ELSE decided
    /\ ost' = [ost EXCEPT ![c] = "none"]
    /\ venue' = [venue EXCEPT ![c] = "absent"]
    /\ left' = [left EXCEPT ![c] = 0]
    /\ UNCHANGED <<halt, fails, loop, pos, elsewhere>>

-------------------------------------------------------------------------------
ReconcileStep ==
    \/ FetchAnswers \/ FetchUnmappable \/ FetchRaises
    \/ PositionsMismatch \/ FlatAndAgreed \/ HeldSomewhere \/ SettleReadFails
    \/ PlanAgreed \/ PlanDiverges

ExitStep ==
    \/ ExitPositionsFail \/ ExitFindsFlat \/ ExitFindsPosition
    \/ ExitAccountFails \/ ExitWaits \/ ExitRefused
    \/ \E c \in Exits : SendExit(c)

EntryStep ==
    \/ EntryAccountFails \/ EntryRefused
    \/ \E c \in Entries : SendEntry(c)

SubmitStep == SubmitReturns \/ SubmitRejected \/ SubmitTimesOut \/ SubmitRaises

LoopStep ==
    \/ TickWithoutStop \/ TickStop \/ BarWithoutExit \/ BarExit
    \/ ReconcileStep \/ ExitStep \/ EntryStep \/ SubmitStep

VenueStep ==
    \/ \E c \in Orders : VenueAccepts(c) \/ VenueFills(c) \/ VenueEnds(c)
    \/ ExternalClose \/ OtherSymbol

Next ==
    \/ LoopStep
    \/ VenueStep
    \/ \E c \in Orders : StreamOrder(c) \/ Retire(c)

Spec == Init /\ [][Next]_vars

(***************************************************************************)
(* Fairness.  run() is a loop over a queue with a five-second timeout, and  *)
(* every await in it ends.  Bars keep closing, and once the holding cap is  *)
(* reached every one of them decides to exit.  A read, a status request and *)
(* an exit order that are tried again and again succeed now and then, and   *)
(* the venue executes a reduce-only market order it has accepted.  Nothing  *)
(* is assumed of the private stream or of entries.                          *)
(***************************************************************************)
SettleReadSucceeds == PositionsMismatch \/ FlatAndAgreed \/ HeldSomewhere

ExitReadSucceeds == ExitFindsFlat \/ ExitFindsPosition

ExitIsSent == \E c \in Exits : SendExit(c)

Fairness ==
    /\ WF_vars(LoopStep)
    /\ SF_vars(BarExit) /\ SF_vars(ExitReadSucceeds) /\ SF_vars(ExitIsSent)
    /\ \A c \in Exits :
          SF_vars(VenueAccepts(c)) /\ SF_vars(VenueFills(c)) /\ WF_vars(Retire(c))
    /\ SF_vars(FetchAnswers) /\ SF_vars(SettleReadSucceeds)

FairSpec == Spec /\ Fairness

-------------------------------------------------------------------------------
(* Properties. *)

Dead == loop.at = "dead"

\* Nothing of unknown fate is lost from sight (live_trader.py:606, 787): an entry
\* that timed out stays parked with its signal, and an exit that timed out stays
\* pending for as long as its trade is open, through failed passes, answers that
\* cannot be mapped, and other exits of the same trade.
DoubtIsTracked ==
    /\ \A c \in Entries : ost[c] \in UnresolvedStates => c \in track.parked
    /\ \A c \in Exits : ost[c] \in UnresolvedStates /\ track.plan
                         => \E r \in Reasons : track.pending[r] = c

\* Entries only when allowed, without a trade, and nothing unresolved (the comment
\* at live_trader.py:852), and still so when the order is sent, an account read
\* after the three were looked at.
EntriesOnlyWhenAllowed ==
    [][\A c \in Entries :
          ost[c] = "none" /\ ost'[c] = "submitting"
          => ~halt /\ ~track.plan /\ Unresolved(ost) = {}]_vars

\* The halt is lifted only in a settled state (_reconcile_positions): no order in
\* doubt, none parked, none pending, although that was looked at one or two
\* account reads earlier, with the private stream running.
InFlight ==
    Unresolved(ost) # {} \/ track.parked # {} \/ track.pending # NothingPending

HaltLiftedOnlyWhenSettled == [][halt /\ ~halt' => ~InFlight]_vars

\* However the submit call, the private stream and the reconciler overtake each other,
\* an order only ever changes along the whitelist of order_state.py: apart from the
\* places where the model says so (SubmitRaises, FetchRaises), IllegalTransition never
\* leaves the order manager, and an order that has ended stays as it ended.
OrdersFollowTheTable ==
    [][\A c \in Orders :
          ost[c] # "none" /\ ost'[c] \notin {ost[c], "none"}
          => LegalRoute(ost[c], ost'[c])]_vars

\* Exits always flow (live_trader.py:848): through failed reads, halts, rejected,
\* cancelled and lost exits and duplicates within a bar, every trade ends.
EveryTradeEnds == track.plan ~> (~track.plan \/ Dead)

\* A position without a plan halts entries, unless a parked entry hides it.
UntrackedPositionHalts ==
    (pos > 0 /\ ~track.plan /\ track.parked = {})
        ~> (halt \/ track.plan \/ pos = 0 \/ track.parked # {} \/ Dead)

\* The halt is not permanent (_rebuild_from_venue): when the account is flat for
\* good and nothing is parked, entries are re-opened again and again.
HaltIsNotPermanent ==
    <>[](OpenPositions = 0 /\ track.parked = {} /\ ~Dead) => []<>~halt

-------------------------------------------------------------------------------
(* What the code promises in words and does not keep: refuted by a run.     *)

\* "Fail-closed rule on any mismatch" (DESIGN.md section 3): a venue position the
\* session does not track halts entries.  A parked entry that the private stream
\* resolves is never in the list of resolved ids, stays parked for ever, and the
\* positions are never compared again.
MismatchFailsClosed ==
    (pos > 0 /\ ~track.plan) ~> (halt \/ track.plan \/ pos = 0 \/ Dead)
-------------------------------------------------------------------------------
(* The session implements TradeCycle. *)

\* The entries of unknown fate: in the submit call, unresolved, or asked for in the
\* reconciliation pass under way, even when the private stream already knows.
Attempted ==
    {c \in Entries : \/ ost[c] \in UnresolvedStates
                     \/ loop.at = "submit" /\ loop.order = c
                     \/ loop.at = "fetch" /\ c \in loop.answered \cup {loop.order}}

Cycle == INSTANCE TradeCycle WITH
    Restarts <- FALSE,
    attempt  <- Attempted,
    trade    <- track.plan,
    halted   <- halt

\* Every step of the session is a step of TradeCycle or leaves it unchanged.
ImplementsTradeCycle == Cycle!Spec
=============================================================================
