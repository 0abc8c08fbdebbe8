----------------------------- MODULE PaperSession -----------------------------
(***************************************************************************)
(* LivePaperSession (runtime/live_paper.py) with everything it owns: the   *)
(* simulated exchange, the paper broker and its scripted failures, the     *)
(* paper reconciler, the order manager above them, and what survives a     *)
(* restart: the decision journal, the account snapshot and the KILL file.  *)
(*                                                                         *)
(* The session is one coroutine and its exchange runs inside it, so no     *)
(* other actor moves an order.  loop.at names the next stretch of the      *)
(* loop; a process crash can come between any two of them, and memory,     *)
(* the venue's included, is then what the durable records give back.       *)
(***************************************************************************)
EXTENDS Integers, FiniteSets, OrderStates

CONSTANTS
    Entries,        \* client order ids of risk-increasing orders
    Exits,          \* client order ids of reduce-only orders
    Ttl,            \* maker_fill_ttl_bars
    Prints,         \* settled funding prints
    MaxCrashes,     \* bound: crashes of the process
    MakerAckLost,   \* can the acknowledgement of a resting entry be lost?
    NoOrder

ASSUME PaperSessionAssumption ==
    /\ Entries \cap Exits = {} /\ IsFiniteSet(Entries) /\ IsFiniteSet(Exits)
    /\ NoOrder \notin Entries \cup Exits
    /\ Ttl \in Nat \ {0} /\ MaxCrashes \in Nat
    /\ MakerAckLost \in BOOLEAN

Orders == Entries \cup Exits

VARIABLES
    ost,        \* ManagedOrder.state, "none" when the manager does not hold it
    track,      \* the plan, the resting entry, parked entries, pending exits
    loop,       \* the next stretch of the loop and the order it is about
    storeHalt,  \* _account_store_halt
    dispatched, \* _funding_dispatch_keys
    venue,      \* the simulated exchange's status of an order
    pos,        \* its position, long
    paid,       \* how often each print has been charged to its balance
    last,       \* what the journal's last lifecycle record of an order says
    decided,    \* the order the registry holds for this bar's tick_stop decision
    journaled,  \* the prints with a funding_applied record
    snap,       \* the account snapshot on disk
    killed,     \* the kill switch; activate() writes the KILL file
    journalUp,  \* DecisionJournal.available
    crashes,
    consumed,   \* history: the prints a flat book has consumed
    unrecorded  \* history: the prints charged without a record

sessionVars == <<track, loop, storeHalt, dispatched>>
venueVars == <<venue, pos, paid>>
diskVars == <<last, decided, journaled, snap, killed>>
otherVars == <<journalUp, crashes, consumed, unrecorded>>
vars == <<ost, sessionVars, venueVars, diskVars, otherVars>>

-------------------------------------------------------------------------------
(* Types. *)

Reasons == {"tick", "bar"}

NothingPending == [r \in Reasons |-> NoOrder]

Idle == [at |-> "idle", why |-> "bar", order |-> NoOrder, maker |-> FALSE]

\* idle: the wait for a bar; exit, exitSubmit, persist, quote: a tick whose stop is
\* crossed; exit to persist: a bar.
Locations == {"idle", "quote", "exit", "exitSubmit", "pending", "entry",
              "entrySubmit", "reconcile", "persist"}

Flat == [plan |-> FALSE, resting |-> NoOrder, waited |-> 0, parked |-> {},
         pending |-> NothingPending]

Tracks == [plan : BOOLEAN, resting : Entries \cup {NoOrder}, waited : 0 .. Ttl - 1,
           parked : SUBSET Entries, pending : [Reasons -> Exits \cup {NoOrder}]]

\* PaperOrderStatus.state; "absent": no such order.
VenueStatuses == {"absent", "open", "filled", "cancelled"}

Snapshots == [pos : Nat, plan : BOOLEAN, paid : [Prints -> Nat]]

TypeOK ==
    /\ ost \in [Orders -> VenueFacingStates \cup {"none"}]
    /\ track \in Tracks
    /\ loop \in [at : Locations, why : Reasons, order : Orders \cup {NoOrder},
                 maker : BOOLEAN]
    /\ storeHalt \in BOOLEAN
    /\ dispatched \in SUBSET Prints
    /\ venue \in [Orders -> VenueStatuses]
    /\ pos \in Nat
    /\ paid \in [Prints -> Nat]
    /\ last \in [Orders -> {"none", "unresolved", "rejected", "done"}]
    /\ decided \in Exits \cup {NoOrder}
    /\ journaled \in SUBSET Prints
    /\ snap \in Snapshots
    /\ killed \in BOOLEAN
    /\ crashes \in 0 .. MaxCrashes
    /\ journalUp \in BOOLEAN
    /\ consumed \in SUBSET Prints
    /\ unrecorded \in SUBSET Prints

\* A lane's first start: flat, nothing on disk.
Init ==
    /\ ost = [c \in Orders |-> "none"]
    /\ track = Flat
    /\ loop = Idle
    /\ storeHalt = FALSE
    /\ dispatched = {}
    /\ venue = [c \in Orders |-> "absent"]
    /\ pos = 0
    /\ paid = [p \in Prints |-> 0]
    /\ last = [c \in Orders |-> "none"]
    /\ decided = NoOrder
    /\ journaled = {}
    /\ snap = [pos |-> 0, plan |-> FALSE, paid |-> [p \in Prints |-> 0]]
    /\ killed = FALSE
    /\ journalUp = TRUE
    /\ crashes = 0
    /\ consumed = {}
    /\ unrecorded = {}

-------------------------------------------------------------------------------
(* The simulated exchange.  Sizes are one unit; an exit closes it all.      *)

RestingOrders == {c \in Orders : venue[c] = "open"}

\* _apply_fill of the orders of S, entries.
Fill(S) ==
    /\ venue' = [c \in Orders |-> IF c \in S THEN "filled" ELSE venue[c]]
    /\ pos' = pos + Cardinality(S)

\* set_quote: the resting limits that the new quote crosses fill.
QuoteMoves == \E S \in SUBSET RestingOrders : Fill(S)

\* A reduce-only market order.
FillExit(c) ==
    /\ venue' = [venue EXCEPT ![c] = "filled"]
    /\ pos' = 0

\* A cancel that takes the order off the book of nobody.
VenueCancel_LeavesResting(c) == venue

\* cancel_order
VenueCancel(c) == [venue EXCEPT ![c] = "cancelled"]

-------------------------------------------------------------------------------
(* A tick: _idle_housekeeping.                                              *)

\* _apply_settled_funding, on the prints the feed has fetched by now: a flat book
\* consumes a print without a record, an open one is charged, and then the record is
\* appended.  The answer of append is not looked at: where it is FALSE (failed) the
\* journal is latched, the charge and the key stay, and the record may be lost.
SettledFunding ==
    \E due \in SUBSET (Prints \ dispatched) :
        LET charged == IF pos > 0 THEN due ELSE {}
        IN  \E failed \in SUBSET charged : \E lost \in SUBSET failed :
               /\ dispatched' = dispatched \cup due
               /\ paid' = [p \in Prints |-> IF p \in charged THEN paid[p] + 1 ELSE paid[p]]
               /\ journaled' = journaled \cup (charged \ lost)
               /\ unrecorded' = unrecorded \cup lost
               /\ journalUp' = (journalUp /\ failed = {})
               /\ consumed' = consumed \cup (due \ charged)

\* The quote has not crossed the plan's stop, or there is none: _sync_quote.
TickWithoutStop ==
    /\ loop.at = "idle"
    /\ SettledFunding
    /\ QuoteMoves
    /\ UNCHANGED <<ost, track, loop, storeHalt, last, decided, snap, killed, crashes>>

\* _check_tick_stop: it has.
TickStop ==
    /\ loop.at = "idle"
    /\ track.plan /\ pos > 0
    /\ SettledFunding
    /\ QuoteMoves
    /\ loop' = [Idle EXCEPT !.at = "exit", !.why = "tick"]
    /\ UNCHANGED <<ost, track, storeHalt, last, decided, snap, killed, crashes>>

\* The stop has been dealt with: _sync_quote ends the tick.
TickEnds ==
    /\ loop.at = "quote"
    /\ QuoteMoves
    /\ loop' = Idle
    /\ UNCHANGED <<ost, track, storeHalt, dispatched, paid, diskVars, otherVars>>

-------------------------------------------------------------------------------
(* A bar, up to its exit. *)

\* A new bar is a new decision: its tick_stop has not been sent yet.
BarBegins ==
    /\ loop.at = "idle"
    /\ QuoteMoves
    /\ decided' = NoOrder
    /\ UNCHANGED <<ost, track, storeHalt, dispatched, paid, last, journaled, snap, killed,
                   otherVars>>

\* _manage_exit: the exit engine or the strategy decides to close.
BarExits ==
    /\ BarBegins
    /\ track.plan
    /\ loop' = [Idle EXCEPT !.at = "exit"]

BarKeeps ==
    /\ BarBegins
    /\ loop' = [Idle EXCEPT !.at = "pending"]

-------------------------------------------------------------------------------
(* _submit_exit. *)

\* _clear_exit_plan
Cleared(t) == [t EXCEPT !.plan = FALSE, !.pending = NothingPending]

\* No order came of it: a tick goes on with its quote, a bar with its entries.
NoExit == loop' = [Idle EXCEPT !.at = IF loop.why = "tick" THEN "quote" ELSE "pending"]

\* An order came of it: a tick persists the account at once.
AfterExit ==
    loop' = IF loop.why = "tick" THEN [loop EXCEPT !.at = "persist", !.order = NoOrder]
            ELSE [Idle EXCEPT !.at = "pending"]

ExitFindsFlat ==
    /\ loop.at = "exit"
    /\ pos = 0
    /\ track' = Cleared(track)
    /\ NoExit
    /\ UNCHANGED <<ost, storeHalt, dispatched, venueVars, diskVars, otherVars>>

\* The exit pending under this key is in doubt.  A bar's key is new.
ExitInDoubt ==
    /\ loop.why = "tick"
    /\ \E c \in Exits : track.pending["tick"] = c /\ ost[c] \in UnresolvedStates

ExitWaits ==
    /\ loop.at = "exit"
    /\ pos > 0 /\ ExitInDoubt
    /\ NoExit
    /\ UNCHANGED <<ost, track, storeHalt, dispatched, venueVars, diskVars, otherVars>>

Popped == [track EXCEPT !.pending[loop.why] = NoOrder]

\* The duplicate guard: a tick_stop is sent again on its bar only after a
\* rejection that this process knows of.
ExitIsDuplicate ==
    /\ loop.why = "tick" /\ decided # NoOrder
    /\ ~\E c \in Exits : decided = c /\ ost[c] = "rejected"

\* A duplicate, or the gateway refuses: RISK_REJECTED, the plan is kept.
ExitRefused ==
    /\ loop.at = "exit"
    /\ pos > 0 /\ ~ExitInDoubt
    /\ track' = Popped
    /\ AfterExit
    /\ UNCHANGED <<ost, storeHalt, dispatched, venueVars, diskVars, otherVars>>

\* The orders whose ids the session or the registry still looks at.
Held == {track.resting, decided, track.pending["tick"], track.pending["bar"]}
        \cup track.parked

\* An id that nobody has used; the id of an order that is over and that nobody
\* holds may stand for one.
Fresh(c) ==
    /\ last[c] # "unresolved" /\ ost[c] \notin UnresolvedStates
    /\ venue[c] # "open"
    /\ c \notin Held

\* OrderManager.submit up to the adapter call: the intent is journaled.
Submit(c) ==
    /\ Fresh(c)
    /\ ost' = [ost EXCEPT ![c] = "submitting"]
    /\ last' = [last EXCEPT ![c] = "unresolved"]
    /\ venue' = [venue EXCEPT ![c] = "absent"]

SendExit(c) ==
    /\ loop.at = "exit"
    /\ pos > 0 /\ ~ExitInDoubt /\ ~ExitIsDuplicate
    /\ Submit(c)
    /\ track' = Popped
    /\ decided' = IF loop.why = "tick" THEN c ELSE decided
    /\ loop' = [loop EXCEPT !.at = "exitSubmit", !.order = c]
    /\ UNCHANGED <<storeHalt, dispatched, pos, paid, journaled, snap, killed, otherVars>>

\* submit ends: the state of the order, and its last journal record.
Ends(c, s) ==
    /\ ost' = [ost EXCEPT ![c] = s]
    /\ last' = [last EXCEPT ![c] = CASE s = "timeout_unknown" -> "unresolved"
                                     [] s = "rejected" -> "rejected"
                                     [] OTHER -> "done"]

ExitFills ==
    /\ loop.at = "exitSubmit"
    /\ FillExit(loop.order)
    /\ Ends(loop.order, "acknowledged")
    /\ track' = Cleared(track)
    /\ AfterExit
    /\ UNCHANGED <<storeHalt, dispatched, paid, decided, journaled, snap, killed,
                   otherVars>>

\* The broker's script: "reject".
ExitRejected ==
    /\ loop.at = "exitSubmit"
    /\ Ends(loop.order, "rejected")
    /\ AfterExit
    /\ UNCHANGED <<track, storeHalt, dispatched, venueVars, decided, journaled, snap,
                   killed, otherVars>>

\* "timeout_reached" and "timeout_lost"; _preserve_exit_plan
ExitTimesOut ==
    /\ loop.at = "exitSubmit"
    /\ FillExit(loop.order) \/ UNCHANGED <<venue, pos>>
    /\ Ends(loop.order, "timeout_unknown")
    /\ track' = [track EXCEPT !.pending[loop.why] = loop.order]
    /\ AfterExit
    /\ UNCHANGED <<storeHalt, dispatched, paid, decided, journaled, snap, killed,
                   otherVars>>

-------------------------------------------------------------------------------
(* The rest of the bar. *)

\* One bar longer.
Aged(t) == [t EXCEPT !.waited = @ + 1]

\* A resting entry that is given one bar too many.
Expired_Late(t) == Aged(t).waited > Ttl

Expired(t) == Aged(t).waited >= Ttl

\* _guard_orphaned_position; the kill switch stays tripped.
Guarded(t) ==
    killed \/ (pos > 0 /\ ~t.plan /\ t.resting = NoOrder /\ t.parked = {})

ToEntry(t) ==
    /\ track' = t
    /\ killed' = Guarded(t)
    /\ loop' = [Idle EXCEPT !.at = "entry"]
    /\ UNCHANGED <<storeHalt, dispatched, pos, paid, decided, journaled, snap,
                   otherVars>>

\* _manage_pending_entry: nothing rests, or what rests has filled, or it waits on.
PendingKeeps ==
    /\ loop.at = "pending"
    /\ \/ /\ track.resting = NoOrder
          /\ ToEntry(track)
       \/ /\ track.resting # NoOrder
          /\ venue[track.resting] = "filled"
          /\ ToEntry([track EXCEPT !.plan = TRUE, !.resting = NoOrder, !.waited = 0])
       \/ /\ track.resting # NoOrder
          /\ venue[track.resting] # "filled"
          /\ ~Expired(track)
          /\ ToEntry(Aged(track))
    /\ UNCHANGED <<ost, venue, last>>

\* Its time is up: OrderManager.cancel_order.
PendingCancelled ==
    /\ loop.at = "pending"
    /\ track.resting # NoOrder
    /\ venue[track.resting] # "filled"
    /\ Expired(track)
    /\ venue' = VenueCancel(track.resting)
    /\ ost' = [ost EXCEPT ![track.resting] = "cancelled"]
    /\ last' = [last EXCEPT ![track.resting] = "done"]
    /\ ToEntry([track EXCEPT !.resting = NoOrder, !.waited = 0])

Unresolved(o) == {c \in Orders : o[c] \in UnresolvedStates}

\* A gate that only looks at the plan.
EntryGate_PlanOnly == ~track.plan /\ ~storeHalt

\* The session's own gate on a bar's entry.
EntryGate == ~track.plan /\ track.resting = NoOrder /\ ~storeHalt

\* No signal, or a gate, cost, sizing, guard or gateway check refuses.
NoEntry ==
    /\ loop.at = "entry"
    /\ loop' = [Idle EXCEPT !.at = "reconcile"]
    /\ UNCHANGED <<ost, track, storeHalt, dispatched, venueVars, diskVars, otherVars>>

\* _submit_entry, on the maker or the taker route; the order manager refuses while
\* the journal is unavailable or an order is unresolved, the gateway while the kill
\* switch is active.
SendEntry(c) ==
    /\ loop.at = "entry"
    /\ EntryGate
    /\ journalUp
    /\ Unresolved(ost) = {}
    /\ ~killed
    /\ Submit(c)
    /\ \E m \in BOOLEAN :
          loop' = [loop EXCEPT !.at = "entrySubmit", !.order = c, !.maker = m]
    /\ UNCHANGED <<track, storeHalt, dispatched, pos, paid, decided, journaled, snap,
                   killed, otherVars>>

\* A market order fills; a limit that is not marketable rests.
EntryFills == Fill({loop.order})

EntryRests ==
    /\ loop.maker
    /\ venue' = [venue EXCEPT ![loop.order] = "open"]
    /\ UNCHANGED <<pos>>

EntryDone ==
    /\ loop' = [Idle EXCEPT !.at = "reconcile"]
    /\ UNCHANGED <<storeHalt, dispatched, paid, decided, journaled, snap, killed,
                   otherVars>>

EntryAcknowledged ==
    /\ loop.at = "entrySubmit"
    /\ \/ EntryFills /\ track' = [track EXCEPT !.plan = TRUE]
       \/ EntryRests /\ track' = [track EXCEPT !.resting = loop.order]
    /\ Ends(loop.order, "acknowledged")
    /\ EntryDone

EntryRejected ==
    /\ loop.at = "entrySubmit"
    /\ Ends(loop.order, "rejected")
    /\ EntryDone
    /\ UNCHANGED <<track, venue, pos>>

EntryTimesOut ==
    /\ loop.at = "entrySubmit"
    /\ \/ EntryFills
       \/ MakerAckLost /\ EntryRests
       \/ UNCHANGED <<venue, pos>>
    /\ Ends(loop.order, "timeout_unknown")
    /\ track' = [track EXCEPT !.parked = @ \cup {loop.order}]
    /\ EntryDone

-------------------------------------------------------------------------------
(* PaperReconciler.run and LivePaperSession._reconcile.                     *)

AcceptedStates == {"acknowledged", "partially_filled", "filled"}

\* _VENUE_STATE_TO_ORDER_STATE; an order the venue does not know never arrived.
VenueSays(v) ==
    CASE v = "absent"    -> "rejected"
      [] v = "open"      -> "acknowledged"
      [] v = "filled"    -> "filled"
      [] v = "cancelled" -> "cancelled"

\* _resolve_unknown_orders, then _sync_fills.
Reconciled(o) ==
    [c \in Orders |->
        IF o[c] \in UnresolvedStates THEN VenueSays(venue[c])
        ELSE IF o[c] = "acknowledged" /\ venue[c] = "filled" THEN "filled"
        ELSE o[c]]

\* _CONSISTENT: what the venue may say of an order in state s.
ConsistentWith(s) ==
    CASE s = "acknowledged" -> {"open", "filled", "cancelled"}
      [] s = "partially_filled" -> {"filled", "cancelled"}
      [] s = "filled"       -> {"filled"}
      [] s = "cancelled"    -> {"cancelled"}
      [] s = "rejected"     -> {"absent"}
      [] OTHER -> VenueStatuses

\* A pass that leaves the plan of a parked entry where it is.
AfterAnswers_ForgetsPlan(o, ids) ==
    [track EXCEPT !.parked = @ \ ids,
                  !.pending = [r \in Reasons |-> IF @[r] \in ids THEN NoOrder ELSE @[r]]]

\* The loop over the resolved ids: a parked entry that the venue has becomes the
\* plan; a pending exit that it has ends the trade, one that it has not may be
\* sent again.
AfterAnswers(o, ids) ==
    LET adopted == \E c \in track.parked \cap ids : o[c] \in AcceptedStates
        ended == \E r \in Reasons :
                    track.pending[r] \in ids /\ o[track.pending[r]] \in AcceptedStates
        unparked == [track EXCEPT
                        !.parked = @ \ ids,
                        !.pending = [r \in Reasons |-> IF @[r] \in ids THEN NoOrder
                                                       ELSE @[r]]]
    IN  IF ended THEN [Cleared(unparked) EXCEPT !.plan = adopted]
        ELSE [unparked EXCEPT !.plan = @ \/ adopted]

Reconcile ==
    /\ loop.at = "reconcile"
    /\ LET o == Reconciled(ost)
           ids == Unresolved(ost)
       IN  /\ ost' = o
           /\ last' = [c \in Orders |-> IF c \in ids THEN "done" ELSE last[c]]
           /\ track' = AfterAnswers(o, ids)
           /\ killed' = (killed \/ \E c \in Orders : venue[c] \notin ConsistentWith(o[c]))
    /\ loop' = [Idle EXCEPT !.at = "persist"]
    /\ UNCHANGED <<storeHalt, dispatched, venueVars, decided, journaled, snap, otherVars>>

\* Not every bar reconciles (reconcile_every_bars), unless an order is unresolved.
NoReconcile ==
    /\ loop.at = "reconcile"
    /\ Unresolved(ost) = {}
    /\ loop' = [Idle EXCEPT !.at = "persist"]
    /\ UNCHANGED <<ost, track, storeHalt, dispatched, venueVars, diskVars, otherVars>>

-------------------------------------------------------------------------------
(* The account snapshot, the crash and the restart.                         *)

AfterPersist == loop' = [Idle EXCEPT !.at = IF loop.why = "tick" THEN "quote" ELSE "idle"]

Persist ==
    /\ loop.at = "persist"
    /\ snap' = IF storeHalt THEN snap
               ELSE [pos |-> pos, plan |-> track.plan, paid |-> paid]
    /\ AfterPersist
    /\ UNCHANGED <<ost, track, storeHalt, dispatched, venueVars, last, decided, journaled,
                   killed, otherVars>>

\* One failed write, and the store is not written again by this process.
PersistFails ==
    /\ loop.at = "persist"
    /\ storeHalt' = TRUE
    /\ AfterPersist
    /\ UNCHANGED <<ost, track, dispatched, venueVars, diskVars, otherVars>>

\* A replay that takes an order for unresolved until it reads a rejection.
Rehydrated_UntilRejected ==
    [c \in Orders |-> CASE last[c] \in {"unresolved", "done"} -> "timeout_unknown"
                        [] last[c] = "rejected" /\ c \in Exits -> "rejected"
                        [] OTHER -> "none"]

\* OrderManager._seed_orders_from_journal
Rehydrated ==
    [c \in Orders |-> CASE last[c] = "unresolved" -> "timeout_unknown"
                        [] last[c] = "rejected" /\ c \in Exits -> "rejected"
                        [] OTHER -> "none"]

\* A restart that does not read the funding records back.
RestoredKeys_None == {}

\* The funding_applied records of the journal.
RestoredKeys == journaled

\* The process dies and the lane is built again: restore_into, then restore_plan,
\* which may refuse the plan or be unable to rebuild one.
CrashAndRestart ==
    /\ crashes < MaxCrashes
    /\ crashes' = crashes + 1
    /\ ost' = Rehydrated
    /\ \E p \in BOOLEAN : track' = [Flat EXCEPT !.plan = p /\ snap.pos > 0]
    /\ loop' = Idle
    /\ storeHalt' = FALSE
    /\ dispatched' = RestoredKeys
    /\ venue' = [c \in Orders |-> "absent"]
    /\ pos' = snap.pos
    /\ paid' = snap.paid
    /\ journalUp' = TRUE
    /\ UNCHANGED <<diskVars, consumed, unrecorded>>

-------------------------------------------------------------------------------
TickStep == TickWithoutStop \/ TickStop \/ TickEnds

ExitStep ==
    \/ ExitFindsFlat \/ ExitWaits \/ ExitRefused
    \/ \E c \in Exits : SendExit(c)
    \/ ExitFills \/ ExitRejected \/ ExitTimesOut

EntryStep ==
    \/ NoEntry
    \/ \E c \in Entries : SendEntry(c)
    \/ EntryAcknowledged \/ EntryRejected \/ EntryTimesOut

BarStep ==
    \/ BarExits \/ BarKeeps \/ PendingKeeps \/ PendingCancelled
    \/ Reconcile \/ NoReconcile \/ Persist \/ PersistFails

Next ==
    \/ TickStep \/ BarStep \/ ExitStep \/ EntryStep
    \/ CrashAndRestart

Spec == Init /\ [][Next]_vars

-------------------------------------------------------------------------------
(* Properties. *)

\* "A new entry can't fire while it rests" (live_paper.py:2647), nor over a
\* position, with or without a plan, nor over one that a restart brought back: an
\* entry is sent only on a venue that is flat and holds no order.
OneTradeAtATime ==
    [][\A c \in Entries :
          ost[c] # "submitting" /\ ost'[c] = "submitting"
          => pos = 0 /\ RestingOrders = {}]_vars

\* "Without it a restart turns an open position into an orphan" (account_store.py:
\* 60): the snapshot never holds a position without its plan, whatever entry it came
\* from, unless the kill switch has already been tripped for it.
SnapshotCanBeResumed == snap.pos > 0 => snap.plan \/ killed

\* No false alarm: what the manager holds agrees with the venue at all times,
\* restarts included, so that a reconciliation never halts a healthy lane.
ManagerAgreesWithVenue ==
    \A c \in Orders :
        /\ ost[c] \in {"filled", "cancelled"} => venue[c] = ost[c]
        /\ ost[c] = "acknowledged" => venue[c] \in {"open", "filled"}
        /\ ost[c] = "rejected" => venue[c] = "absent"

\* apply_funding_print: a settlement is charged to the open inventory once, over
\* any number of restarts, which give the balance and the keys back from two files
\* written at different times, unless the journal has lost its record.
FundingAtMostOnce == \A p \in Prints : p \notin unrecorded => paid[p] <= 1

-------------------------------------------------------------------------------
(* What the code promises in words and does not keep: refuted by a run.     *)

\* "Flat books consume them without a cash movement so a later entry cannot be
\* charged retroactively" (live_paper.py:3521).  Nothing is written down when a flat
\* book consumes a print, so a restart with an open position charges it after all.
ConsumedWhileFlatIsNeverCharged ==
    [][\A p \in Prints : paid'[p] > paid[p] => p \notin consumed]_vars
-------------------------------------------------------------------------------
(* The session implements TradeCycle, over its restarts. *)

\* The entries of unknown fate: in the submit call, unresolved, or resting.
Attempted ==
    {c \in Entries : \/ ost[c] \in UnresolvedStates
                     \/ loop.at = "entrySubmit" /\ loop.order = c
                     \/ track.resting = c}

Cycle == INSTANCE TradeCycle WITH
    Restarts <- TRUE,
    attempt  <- Attempted,
    trade    <- track.plan,
    halted   <- killed \/ storeHalt

\* Every step of the session is a step of TradeCycle or leaves it unchanged.
ImplementsTradeCycle == Cycle!Spec
=============================================================================
