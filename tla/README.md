# vnedge: a TLA+ model of the guarded order spine and its sessions

vnedge is a crypto-perpetuals trading assistant (Python, asyncio). Its package is
`src/src/vnedge/`, about 136 000 lines, most of them market-data recording,
research, dashboards and reporting. The part that decides whether money is safe is
small: the *order spine*, the few modules through which every order of every
runtime passes, and above it the two *sessions* that decide when an order is sent: the live
trader and the paper session. This project models the spine and both sessions, checks
them with TLC, and proves their central safety properties with TLAPS.

Paths below are relative to `src/src/vnedge/`; the design documents are
`src/README.md`, `src/docs/ARCHITECTURE_FLOW.md` and `src/docs/DESIGN.md`.

## 1. Inventory

| Component (files) | State it keeps | Operations | Hard behaviour | What makes it correct |
|---|---|---|---|---|
| Order state machine (`execution/order_state.py`) | `ManagedOrder.state` | `transition` along a whitelist | several actors drive one order | terminal states are final; unresolved states end |
| Order manager (`execution/order_manager.py`) | `orders`, registry, fills of an order | `submit`, `cancel_order`, `cancel_replace`, `emergency_flatten`, `begin_reconciliation`, `resolve_order`, `sync_fill_state`, two private-stream entry points, replay on start | state is read before an await and used after it; the stream's callbacks run meanwhile | write-ahead, at-most-once at the venue, no new risk in doubt |
| Intent registry, ids (`execution/idempotency.py`) | decision to order id | `check_and_register`, `bind`, `mint` | crash and replay | one order per decision and attempt |
| Decision journal (`execution/journal.py`) | an append-only file; `available`, `recovery_degraded` | `append`, recovery, `acknowledge_recovery`, `read_all` | torn writes, failed fsyncs, crash inside an append | what append answered TRUE for is remembered, or new risk is blocked |
| CCXT adapter (`exchange/live_execution.py`) | none between calls | `submit_order` with same-id retries, `cancel_order`, `fetch_order_status` | network errors after the venue accepted | never two venue orders for one id; never a guessed outcome |
| Live reconciler (`execution/live_reconciliation.py`) | none | `resolve_unknown_orders` | fetch, then resolve: the answer may be stale | every doubt ends, with the venue's answer |
| Private stream (`execution/private_stream.py`) | seen trade ids, readiness | `apply_order`, `apply_fill`, reconnecting supervisor | duplicated, reordered, late events | fills are credited once |
| Fill ledger (`execution/fill_ledger.py`) | append-only records | `record` | restart forgets what was seen | one record per trade |
| Kernel, evidence (`runtime/execution_kernel.py`, `execution/evidence.py`) | none | build a decision id, pass on | - | stable ids |
| Live trader (`runtime/live_trader.py`) | plan, parked entries, pending exits, read failures, halt latch | bar, tick stop, entry, exit, reconcile orders, reconcile positions | results of the spine arrive out of order; what was looked at before an account read is used after it | no doubt out of sight; entries only when allowed; every trade ends; a position has a plan or a halt |
| Paper session (`runtime/live_paper.py`) | the same, a resting maker entry, funding keys, store halt | tick, bar, exit, entry, reconcile, persist, restart | position, plan, balance and keys come back from two files | one trade at a time; a resumable snapshot; no false alarm; funding charged once |
| Risk gateway, kill switch, protections (`risk/`) | kill latch, cool-downs | verdicts | stale snapshots | fail closed |
| Paper venue and reconciler (`paper/`) | book, positions, cash | submit, fill, cancel, funding; reconcile | scripted lost answers; an empty book after a restart | it agrees with the manager |
| Maker/taker (`execution/maker_taker_executor.py`) | per-plan result | maker, cancel, taker | a fill between cancel and taker | total never above the plan |
| Exits, triggers, arbiter (`execution/exit_engine.py`, `trigger_engine.py`, `signal_arbiter.py`, `runtime/active_exit.py`) | levels, latches | per bar or tick | little | - |
| Stream integrity (`data/gaps.py`) | active gaps, recovery phase | message, stale check, backfill, recover | gaps that open during recovery | entries blocked until continuity is proven |
| Feeds, recorder, leases (`exchange/`) | caches, files, locks | websocket loops | two writers | one writer per lake |
| Agent gateway (`agent_gateway/`) | job files | create, claim, update | two workers, crash while running | a job runs once |
| Runtimes, research, dashboard, ML | - | orchestration, reporting, numerics | - | out of scope, see section 8 |

How they interact. A runtime (live trader, paper, multi-lane) awaits
`OrderManager.submit`; the manager appends to the journal, registers the decision,
awaits the adapter, and moves the `ManagedOrder`. While it awaits, the private
stream's tasks call `apply_venue_order_update` and `apply_venue_fill_update` on the
same objects. The runtime's reconciler later calls `begin_reconciliation`, awaits
`fetch_order_status` and calls `resolve_order`. After a crash the next process rebuilds
registry and orders from the journal file alone; the paper lane also restores its account
snapshot, its plan and its kill switch. `PROJECT.json` lists the places
where this can go wrong, each at its line, under "hazards".

## 2. Modules

| Module | What it models |
|---|---|
| `OrderStates` | the whitelist and the staging of stream events through it; no variables |
| `OrderSpine` | manager, registry, journal (as its replay sees it), adapter, reconciler, private stream, network, venue, crash and replay |
| `DecisionOnce` | the abstract promise: at most one attempt of a decision is at work |
| `TradeCycle` | the abstract promise of a session: one trade after another, and no entry in doubt beside one |
| `JournalFile` | the journal's file: lines, fragments, failed and torn appends, recovery, replay |
| `DurableLog` | the abstract promise of the journal: a log that destroys nothing, and a process that knows what is in it |
| `MCOrderSpine` | the symmetry set of the TLC instances |
| `OrderSpineProofs` | type correctness of `OrderSpine` and the write-ahead theorem |
| `OrderSpineOnceProofs` | one attempt at work, on top of `OrderSpineProofs` |
| `OrderSpineRefinementProofs` | `OrderSpine` implements `DecisionOnce`, on top of `OrderSpineOnceProofs` |
| `OrderSpineVenueProofs` | fills, terminal states and open orders are the venue's, on top of `OrderSpineOnceProofs` |
| `LiveTrader` | the live session's loop, above orders that move through the whitelist, a venue and an account |
| `PaperSession` | the paper session with its simulated venue, broker, reconciler, snapshot, kill switch and restart |
| `MCLiveTrader`, `MCPaperSession` | the symmetry sets of their instances |
| `LiveTraderProofs` | types, the four safety properties of the live session, and its inductive invariant `SessionInv` |
| `LiveTraderCycleProofs` | `LiveTrader` implements `TradeCycle`, on top of `LiveTraderProofs` |
| `PaperSessionProofs` | types, the four safety properties of the paper session, and that it implements `TradeCycle` |
| `JournalFileProofs` | type correctness of `JournalFile`, what may be lost silently and what not, and that it implements `DurableLog` |

### OrderSpine: how it corresponds to the code

*Atomicity.* All of it runs on one asyncio loop, so a step is a stretch of code
between two awaits. `SubmitSends` is everything `submit` does up to the adapter call:
duplicate guard, exits-only guards, gateway verdict (an input), minting, registration,
both write-ahead records. `SubmitReturns`, `SubmitRejected`, `SubmitTimesOut` and
`SubmitFaults` are the adapter's outcome together with the rest of `submit`;
`SubmitNetworkError` and `SubmitRetries` are the adapter's own awaits. `cancel_order` has
three stretches, reconciliation of one order has three. `IllegalTransition`, which the
code raises when the stream was faster, is a branch of the action where it bites.

*State.* `ost`, `filled`, `tradeSum`, `seen`, `registry`, `available` and `degraded`
are fields of the running process and die with it. `phase`, `attempt`, `canc` and
`recon` are its suspended coroutines. `wal` (kind of the last lifecycle record of an
order), `walIntent` (has an `order_intent` record) and `walKey` (order id of the
last intent record of a decision) are what a replay extracts from the file. `wire`,
`venue` and `vfilled` are the network and the venue; they are external and modelled
from how the code calls them.

*Journal.* An append has one of three outcomes: `ok`; `lost` (returned FALSE, not in
the file); `unsure` (returned FALSE because the fsync failed, but the record is in the
file). The last two latch `available`. That the file behaves like `wal` at all is
the subject of `JournalFile`.

*Fills.* `intent.quantity` is `Qty` units; each venue trade is one unit. The trade
channel adds, the order channel, polls and reconciliation take the maximum.

*Left to the environment.* The gateway's verdict (the action may or may not be taken),
what the venue does with an order, which stream events arrive, and when the process dies.

### JournalFile

Lines are numbered records or `Malformed`; `frag` is what follows the last newline.
An append writes a whole line, fails anywhere (`AppendFails`), or the process dies
anywhere in it (`Dies`). `Starts` is `_recover_valid_prefix`, which validates only the
final line, then `_resume_chain_from_tail`, which may raise, then the replay, which
yields nothing if any line is malformed.

A constructor may also stop anywhere: the process dies in it (`DiesStarting`), or an
`OSError` leaves it with an unavailable journal (`StartsUnavailable`). `StartStops` is how far
it has come: nothing done, the recovery done, or a quarantine cut short
(`QuarantineStops`). The code moves the file away (`journal.py:248`) and only then writes its
valid prefix under the old name (249-258, no temporary file, one fsync at the end), so what a
stop in between leaves is no file, an empty one, or the first lines and perhaps a piece of the
next. `abandoned` is a history variable, the records of the originals whose rewrite did not
end. `QuarantineMayStop` says whether this can happen.

### LiveTrader

*The loop.* `LiveTraderSession.run` is one coroutine; `loop.at` names the await it stands
in, and `loop` also holds its local variables there: whether a tick or a bar brought it
(`turn`), the order it is about, the size an exit read (`want`), and the orders a
reconciliation pass has yet to fetch and has resolved (`todo`, `answered`). A step goes
from one await to the next, with everything the code does in between: the end of
`_submit_exit` includes the entry gate of a bar or the first stretch of `_reconcile`
(`AfterExit`), the end of a pass includes the loop over the resolved ids and the check
that the session is settled (`Resolving`). Between two steps the private stream, the
venue and other users of the account move.

*State.* `track.plan` is `_plan`, `track.parked` is `_parked_entries`, `track.pending` is
`_pending_exit_orders` by reason (a tick stop and a bar's exit have different keys),
`decided` is the registry entry of this bar's tick stop, `halt` and `fails` are
`_reconciliation_halt` and `_recon_read_failures`. `ost` is the manager's state of an order,
moved by the session's steps and by the stream through `OrderStates`; what `OrderSpine`
says of it in full appears here only as what the session can see: an order's state when
`submit` ends, or an exception out of it (`SubmitRaises`). `venue`, `left`, `pos` and
`elsewhere` (another symbol of a shared account) are external.

*Abstractions.* One side; a position is a number of units. The signals, hygiene gates,
sizing, the stream's readiness, the ledger latch and the gateway's prices are one
nondeterministic refusal (`EntryRefused`, or the bar that does not enter), except for the
gateway's count of positions and exposure cap. `Retire` is a device of the model: an order
that is over gives its id back, so that trades can follow one another for ever; where the
session still holds the id, `PastOrder` stands for it.

### PaperSession

*The loop.* The exchange of `LivePaperSession` runs inside it, so nobody moves an order
between two awaits; `loop.at` names the next stretch of the loop (tick: `quote`, `exit`,
`exitSubmit`, `persist`; bar: `exit` to `persist`), because a crash may come between any
two. `EntryFills`, `EntryRests`, `FillExit`, `QuoteMoves` and `VenueCancel` are the simulated venue;
`ExitRejected`, `ExitTimesOut`, `EntryRejected` and `EntryTimesOut` are the broker's script
("reject", "timeout_reached", "timeout_lost"). `Reconcile` is `PaperReconciler.run`, its
comparison and the session's loop over the ids it resolved, in one step, as in the code.

*What survives.* `last` is what the journal's last lifecycle record of an order lets a
replay rebuild, `journaled` are the `funding_applied` records, `snap` is the account
snapshot, `killed` the kill switch with its KILL file. `CrashAndRestart` is the process's
death and the whole construction of the next one: `_seed_orders_from_journal`, the funding
keys, `restore_into`, `restore_plan` (which may refuse), and a venue that knows no order.

*The funding record.* `_apply_settled_funding` charges the book, then appends the record and
does not look at what `append` answers (`live_paper.py:3545`). `SettledFunding` lets the append
fail for any of the prints it charges: the journal is latched (`journalUp`, which
`SendEntry` needs), the charge and its key stay in the process, and the record may be lost
or may be in the file after all.

*Abstractions.* One unit per entry, an exit closes the position. `Fresh` and `Held`
reuse the id of an order that is over and that nobody holds, so that two ids per kind are
enough for any number of trades. `consumed` and `unrecorded` are history variables, each for
one property. Of the journal's appends only the funding record's may fail here; those of an
order's records always succeed, and what their failures do is the subject of `OrderSpine`.

### DecisionOnce

Attempts are unused, pending, live or ended; a decision is tried again only when no
attempt of it is pending or live. `OrderSpine` implements it under the mapping at the
end of that module: an attempt is *live* when it is open at the venue, *pending* when a
request for it may still land there.

### TradeCycle

A session's life is `Enter`, `Learn`, `End`, with `Halt` and `Resume` beside them, and
`Restart`. Both sessions implement it, under the mappings at the end of their modules:
*trade* is the plan, *attempt* are the entries of unknown fate, *halted* is the live
session's `_reconciliation_halt`, or the paper session's kill switch and store halt. An
entry's fate is unknown from the submit call on, while the manager holds it as unresolved,
while it rests (paper), and while a reconciliation pass is about to answer for it
(live), even when the stream already knows: between the answer and the end of the pass the
session has not acted on it. The live session is one process; the paper session restarts, and what
a restart brings back is a trade or an entry in doubt, never a second of either. What is not
promised is that `Learn` opens a trade whenever the entry has filled: section 7 (4) is
about an entry whose fill the session never learns of as a trade.

### DurableLog

What `OrderSpine` takes for granted of its journal when it speaks of the last record of an
order. The mapping at the end of `JournalFile`: *kept* are the records a replay of the file would
read, a complete record without its newline included; *known* is the memory of the running process;
*mode* is down, open, degraded or latched; *aside* is `abandoned`. A start may fail, or go on
latched with a journal that could not be opened and was perhaps not read (`StartFails`); a
recovery may stop midway (`RecoveryStops`), which is the only step that takes a record
out of *kept*. `OrderSpine` takes the journal's file as given: it is above a `DurableLog` whose
recovery does not stop, and its restarts do not include a process with an unreadable journal,
which sends no entries but whose duplicate guard is empty. `NoOrderForgotten` is to be read
with that in mind.

## 3. Runs

| Run | Instance | What it shows |
|---|---|---|
| `spine` | two decisions (entry, reduce-only exit), two order ids (symmetric), quantity 1, two adapter attempts, one operation in flight, all append outcomes, crashes; about 800 000 states | `TypeOK`; `JournaledBeforeVenue` (write-ahead); `OneExposedAttempt` (never two attempts at work); `NoOrderForgotten`; `NoNewRiskWhileInDoubt`; `ImplementsDecisionOnce` (refinement) |
| `spine_fills` | one order of three trades, two operations in flight, unsure cancels, crashes, fairness; 27 000 states | `TerminalMatchesVenue` (a terminal state is the venue's); `OpenFillsAreVenueFills` (no fill of an open order is credited twice); `DoubtIsResolved` (liveness) |
| `spine_unsure_cancel` | as `spine`, two entries, unsure cancels | `NoNewRiskWhileInDoubt` is violated, see section 7 |
| `spine_redelivery` | one order of two trades | `FillsAreIdempotent` is violated, see section 7 |
| `journal` | six records, a failed journal stays unwritable, a quarantine may be cut short; 96 000 states | `JournalTypeOK`; `OnlyACutQuarantineLoses`; `ImplementsDurableLog` (refinement) |
| `journal_resumes` | the file may become writable again, no quarantine is cut short | `NoSilentLoss` is violated, see section 7 |
| `journal_quarantine` | as `journal` | `NoSilentLoss` is violated, see section 7 |
| `live_trader` | one entry, two exits (symmetric), three failing reads to a halt, a shared account; 890 000 states | `TypeOK`; `DoubtIsTracked`; `EntriesOnlyWhenAllowed`; `HaltLiftedOnlyWhenSettled`; `OrdersFollowTheTable`; `ImplementsTradeCycle` (refinement) |
| `live_trader_live` | one entry, one exit, one failing read to a halt, fairness | `EveryTradeEnds`; `UntrackedPositionHalts`; `HaltIsNotPermanent` |
| `live_trader_parked` | the same | `MismatchFailsClosed` is violated, see section 7 |
| `paper_session` | two entries and two exits (symmetric), two bars to live, one funding print whose record may fail, two crashes; 2 600 000 states | `TypeOK`; `OneTradeAtATime`; `SnapshotCanBeResumed`; `ManagerAgreesWithVenue`; `FundingAtMostOnce`; `ImplementsTradeCycle` (refinement) |
| `paper_funding` | one entry, one exit, one print, one crash | `ConsumedWhileFlatIsNeverCharged` is violated, see section 7 |

Why the bounds are enough. Two ids are what a second attempt of one decision, or an
entry beside a doubtful order, needs; the properties relate at most two orders. Two
adapter attempts give the retry, its duplicate-id answer, and the last attempt's timeout.
Three trades and two concurrent operations are needed for a partial fill seen by one
channel, a later one seen by the other, and a cancel or a fetch spanning both.
`MaxTradeSum` exceeds `Qty` in `spine_fills`, so that a double credit could happen. In
the journal's runs, a loss takes at most three records: one torn, one glued, one behind; one kept
record and one torn one are enough for a quarantine that is cut short. `DoubtIsResolved` is about one
order at a time; it was also checked with an entry and an exit in doubt together
(172 000 states), without a difference. In
`live_trader` the two exits are a tick stop and a bar's exit of one trade, in doubt
together; with one entry id the part of `TradeCycle` that keeps a second entry out is idle
there, and it is `paper_session`, with two, and the theorem for any number that show it. One unit per entry leaves out the partially filled order there; the safety
theorems hold for every `EntryQty`. `UntrackedPositionHalts`, which no theorem covers, was
also checked once with two units, in an instance too slow to keep: what the kept run shows of it
is the fill that overtakes the acknowledgement, not the entry that goes on filling under its exit. In
`paper_session` the second crash finds what the first left (a rebuilt order in doubt, a
snapshot kept by a failed write), and two ids of each kind are a resting or parked order
beside a new one.

The journal's runs switch the deadlock check off: once all record numbers are
used a running process has nothing left to append. The runs of `LiveTrader` do too: its loop
can really die, when `submit` raises around a tick (`loop.at = "dead"`). In the spine and
in the paper session a stop would be an error.

*Assumptions that are constants.* What the model takes for granted about the world
outside is a constant, so that it is visible. Under the other value of each of them some
property fails, but for the last, which only selects an instance:

- `LateLanding = FALSE`: once the adapter has stopped waiting for a create request, that
  request no longer reaches the venue. The code relies on it: after its pause it reads
  "not found" as "never arrived" (`exchange/live_execution.py:169-178`,
  `execution/live_reconciliation.py:42`).
- `DuplicatesFirst = TRUE`: a venue that already has the client id says so before it
  finds another fault with a retry. Otherwise a retry's `InsufficientFunds` books
  REJECTED for an open order (`exchange/live_execution.py:161`).
- `UnsureCancels = FALSE` in `spine`: the venue answers a cancel
  with an order that is done. `spine_unsure_cancel` shows what the other value does.
- `MakerAckLost = FALSE` in both paper runs: the answer to a maker order that came to rest is
  not lost. With `TRUE`, TLC refutes `OneTradeAtATime`: the order is adopted as the plan
  although it has not filled, the next exit finds a flat venue and drops the plan, and a
  second entry goes out beside the resting one (`runtime/live_paper.py:5170-5173`). Only
  a test's script of the broker loses answers, so this is an assumption and not a finding.
- `WritesResume = FALSE` in `journal`: the file does not become writable again under a process
  whose append failed. `journal_resumes` has the other value.
- `QuarantineMayStop = FALSE` in `journal_resumes` only, to separate the two ways of losing
  records; `journal` and `journal_quarantine` have the code's behaviour, `TRUE`.
- `MaxInFlight = 1` in `spine`: `LiveTraderSession.run` is one loop and
  awaits one manager operation at a time. `spine_fills` allows two.

## 4. Fairness

`FairSpec` assumes weak fairness of the adapter call and of the cancel call of each
order (every await returns or raises), strong fairness of beginning to reconcile each
unresolved order (`LiveTraderSession.run` calls `_reconcile` on every bar while
something is unresolved and on every five-second timeout; strong, because other
callers may occupy the loop in between), and strong fairness of the status fetch (a
request repeated for ever is answered once). Nothing is assumed of the venue's
matching, of the stream, or of new submits and cancels. `DoubtIsResolved` is conditional on the
process eventually not crashing any more. The reconciler's pass in table order, where an
order whose fetch always raises starves those behind it, is in `LiveTrader`, whose fairness
again assumes that repeated fetches succeed.

`LiveTrader` assumes weak fairness of the loop (a queue with a five-second timeout, and
every await in it ends), and strong fairness of what is tried again for ever and
succeeds now and then: a bar that decides to exit (once the holding cap is reached every
bar does), a read of the positions, an exit that is sent, accepted and executed by the
venue (a reduce-only market order), a status fetch, and the account read of a
settled session. Weak fairness of `Retire` for exits only says that the model has ids left.
Nothing is assumed of the private stream, of entries, of the venue's cancels, or of the
account's other users. `PaperSession` states no liveness: whether its broker ever answers
is a test's script, and a crash may always come.

## 5. Proofs

TLC checks the small instances above; the theorems hold for every value of the constants
that satisfies the module's assumption (`SpineAssumption`, `JournalAssumption`,
`LiveTraderAssumption`, `PaperSessionAssumption`: any sets of decisions, orders and prints,
positive quantities and limits, any bounds), and for the further hypothesis each one states.

| Theorem | Hypothesis | Says |
|---|---|---|
| `TypeCorrect` | none | `Spec => []TypeOK` |
| `WriteAhead` | none | `Spec => []JournaledBeforeVenue` |
| `OneAttemptAtWork` | `NetworkAssumption` | `Spec => []OneExposedAttempt` |
| `SpineImplementsDecisionOnce` | `NetworkAssumption` | `Spec => ImplementsDecisionOnce` |
| `OpenFillsAccounted` | `NetworkAssumption` | `Spec => []OpenFillsAreVenueFills` |
| `TerminalIsTrue` | `NetworkAssumption` | `Spec => []TerminalMatchesVenue` |
| `OpenOrdersRemembered` | `CancelAssumption` | `Spec => []NoOrderForgotten` |
| `EntriesWaitForDoubt` | `CancelAssumption` | `Spec => NoNewRiskWhileInDoubt` |
| `JournalTypeCorrect` | none | `Spec => []JournalTypeOK` |
| `OnlyAbandonedIsLost` | `~WritesResume` | `Spec => []OnlyACutQuarantineLoses` |
| `NothingLostSilently` | `~WritesResume /\ ~QuarantineMayStop` | `Spec => []NoSilentLoss` |
| `FileImplementsDurableLog` | `~WritesResume` | `Spec => ImplementsDurableLog` |
| `MemoryIsTheFile` | `~WritesResume` | `Spec => []Log!KnowsWhatIsKept` |
| `RecordsAreNotDestroyed` | `~WritesResume` | `Spec => Log!NothingIsDestroyed` |
| `RecordsStayKept` | `~WritesResume /\ ~QuarantineMayStop` | `Spec => Log!NothingKeptIsLost` |
| `LiveTypeCorrect` | none | `Spec => []TypeOK` of `LiveTrader` |
| `HaltLifted` | none | `Spec => HaltLiftedOnlyWhenSettled` |
| `EntriesAllowed` | none | `Spec => EntriesOnlyWhenAllowed` |
| `DoubtTracked` | none | `Spec => []DoubtIsTracked` |
| `TransitionsAreLegal` | none | `Spec => OrdersFollowTheTable` |
| `SessionImplementsTradeCycle` | none | `Spec => ImplementsTradeCycle` of `LiveTrader` |
| `OneEntryAtATime` | none | `Spec => []Cycle!OneAtATime` of `LiveTrader` |
| `PaperTypeCorrect` | none | `Spec => []TypeOK` of `PaperSession` |
| `FundingChargedOnce` | none | `Spec => []FundingAtMostOnce` |
| `NoFalseAlarm` | none | `Spec => []ManagerAgreesWithVenue` |
| `SnapshotResumable` | `~MakerAckLost` | `Spec => []SnapshotCanBeResumed` |
| `OneTrade` | `~MakerAckLost` | `Spec => OneTradeAtATime` |
| `PaperImplementsTradeCycle` | none | `Spec => ImplementsTradeCycle` of `PaperSession` |
| `PaperOneEntryAtATime` | none | `Spec => []Cycle!OneAtATime` of `PaperSession` |

`NetworkAssumption` is `~LateLanding /\ DuplicatesFirst`. It is needed: with either
constant the other way, a retry or a restart books REJECTED for an order that is or
comes to be open, and the decision may be tried again. `CancelAssumption` adds
`~UnsureCancels`: the venue denies a cancel only of an order that is over. Run
`spine_unsure_cancel` shows what happens without it.

*Write-ahead.* `JournaledBeforeVenue` is not inductive by itself: nothing in it keeps
an id from being on its way before it is minted for an entry.
`WalInv` adds `UnmintedUnknown` (an id nobody minted is not on its way). Only `SubmitSends` puts an order on its way, with both records durable
for an entry; every other step of one order is a `QuietStep`, which never takes a kind
back to `none` or `order_intent` and sends nothing.

*One attempt at work.* `OnceInv` has five parts. `UnmintedUntouched`: an id nobody minted
has left no trace anywhere.
`KnownToVenue`: an order that the manager, a cancel, a fill or a fetched status speaks of is at
the venue. `OverAtVenue`: an order that counts as cancelled or rejected, in
memory or in what a replay will read, is over. `DoubtCannotLand`: an order in doubt
either is at the venue or never will be; this is what lets the reconciler read "not
found" as a rejection, and where the assumption enters. `LatestAttempt`: an attempt that is
at work is the one its decision's registry entry and its replay point to. Lemma `WindsDown`
says that no step brings a minted order back to work, so only a new attempt can
break `LatestAttempt`, and `AdmittedMeansFree` says that the duplicate guard prevents it.
The refinement follows from the same invariant: `AdmittedMeansFree` is the guard of
`Try`, submission maps to `Try` or, inside a crash, `TryAndCrash`, the other steps
move one attempt forward, and a crash ends what has not reached the venue.

*What the venue has.* `FillInv` counts trades. The trades an order remembers are trades the
venue executed (`SeenAreTrades`), and while the order is not over their number is exactly its trade
sum (`Accounted`). A trade of an order that is not over is always applied and so remembered
(`TradeApplies`), which is where the code's rule "remember a trade only when it was applied"
is right; for an order that is over it is not, and section 7 has the double credit. The number of
remembered trades bounds the sum by what the venue executed. `TerminalInv` says how each source of a
terminal state knows it: a fetched answer that ends an order is final (`FetchIsFinal`),
because an order in doubt cannot land; a refusal on record is true (`RefusalIsTrue`), so a
replay may believe it; and a trade sum that reaches the quantity means that the venue's order
is closed (`FillInv` again). `MemoryInv` is about what a replay forgets: a journaled order that the
manager does not hold has a last record that settles it (`RecordsKept`), and a cancel on
record did cancel (`CancelIsTrue`). `EntriesWaitForDoubt` then follows from the guard
`~HasUnresolvedOrders` at the moment of sending.

*Journal.* `FileInv` adds to the types that the file holds no record not yet
numbered, because a restart puts what it finds there into memory. `LossInv` says, for a
journal that stays unwritable once it failed, that no line is malformed, that what was
promised is in the file or `abandoned`, and that a running process whose journal is available has
no fragment before it and holds in memory what was promised and is not abandoned.
Without the hypothesis it is false: run `journal_resumes`. From it follows
`OnlyACutQuarantineLoses`, and `NoSilentLoss` only where no quarantine is cut short, because then
nothing is ever abandoned: run `journal_quarantine` shows that this hypothesis, which the code does not
secure, is needed.
`KeptInv` is what the refinement needs beside it: a running process whose journal is
available knows exactly what the file holds. `NoSilentLoss` is weaker, since a record whose append
failed may be in the file too, and a replay will read it. A quarantine that comes to its end keeps every
line before the malformed tail (`RecoveredKept`); one that is cut short leaves a prefix of them
and has abandoned them all (`QuarantineStopsKept`), which is `RecoveryStops`. A start could bring back
a record nobody knows of, and there the memory is the file.

*Live session.* `Typed` adds to the types where each location of the loop has its order
(`InPlace`) and that a working order has something left (`LeftToFill`). `Judged` says that
at `settle` and `diverge` the session is still settled: the stream cannot put an order in
doubt, because no transition of the whitelist it takes leads there, and only the
session's own steps touch the plan, the parked and the pending. `Admitted` says that at
`entryAccount` the gate still holds, for the same reason. For `DoubtIsTracked` the
invariant `Followed` adds that an entry in doubt excludes an open trade and any exit in
doubt, so that the end of a trade, which forgets the pending exits, cannot forget a doubt
that a later plan would need, and that an id the pass has resolved is no longer in doubt
(`AnsweredIsSettled`). `SessionInv` is their conjunction.
`TransitionsAreLegal` needs one more invariant, `InCall`: while the submit call is under way, the
order is where the manager put it or, if the venue has it, where the stream took it, so that
neither a rejection nor an acknowledgement can find it in a state the table does not let it
leave. Lemma `StreamFollowsTable` is about the staging of stream events alone: whatever state
an event reports, it moves an order along the table.

*Trade cycle.* Every step of a session leaves the entries attempted as they are, with the
trade kept or ended, or settles the one there is (in the live session `Settles`, from which a
step of `TradeCycle` follows by `SettlesIsStep`). That there is at most one is the invariant
`EntryAlone` of each session. In the live one it also says that none is beside a trade, and
is a part of `SessionInv`, whose other parts say why an entry that a pass has answered for
can open a trade at its end without another having opened since. In the paper one it also
covers the journal that a restart reads, and a plan may come back beside an entry in doubt,
which is why `OneAtATime` claims the second half only of a process that never restarts;
`MakerAckLost` plays no role, because an entry that is adopted too early was still the only
one. For the paper session the refinement says less than for the live one: `Restart` of
`TradeCycle` is allowed at any time and absorbs every step that only ends a trade or
an attempt, so what is left to check is that an entry is sent only with nothing open or in doubt,
and that a restart resurrects no entry that had been settled.
`OneTradeAtATime` is the stronger statement about the venue, and it holds under `~MakerAckLost`.

*Paper session.* `FundingAccounted`: a print that is not `unrecorded` is charged at most once, and a
charge of it in the balance or in the snapshot has its record and its key. A record without a
charge is possible: a crash between the record and the snapshot loses the charge. A charge without a
record is possible too, when the append fails, and such a print is charged again after a restart;
`FundingAtMostOnce` excepts it, and section 7 has the line. `Agreed`: what the manager holds is what the venue says, an order
about to be sent is unknown to it (`NotSentYet`), and every order whose state a restart
rebuilds is in doubt or rejected, which an empty venue cannot contradict. `Clear`, under
`~MakerAckLost`: whatever rests is the entry the session follows (`RestingIsFollowed`), what
is parked or pending is in doubt (`ParkedInDoubt`), submission is alone (`SubmitAlone`), an
exit that is over leaves a flat venue (`ExitSettled`), and a position is covered by a plan,
a filled resting entry or a doubt, or the switch is tripped (`Covered`).

*Only model-checked.* The liveness properties: liveness under fairness and `ENABLED` are out
of the prover's reach, as are induction over data and RECURSIVE operators, of which the modules
have none. The safety properties of the passing runs are all proved.

## 6. Plan

Done, in this order: the order spine and its promise, the journal's file, their theorems;
the live session with the reconciler's whole pass; the paper session with its venue,
reconciler, snapshot and kill switch; their theorems; the abstract specifications of a
session and of the journal, and the proofs that the detailed ones implement them. Left, by
what it would add:

1. `CancelReplace` and the maker/taker executor: quantities across a fill that arrives between
   the cancel and the replacement. No runtime constructs the executor today.
2. The fill ledger: a chain that forks after a failed fsync, a fill that is recorded
   twice or never.
3. `StreamIntegrity` (`data/gaps.py`) and the agent gateway's job ledger.
4. Partially filled entries in the live session's liveness, in an instance that is fast enough.
5. A restart of the spine whose journal cannot be opened, or was cut short by its recovery
   (`StartFails` and `RecoveryStops` of `DurableLog`).
6. Failing appends of order records in the paper session.

## 7. What the code says and does not do

1. `spine_unsure_cancel`. `cancel_order` parks an order whose cancel was answered with
   neither cancelled, filled nor partially filled as TIMEOUT_UNKNOWN, and then appends
   `order_cancel` (`order_manager.py:551-558`). A replay does not count that kind as
   unresolved, so a restart forgets the doubt; the comment at `order_manager.py:93-95`
   promises the opposite. Trace: submit, accept, acknowledge, cancel, unknown, record,
   restart, new entry.
2. `spine_redelivery`. "Apply one private trade/fill event idempotently"
   (`order_manager.py:864`): a trade that arrives after its order is terminal is added to
   the order before the update is refused, and is then not remembered as seen
   (`private_stream.py:181`); delivered again, it is added again.
3. `journal_resumes`. `append` goes on writing after a failure. If the failed write
   left a fragment and a later one succeeds, they share a line; one more record and the
   malformed line is in the interior, where recovery does not look and the replay
   gives up entirely, with a warning, on a journal that is neither unavailable nor degraded.
   `journal.py:184-187` says that discarding the replay silently is what recovery prevents.
4. `live_trader_parked`. "Fail-closed rule on any mismatch: 1. Stop opening new positions"
   (`DESIGN.md:71`). A parked entry is popped only when the reconciler returns its id, and
   the reconciler returns only orders that it finds unresolved and resolves in a pass that
   ends well (`live_reconciliation.py:37-75`). Trace: an entry times out and is parked, the
   private stream reports it filled, the reconciler finds nothing to do; the entry stays
   parked for ever, `_reconcile_positions` returns at `live_trader.py:957` from then on, the
   position has no plan and no exit, and entries are not halted.
5. `paper_funding`. "flat books consume them without a cash movement so a later entry cannot
   be charged retroactively" (`live_paper.py:3520-3522`). A flat book consumes a print in
   memory only (`live_paper.py:3541-3544`), a restart rebuilds the keys from the
   `funding_applied` records (`live_paper.py:477-488`), and the feed still returns the print.
   Trace: the print is consumed, a position is opened and its snapshot written, the
   process restarts, the print is charged.
6. `journal_quarantine`. The quarantine moves the journal away before its valid prefix is
   written anew under its name (`journal.py:248-258`). Trace: an append returns TRUE; the process
   dies in the next one and leaves a fragment; the next process dies in the quarantine, with the
   new file still empty; the one after that finds an empty file, returns from the recovery at
   `journal.py:189-190`, and is available, not degraded, and without the record, which is only
   in the quarantined file. `journal.py:184-187` is the same promise as in 3.

One more behaviour has no run of its own, because no document speaks of it and
`FundingAtMostOnce` names it as its exception: `_apply_settled_funding` ignores `append`'s answer
(`live_paper.py:3545`). When the append fails, the charge reaches the snapshot without a
record, and a restart, which rebuilds the keys from records, charges the print again.

## 8. Not modelled

Research, backtests, strategies, machine learning, dashboards, monitoring and settings
are numeric, offline, or views: nothing in them interleaves, fails or recovers in a way
a model checker would add to their tests. The hash chain of the journal, time stamps,
evidence payloads, prices, fees and the formatting of records are abstracted away: no
transition of the spine depends on their values (the gateway's verdict, which does, is
an input).

- `cancel_replace`'s quantity arithmetic, the Delta adapter's error mapping and the stream
  supervisor's readiness and backoff.
- Of the live session: partial take-profits, `emergency_flatten`, the ledger sweep, the
  orphan flag, a position on the wrong side, and its restart (`live_trader_main.py` builds
  it anew; what it finds at the venue it meets as a position without a plan).
- Of the paper session: scanner and shadow lanes, the daily flattening of the factory,
  partial take-profits, the lane fault's exit, partially filled IOC orders, an order record that
  cannot be written (`OrderSpine` and `JournalFile` have it; the funding record that cannot be
  written is modelled), a corrupt snapshot, a KILL
  file that cannot be written. The multi-lane runtime around it is orchestration and reporting.
- The fill ledger: nothing in an order's life reads it, and a session sees it as one more
  reason not to enter. The maker/taker executor: only its tests construct one.
  `data/gaps.py`: likewise a refused entry. The agent gateway's jobs: one worker by
  deployment, and nothing promises what two would need. Their hazards are listed in
  `PROJECT.json` with the reason no property covers them.
- The market-data recorder, feeds and leases: websocket and file I/O.
