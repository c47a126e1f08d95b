# A TLA+ model of Yatagarasu

Yatagarasu carries messages into live agent sessions and proves what became of
them. A **delivery** climbs a ladder (`queued -> dispatching ->
transport-submitted -> in-session -> processed`, without `in-session` where the
recipient is on a chat platform), and every rung past `dispatching` is paid for
by a **receipt** that carries evidence. This directory models the parts of the
system that have state and that several processes touch, checks them with TLC
and proves their safety properties with TLAPS for every value of the constants.

## Inventory

| Component | State | Operations | Interacts with |
| --- | --- | --- | --- |
| `core/receipts.py` reducer | none of its own; what one call of `submit` holds in memory | `submit` | reads and writes the store; called by every provider |
| `core/store.py` | SQLite: deliveries, receipts, audit log, bindings, providers, principals, platform messages, rooms, broadcasts | one method per operation, most of them one transaction | shared by all processes that open the file |
| `core/proofs.py` | signing key | mint, validate, `validate_session_proof` | injector mints, reducer validates |
| `core/broadcasts.py` | rows in the store | `broadcast`, `result` | store |
| `cmux/injector.py` | none; one call of `deliver` | `deliver` | host pane, host event bus, journal |
| `cmux/journal.py` | SQLite: one row per delivery | `prepare`, `settle`, `unsettled` | injector's callers, recovery |
| `cmux/resident.py` | one connection and its replay accounting | `run` | host daemon, outbox, receipt producer |
| `cmux/event_outbox.py` | SQLite: cursor, outbox, baselines, audit | `commit_event`, `record_resnapshot`, `record_reconnect_replay` | resident |
| `cmux/receipt_producer.py`, `receipt_emitter.py` | chains of events per workspace and session, in memory | `recover`, `observe` | resident calls it, it submits receipts |
| `cmux/receipt_translation.py` | none | `submit_ack_receipt` | from the injector's answer to a receipt; no caller in production yet |
| `cmux/notifications.py` | SQLite: one row per delivery announced, and the host's banners | `publish`, `on_receipt`, `on_notification_read`, `expire` | host, by RPC |
| `cmux/marker.py`, `harness_profiles.py`, `socket_*`, `runtime.py`, `__main__.py` | none | encoding, key tables, I/O, discovery | - |

What is hard here, and what makes each part correct:

* **Reducer and store.** `submit` validates with reads that no transaction covers
  and commits later; any number of processes do so at once and may die. A
  delivery must climb one rung at a time, by evidence that counts once, and the
  audit log must explain the state whoever won.
* **Bindings.** Registration, supersession and revocation race with each other
  and with receipts. A recipient must have at most one active binding.
* **Injection.** The effect on a pane cannot be undone and cannot be seen
  directly: an answer is a guess from events inside a window. One message must
  never become two turns, and "submitted" must be true.
* **Event stream.** The daemon forgets, restarts, renumbers and repeats; the
  resident crashes between observing and committing. Evidence must be durable
  before the cursor passes it and skipped events must lead to a snapshot.
* **Broadcasts.** A fan-out reads roster and bindings and writes some statements
  later, while both change. It must freeze one moment, its rollup must not
  overclaim, and an absent seat must stay visible.
* **Receipts from events.** Events name a workspace and a session, not a
  delivery; the host repeats them, interleaves workspaces and omits the Stop of
  an interrupted turn; the chains are in memory. A receipt must be about the
  turn that the delivery caused, and stay the same when it is sent again.
* **The seam.** The injector's acknowledgement and the emitter's receipts reach
  core from two processes in any order. Core must follow the turn.
* **Notifications.** Statements and RPCs of several processes alternate; a create
  may be performed after its caller gave up. Retries must find the banner that
  is there, and no banner should outlive its row.

## Modules

| Module | Models |
| --- | --- |
| `SessionProofs` | `proofs.py` as predicates; a signature is the tuple of key and signed fields |
| `CoreStore` | the store's tables as variables, one action per transaction |
| `ReceiptReducer` | `submit` by several reducers over `CoreStore`; all properties of the core |
| `DeliveryLadder` | the abstract specification: what the core promises about a delivery |
| `Injection` | `Injector.deliver` and `InjectionJournal` by several workers, with the host's pane |
| `EventStream` | `EventStreamResident.run`, `EventOutbox` and the host's daemon |
| `Broadcasts` | `BroadcastKernel` and the rosters, over `ReceiptReducer` and `CoreStore`, with SQLite's write lock |
| `ReceiptEmitter` | producer and emitter, the resident that feeds them and the host's turns |
| `SessionSeam` | `ReceiptEmitter` composed with core's ladder and the injector's `submit_ack` |
| `Notifications` | `NotificationLifecycle` by several processes, with the host's banners |
| `ReceiptReducerProofs`, `BroadcastsProofs`, `ReceiptEmitterProofs`, `TurnReportProofs`, `SessionSeamProofs`, `InjectionProofs`, `EventStreamProofs`, `NotificationsProofs` | inductive invariants and TLAPS proofs; `ReceiptEmitter` has two, the second about turns that are reported |
| `MCReceiptReducer`, `MCBroadcasts`, `MCSessionSeam`, `MCNotifications`, `MCInjection`, `MCEventStream` | the instances for TLC |

**ReceiptReducer.** A call of `submit` is split where another connection can
commit: `Submit` (duplicate lookup), `ReadDelivery`, `Validate`, `Commit`
(`accept_receipt`, one transaction) and `RecoverIntegrityCollision`. `Validate`
is one step because all it reads but one binding row is append-only, so a
positive answer stays true. `ledger` is the receipts table and the audit log,
whose rows are inserted together. Columns that never change are constant
functions of the key. `supersede_session_binding` is split in the same way, its
check being outside its transaction. Refusal reasons are kept only where
behaviour depends on them; `receipt_rejections` is a log that nothing reads.
What `submit` asks of a receipt is split into what stays true once it is so
(`Authenticates`, for session evidence `SessionReceiptAuthentic`) and what may
cease to be (`SessionReceiptCurrent`: the binding is active, the chain is open).
The INSERT fails on each constraint of the table that a receipt can violate: the
two UNIQUE ones and `NOT NULL` on the binding. `Blank` is the empty string, which
Python takes for false and SQLite for a value (`Given`).

**Injection.** A worker calls `deliver` with the journal's `prepare` as
`on_effect_pending`, as the acceptance test does, and settles with the answer.
The transport may raise before or after its effect, and a call that succeeds may
have no effect (a stale surface). The submit keys are one step: an error between
two keys is an error before or after the effect. The observer is not part of the
repository: its iterator yields an event of the bus, ends or raises (`Observed`),
and `_await_proof` adds neither a deadline nor a handler to it. An exception that
leaves `deliver` is the answer "raised". The host may report input and take the
queued text at any later time or never. `settle` is split between its read and
its transaction. The callers, the host and crashes are marked external.

**EventStream.** An event is `<<boot, seq>>`. The daemon keeps the last `Retain`
events of its boot, replays after the number it is given (it is not given a
boot), declares a gap when it does not have that position, and may repeat the
event at the cursor. `observed` is what `observe()` has made durable downstream,
`producer` the memory that `recover()` rebuilds. Heartbeats and the
`reconnect_replay` log are left out.

**Broadcasts.** The kernel's transaction is three steps (`Begin`, `Expand`,
`Insert`) so that other processes can try to write in between; `lock` names the
connection whose write transaction is open, and a writer that finds it taken
waits. The kernel's process has one connection, on which it also calls the
store. `StoreRefusal` is `set_dispatching` or `revoke_session_binding` raising
after an UPDATE that changed nothing: the transaction stays open (`store.py:356`),
and the next `BEGIN IMMEDIATE` on that connection fails and rolls it back.
`result` has no state and is the predicates `AllDelivered` and
`UnavailableReason`.

**ReceiptEmitter.** `Observed` is the whole of `observe`: the collapse of relays
(`Collapsed`) and the four handlers of the emitter. The host runs one turn at a
time in a workspace, reports a hook also in its received phase, and gives no Stop
for a turn that is interrupted. It may relay any callback of a turn until the
turn is over, and its Stop at any time after that, also when the next turn has
begun: nothing in the source bounds how late. That a prompt or its hook is not
relayed after its turn is an assumption about the host. `Start` is the replay of
`recover`, one step because core takes a receipt it has for a duplicate.
`steady` is what a producer would remember that saw each event once.

**SessionSeam.** Each step of `ReceiptEmitter` that sends receipts reduces them
(`Reduced`) before it ends, as `core_client` does. `Reduced` is the reducer for a
delivery that is dispatching, which is what `DeliveryLadder` keeps of it; the
proof is judged by the operators of `SessionProofs`. The checks against the
binding (`receipts.py:184-208`: active, in its window, of this provider and
session, with a registered proof method) are assumed to pass; `ReceiptReducer` has
them. One that refuses leaves core as it is, so the safety properties lose
nothing, while `TurnIsProcessed` and `RestartHeals` are about bindings that keep
passing. A rejection leaves nothing behind, so that the same receipt sent
again is judged again. The receipts of one step, of which a replay has many,
are reduced in the order of their events by `ReducedAll`. `SubmitAck` comes at
any time after the prompt is on the bus, and `acked` remembers whether the hook
was there before it.

A turn is *honest* when it is the injector's own, no other turn that has begun
quotes its marker, and the marker is in force at each of its events; it is
*whole* when it is also undisturbed (`WholeTurn`). Without the second, core may
take the chain of the other turn first; without the third, core refuses what is
reported. These are the turns that `TurnIsProcessed` and `RestartHeals` promise
something of. `CoreFollowsTurn` is about every delivery: one that core calls
processed has a turn that is over, or one that runs after a Stop from before its
prompt came again (`Preempted`).

**Notifications.** The database is in autocommit mode, so every statement and
every RPC is a step. `raced` and `overdue` are history: deliveries that two calls
worked on at once or for which a create came late, and seats to which a publish
died before its evictions. `on_receipt` and `on_notification_read` are one action,
both retiring a delivery as dismissed.

Definitions named as mutants in a comment are faulty variants of the definition
that follows; no specification uses them. They show that each property can fail.

## Runs

| Run | Shows | States |
| --- | --- | --- |
| `receipt_session` | two reducers, two turns in one session, one hook relayed twice, one Stop claimed for both deliveries, submit_acks with an empty source id; refinement of `DeliveryLadder` | 250 000 |
| `receipt_suspects` | receipts one field away from honest, session-bound and channel-native, in any order with honest ones: none advances a delivery, and every accepted receipt would be accepted for the same outcome if judged again (`LedgerIsAuditable`) | 1 450 000 |
| `broadcast` | one broadcast to a room of two seats, one of which changes its session; rosters, all binding operations, refusals, crashes, a receipt for the absent seat | 1 004 000 |
| `session_seam` | three turns in two workspaces, two of them begun, a relay at any time, two faults, `submit_ack` early, late or never; whole turns are reported and processed under fairness | 461 000 |
| `notifications` | two processes, two deliveries of one seat with a cap of one, a fault, late creates, expiry | 4 040 000 |
| `injection` | three workers, one delivery, crashes, redelivery, reconciliation, an observer that may raise; one turn, true claims, and their evidence kept | 57 000 |
| `stream` | order, evidence before cursor, memory, gaps, three faults; the resident ends up at the daemon's latest event | 691 000 |

Five runs are expected to be violated: each states a sentence of the repository
that an interleaving refutes (PROJECT.json, `findings`, has the quotations).

* `stale_binding`: a binding revoked between validation and commit still advances
  the delivery.
* `true_negative`: `not_submitted` although the text lands later.
* `journal_race`: two settles downgrade `injected` to `ambiguous`.
* `gap_crash`: a crash between a gap's replay and its snapshot loses the snapshot.
* `interrupted_turn`: a turn ends without a Stop, and the Stop of the next turn
  that the user types completes its delivery.

Other behaviour that the models show and that the properties are stated around:

* The Stop of a finished turn that is relayed when the next turn of the workspace
  is running completes that one's delivery, and the turn's own Stop is then taken
  for a relay: each input makes the producer forget what it has seen
  (`receipt_producer.py:111`), and `receipt_emitter.py:130` looks at workspace and
  session only, while line 32 says that a correlated Stop proves completion.
  `CompletionIsOwnTurn` and `CoreFollowsTurn` name this exception (`LateStop`).
* The `JournalError` of a redelivery, or an error of the observer after the text
  was sent, leaves `deliver` (`Raise`), although `injector.py:109-110` promises a
  verdict and never an exception. A call whose observer neither yields nor stops
  does not end.
* Two collisions are answered `storage_integrity_error`, although nothing is wrong
  with the storage: a `submit_ack` whose source id is the empty string a second
  time (`receipts.py:133` does not look for the first), and one for the delivery
  of an absent seat, whose NULL binding passes the key check and fails the INSERT.
  `CollisionIsExplained` says that there is no third.
* A race of two settles may also lose events that the first one stored; what
  cannot be lost is the evidence of a claim that stands (`ClaimHasEvidence`).
* A relay of a prompt that arrives after the next input of its workspace opens a
  chain of its own: the collapse of `receipt_producer.py:89` begins anew with each
  input. `UndisturbedTurnIsReported` is about turns that nothing disturbs.
* A second injection into a workspace between the first one's input and its hook
  replaces the pending chain, and the first turn is not reported.
* Two turns of one workspace that quote the same marker, as when the user sends
  a prompt of the history again, are told apart by nothing on the bus: the second
  is taken for a relay of the first, and a chain may hold the prompt of one and
  the hook of the other (`SameQuote` in `EntryIsOwnTurn` and
  `CompletionIsOwnTurn`). The delivery reported is the one both quote.
* Two providers that relay one bus may each report a hook of one turn; the
  UNIQUE constraint is per provider. `EvidenceIsNotShared` is about marked
  prompts whoever reports them, and about all later events of one provider.
* An entry that reaches core before the `submit_ack` is refused and, as
  `core_client` does not raise for it, sent again only by the next restart
  (`RestartHeals`). Its Stop is refused too, so until then a finished turn stays
  at `transport-submitted`.
* A delivery bound at acceptance to a binding that then retires can be submitted
  but never enter a session (`StrandedForGood`); `all_delivered` counts it.
* A `publish` whose row is retired between its claim and its create leaves a
  banner that nothing dismisses. Two publishers that both create leave a row that
  stays `prepared` until it expires if both look again only when both banners are
  there; if the first activates the row before the second creates, the row is
  active and the second banner is the orphan.
* A store call that is refused leaves its connection in a transaction; the next
  broadcast on it fails once.
* A binding revoked between the check and the UPDATE of
  `supersede_session_binding` ends as superseded, and a resubmission that races
  its own first submission is refused by the advanced state instead of being
  answered as a duplicate.

### Bounds

Two reducers or workers are enough for every race between a read and a write, as
each race is between one call and what commits meanwhile; two deliveries are
needed for evidence to be shared and two bindings for a supersession. Deliveries
share nothing in `Injection`, where one delivery has three workers: two that race
and one that recovers. The sets of
receipts hold for each rung an honest receipt and its rivals. In `EventStream`,
`Retain = 2` and `MaxSeq = 3` make a declared gap, a replay of several events and
an empty replay happen; `MaxFaults = 3` allows a daemon restart, a crash and a
repeated event in one run.

In `broadcast` one seat has two sessions, one of them not yet established at the
time of the broadcast, so that a seat is bound, absent, superseded and revoked;
a second broadcast would share no row with the first. In `session_seam` two
turns begin: every disturbance is one turn by another, in the same workspace or
in one with the same session id. Markers are in force before the ninth event,
so that a late Stop falls inside and the end of a long second turn outside. Its
two faults allow a crash after a repeated event and a crash of the run that
recovers from one. In `notifications` two processes, two deliveries and a cap of
one give a publisher racing a publisher, a receipt and an eviction; two banners
let one delivery have both.

Symmetry is over the reducers of `receipt_session` and the processes of
`notifications`, which no definition tells apart, and never in a run with a
liveness property.

### Fairness

The runs of safety properties need none. `stale_binding`, `true_negative` and
`journal_race` state weak fairness of the steps of a running call (`submit`, `deliver`,
`settle`), which are local reads, one transaction or a call that returns or
raises; for `deliver` this is the protocol of `BusObserver` that its observer
stops at a deadline. None of their counterexamples depends on it. No fairness is
assumed of starting a call, of the host, or of revocation. In `EventStream` the
supervisor's caller restarts a resident that is down and a resident reads what the daemon sends;
that a stream ends is only fair when its daemon is gone. `session_seam` assumes
the same of the resident (`Start`, `Observe`, `Commit`) and nothing of the host,
of turns ending or of the `submit_ack`. Faults are finitely many by their bound.

Deadlock is checked except in `EventStream` and `SessionSeam`, which may rest when
the host is silent, and in `Notifications`, where a create waits for ever when the
bound on banners is reached.

## Proofs

Every safety property of the runs but one is proved, for all values of the
constants, and so is the safety core of two liveness properties. Each proof has
the same shape: an inductive invariant that contains the property, one lemma per
action, and the theorem by `PTL`.

**ReceiptReducerProofs.** `IInv` is `TypeOK`, `LedgerSound` and the four
properties that need each other. A commit is right because the reducer's memory
is right (`ValidationCorrect`); that stays true under other reducers' steps
because rows keep their binding and never disappear, and the ledger only grows;
and the row validated is the row committed to because the UPDATE names the state
read. Then a new audit row starts where the last one ended (`AuditCorrect`), an
entry row can only be added below `in-session`, where there is none
(`EntryCorrect`), and the chain that a Stop closes is that of a row whose marker,
by `LedgerSound`, was minted for the same delivery and binding
(`CompletionCorrect`). `LadderImplemented` is the refinement: an accepted commit
is one `Climb`, everything else a queueing, a dispatch or a stutter.
`EvidenceCorrect` follows from `LedgerSound` and the UNIQUE columns.
`CollisionCorrect` has to know why a reducer is in recovery: its INSERT met a row
that is still there, or its receipt has no binding, and evidence other than a
`submit_ack` that came as far as the INSERT has both a binding and a source id.
`UnboundCorrect` is the other side of the same INSERT. `BindingsExclusive` from the
unique index on active bindings. `LedgerCorrect` is about every receipt
whatsoever: what `Validate` found authentic stays so while the reducer waits to
commit (`CommitsStand`) and after it has (`LedgerStands`), because everything
that `Authenticates` reads of the store is append-only or a key.

**BroadcastsProofs.** `BInv` carries the reducers' `IInv` through the kernel's
steps and adds what the kernel needs: while it expands a broadcast it holds the
write lock, so what it has read is what it would read (`KernelHolds`, hence
`SnapshotCorrect`); nothing is queued before the rows are there, and each row is
queued under the frozen binding; and a delivery past submission has its
`submit_ack` in the ledger (`SubmitRecorded`, hence `RollupCorrect`).
`AbsenceCorrect` and `StrandedCorrect` are action properties: retired bindings
never return, and only a receipt under the frozen binding moves a delivery.

**ReceiptEmitterProofs.** `ObservedTwice` is the core of it: an event observed
twice in a row leaves the memory as after the first time. So a repeated event,
and an observe whose commit was lost, change nothing, and the memory is always
that of a producer that saw each event of the bus once (`Whole`;
`ReplayCorrect`). That the recursion of `Replay` has the value one expects is
proved by least counterexamples (`AftersExists`, `AftersAgree`). `BusInv` is
then about the bus, the stages of the turns and `Whole` alone, and only the
host's steps change it: pending and active chains refer to events of the bus in
order; the collapse of relays holds the signature of the pending chain and of the
running turn; an active chain of one turn is of one that has not stopped, and the Stop of that
turn will not be collapsed (`StopAwaited`), both unless a Stop from before its
prompt came again after it (`LateOn`). Without
the last two a Stop of a later turn could close the chain of one that stopped
normally. That a relayed Stop was on the bus before (`StopsPrecede`) is what
makes it a late one wherever it meets a turn that is not its own
(`RelayedIsLate`), and a late one stays late (`LatePersists`). From
these follow `TypeCorrect`, `IdsStable`, `EntryCorrect`, `CompletionCorrect` and
`WireCorrect`.

**TurnReportProofs.** When a turn is reported depends on what the producer
remembers at each of its stages. As long as everything in its workspace since
its input is its own (`Clear`), that memory is known exactly (`Followed`): after
the input an empty chain and the first input pending; after the prompt the first
prompt beside it and its signature collapsed; after the hook an active chain of
the first event of each kind, which is the only one reported of the turn. Relays
and events of other workspaces leave each of these as it is (`RelayStep`,
`ElsewhereStep`). The Stop then closes that chain, and nothing takes the report
back or adds another (`Closed`, `ClosedPersists`). So `ReportCorrect`: whenever
all events are in the outbox, every undisturbed turn is reported with its first
events. `UndisturbedTurnIsReported` is that and the resident's progress.

**SessionSeamProofs.** The composition implements `ReceiptEmitter`
(`SeamImplementsEmitter`), so these hold beside core and the injector too
(`SeamReceiptsCorrect`). `ReducedAll` is a recursive function; that it satisfies
its recursion, and what it keeps, is proved by a least event at which it would
not (`ReductionExists`, `ReducedAllSound`, `ReducedAllSits`).

`CoreSound` (`StagesShareChain`) says that core's row of a delivery rests on
receipts that were sent and pass the validator, the second extending the chain
of the first. With what `ReceiptEmitterProofs` says of such receipts, and
because the Stop that closes a chain is that of its turn, of a turn that came
after it, or a late one, core follows the turn (`CoreCorrect`).

For the other direction, that core does not fall behind, let a turn be honest.
A receipt about its delivery passes only if its prompt and its hook are of that
turn (`HonestReceipt`), and passes if they are (`HonestPasses`). When the turn is
whole, its completion and the entry that it extends are among what a replay
sends, in this order, and no other entry is (`WholeReceipts`, from `Closed`).
Hence `RestartCorrect`: the replay of a new run leaves the delivery processed,
wherever the `submit_ack` found it. When the `submit_ack` came before the hook
there was no receipt for it to miss, and from then on whatever is sent has its
effect (`Kept`); hence `TurnCorrect`, which is what `TurnIsProcessed` needs
besides the resident's progress.

**InjectionProofs.** What makes `OneTurnCorrect` inductive is that one worker at
most is between the journal's insert and the send (`SenderAlone`), that a text in
the pane has a row (`EffectsJournaled`), and that what a worker remembers of the
bus or the journal is still so (`WorkerSound`). `ProofsAreReal` needs that a
prompt on the bus is of a turn (`EvidenceSound`). `ClaimsAreProven` needs that a
worker on its way to write `injected` or `acked` carries the required events,
merged from what it read.

**EventStreamProofs.** The connection's position and its replay accounting are
tied to the cursor and to what the daemon can still send (`ConnectionSound`,
`CursorReal`). `EvidenceFirst` and `HostOrderKept` then say of each commit that
its event was observed and follows everything in the outbox. `MemoryCorrect` and
`GapsSnapshotted` hold only between events or on a live stream; `MemorySound` and
`GapCovered` extend them to every step of a connection.

**NotificationsProofs.** `RacesKnown` says that the deliveries two calls work on
are in `raced`; for every other one `Reconciled` says that the host's banner goes
with its row and that what the one call at work knows of both is still so.
`CapInSight` says that a seat over its cap has a publish on its way to evict
enough, or one that died. That the eviction's sorted order exists is proved from the rank of a
row. `RetirementIsFinal` is the action property.

**Assumptions.** The constants satisfy the `ASSUME`s of the modules, which TLC
evaluates in every run:

* `None` is no id, row, verdict, disposition or position: it is SQL's NULL or
  Python's `None`, which no such column or value holds (`NoneAssumption`,
  `VerdictsAssumption`, `AbsenceAssumption`). It is not the empty string `Blank`.
* Keys have a mode, receipts name known keys and their proofs are tuples of
  events: foreign keys and dataclass types (`KeyAssumption`,
  `ReceiptsAssumption`, `ProofsAssumption`). The marker lifetime, the cap and the
  time to live are positive, as their constructors demand.
* Rosters are non-empty and name a seat once, and deliveries of a broadcast are
  session-bound (`RostersAssumption`, `broadcasts.py:111` and the primary key of `room_members`).
* Deliveries of `Notifications` are finitely many and ordered, as row ids are
  (`DeliveriesAssumption`); a marker has a signature (`TurnAssumption`); bounds
  are naturals. In `ReceiptEmitter` and `SessionSeam`, `None` is also no
  reference to an event, no chain, and none of the two notes of `acked`
  (`AckAssumption`).

**Only model-checked.** `SuspectsNeverAdvance` lists the suspects of its
instance; what it says of every receipt is `LedgerIsAuditable`, which is proved.
The liveness properties (`CatchesUp`,
`UndisturbedTurnIsReported` and `TurnIsProcessed`), as
fairness and `ENABLED` are out of the prover's reach.

## Not modelled

String encodings of markers (`proofs.encode`/`decode`, `marker.py`), harness
profiles, sockets and framing, path discovery, the command line, the creation of
the marker key file, schema migration of old databases, the log tables nothing
reads, and `validate_hook_effects`, a check of one answer: they keep no state
that two steps share. The agent-bridge and Discord plugins have no code. Chains
that cross a restart of the daemon are not in `ReceiptEmitter`; core refuses a
chain of two boots (`ChainValid`), so such a turn is not processed.

## Left to do

Chains that cross a restart of the daemon in `ReceiptEmitter`, and an event bus
of several boots beneath it: `EventStream` has the boots and no turns,
`ReceiptEmitter` the turns and one boot.
