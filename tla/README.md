# Verification of Alice-brain-Hermes

Alice-brain-Hermes gives a Hermes agent host a persistent "brain". A plugin runs
inside the host process and observes its hooks; a private daemon owns an
event-sourced SQLite ledger, reduces events to a brain state, pulses it in the
background, and serves the plugin over an authenticated loopback socket. This
directory holds TLA+ models of that system, the TLC configurations that check
them on small instances, and theorems checked by TLAPS. All paths below are
under `src/src/alice_brain_hermes/` unless they start with `src/`.

## 1. Inventory

| part | code | state | operations | what is hard |
|---|---|---|---|---|
| Hook bridge client | `hermes/bridge.py`, `projections.py` | capture sequence, observation queue, gap spans, retained record, close seal, health counters | capture, merge gaps, connect and attach, commit, refresh frame, rotate, seal and close, recover a close | callbacks race the worker; queue full; lost answers; abandonment by the daemon; close against late captures |
| Durable bridge streams | `runtime/store.py` (`bridge_stream`, `bridge_record`, `events`) | cursor, status, attached nonce, final capture, records | attach, commit, close, recover, disconnect, list and abandon, restart recovery | exact retry, several connections, stale candidate lists, restarts |
| Protocol connection, client transport | `protocol/service.py`, `protocol/client.py` | bindings of a connection, one request in flight | dispatch, error mapping, end of connection | a dead connection's request is served late; answers get lost |
| Daemon server | `runtime/daemon.py` (`PrivateDaemonServer`) | handlers, writers, maintenance task | accept, serve, abandonment passes, shutdown cleanup | restart grace, cleanup of partly closed parts |
| Engine and event ledger | `runtime/engine.py`, `runtime/store.py` | in-memory state, diverged flag, events, next sequence | append, bridge commit, abandon, pulse, replay | ambiguous commit, divergence, idempotency |
| Snapshot worker | `runtime/snapshot.py` | pending brains, observed heads, next attempt | notify, process, retry, stop | a publication while one is processed, transient failures |
| Continuous scheduler | `runtime/scheduler.py` | thread, degraded flags | start, step, stop, join | stop against a running pulse, failure events that fail |
| Identity naming lease, energy assessment lease | `runtime/store.py`, `hermes/identity.py`, `hermes/energy.py`, `protocol/identity.py`, `protocol/energy.py` | lease rows, heartbeats, terminal intents | claim, complete, fail, expire | expiry against a late completion, idempotent retries |
| Runtime lease | `runtime/lease.py` | two lock files, retained failed acquisitions | acquire, assert authority, release, retry cleanup | two processes, partial failure between the two locks |
| Daemon runtime lifecycle | `runtime/daemon.py` (`HermesDaemonRuntime`) | engine cells, operations in progress, cleanup owners, fail-stop | open, create or resolve a brain, fail-stop, close | concurrent engine construction, close against operations |
| Supervisor, discovery, CLI | `runtime/supervisor.py`, `runtime/discovery.py`, `cli.py` | discovery record, child process | start, stop, health | two starters, a stale record |
| Plugin registration, bootstrap | `hermes/registration.py`, `hermes/hooks.py` | buffered captures, reserved sequences | buffer, hand over, restart | order of the handoff, rotation underneath it |
| Core reducer | `core/*.py` | brain state | reduce one event | action lifecycle, bounded sets |
| Semantic ingest | `runtime/semantic_ingest.py` | open spans | plan, match, evict | matching and capacity |
| Status, diagnostics, wire models, errors, limits | `protocol/models.py`, `protocol/status.py`, ... | none | validation, presentation | none of it concurrent |
| Schema migration and audit | `runtime/store.py` | schema version | one-time SQL | data shape only |

How they interact: host hooks call `HookBridge.capture` on any thread; one worker
thread per bridge calls the daemon through `DaemonClient`, one request at a time;
the daemon dispatches each connection's frames in a worker thread under the
connection's own lock; handlers reach SQLite through the engine of the brain;
a maintenance task abandons streams that stay detached for the grace; the
scheduler and the snapshot worker are threads of the daemon next to them.

What makes each part correct: the bridge loses nothing silently and reports
everything exactly once, in order; the streams tile their cursor and terminal
states are final; a connection never acts on a stream another one holds; the
engine state is always the reduction of the ledger; a snapshot is taken of an
owned head and every due snapshot is eventually attempted; after stop no writer
runs; a lease is held by at most one worker and completed once; a home is owned by
at most one process; close releases everything that was acquired; bootstrap
captures keep their order.

## 2. Modules

| module | models | state and code |
|---|---|---|
| `BridgeRecords` | the records exchanged: observations and exact gaps | `protocol/models.py` |
| `BridgeStream` | the durable side of the bridge as an open system: any connection may call anything with any record | `stream` is table `bridge_stream`, `rows` is `bridge_record`, `events` the raw bridge events of `events`; `candidates` and `lapsed` are the abandonment pass. One action per transaction |
| `HookBridge` | the plugin side: callbacks and worker thread | variables named in the module after the attributes of `HookBridge`; one action per section under the capture lock or per queue operation; answers are operators |
| `BridgeDelivery` | both sides joined by sockets that fail and a daemon that dies | `conn` holds, per connection, the request and answer in flight and the bindings of `ProtocolConnection` |
| `BridgeLog` | the abstract promise: a log delivered in order, exactly once, closed or abandoned | refined by `BridgeDelivery` (`LogSpec`) |
| `BootstrapCapture` | the buffer that every registered hook captures into, and the thread that hands its captures to the bridge | `buf` is the queue with its overflow and retained item, `dispatch` a callback between its reservation and its end, `bridge` what `capture_reserved` reads and writes; `fate` and `taken` are histories of what each side made of a capture |
| `EnergyLeases` | the durable side of energy assessment: action records, lease table and events, for any callers | `record` is `action_records` of the reducer, `lease` table `energy_assessment_lease`, `log` the events about energy of `events`. One action per transaction |
| `EnergyWorkers` | the worker processes that claim leases and ask the host LLM, and their calls to the daemon | `worker` is the iteration and `_terminal_intent` of `EnergyAssessmentWorker`; `inbox` and `reply` are the calls of `DaemonEnergyAssessmentLeasePort` |
| `NamingLeases` | how a brain gets its name: naming events, name registry, leases and workers | `log` the naming events of each brain, `registry` table `identity_name_registry`, `lease` table `identity_naming_lease`, `worker` is `IdentityNamingWorker` |
| `EventLedger` | one brain's events and snapshots and the engines that own its state in memory | `log` is the brain's rows of `events`, `snapshots` the table, `engine` the state, the divergence flag and the event under the engine's lock; `audited` is the state the startup audit replays |
| `PulseScheduler` | the scheduler thread over `EventLedger`, beside clients | `sched` is the thread: the append it is at, `_volatile_degraded`, `_failure_event_persisted`, stop |
| `SnapshotWorker` | the snapshot thread over the heads that engines publish | `book` is what the worker knows of each brain, `pending` and `thread` its queue and locals |
| `DaemonRuntime` | one daemon: engines and schedulers of its brains, dynamic creation with compensation, fail-stop and close | `cell` are the engine once-cells, `pending` the receipts of unpublished foundations, `gate` the creation gate, `op` the request threads, `done` the steps of close that have succeeded, `owner` the registry of failed owners |
| `RuntimeHome` | the daemon processes that compete for a home: two locks, credential and discovery files, ledger handle | `held` are locks on files (`file` tells which file a path names now), `at` the directory at each path |
| `DaemonControl` | the start and stop commands and the supervisor, over `RuntimeHome` | `evidence` are the launch directories, `cli` the command, `recycled` the pids other programs have |
| `BridgeDeliveryProofs` (with `BridgeStream`), `BootstrapCaptureProofs`, `EnergyWorkersProofs` (with `EnergyLeases`), `NamingLeasesProofs`, `EventLedgerProofs` (with `PulseScheduler`), `SnapshotWorkerProofs`, `DaemonControlProofs` (with `RuntimeHome`), `DaemonRuntimeProofs` | theorems (section 4) | |
| `MC...` | instances for TLC | symmetry sets, constant functions |

Composition: `BridgeDelivery` joins `HookBridge` and `BridgeStream`;
`EnergyWorkers` extends `EnergyLeases`; `PulseScheduler` extends `EventLedger`;
`DaemonControl` extends `RuntimeHome`. `BootstrapCapture` stands before
`HookBridge` and keeps of it only the input cursor, the last receipt, the seal and
the rotation. `SnapshotWorker` and `DaemonRuntime` see of an engine its head and its
thread; what a save stores and what an engine appends is the subject of
`EventLedger`.

Operators whose comment starts with `Mutant:` are faulty variants of the
definition below them. No specification uses them: each stands for a plausible
mistake that the property named with it in `PROJECT.json` detects.

### Bridge

* Payloads, causes of a gap, fingerprints and tokens are abstracted: a record is
  its kind and capture range. A duplicate is the same record again; a record with
  the same start and another content is the conflict case of the code.
* `brain.resolve` has no effect the properties see; the frame carries only the
  fact that the stream is attached. Frame contents and sequence floors are not
  modelled.
* A request on a connection whose client has hung up may still be dispatched
  (`Serve` on phase `eof`) or be lost (`ServeEof` first), as the daemon reads the
  buffered bytes or not.
* `DaemonClient.connect` and sending `brain.attach` are one step: the resolve call
  between them changes nothing modelled, and its failures equal a failed attach.
* Time is the set `lapsed`: a pass may find any subset of the detached streams
  silent for the whole grace. Attaching, committing, closing, detaching and
  restarting all write `last_seen`, hence leave the set.
* Hanging up after a rotation happens with the rotation; in the code captures can
  fall in between, which touch nothing that the hang-up touches.
* In `BootstrapCapture` a callback holds the capture lock from its reservation to
  its end, and may raise in between; the worker holds it to choose a capture and to
  mark it as handed over, and the bridge's lock in between. An exception can come
  before or after the bridge took the capture; the next offer then meets the
  receipt. `latch` is `_emergency_trace_incomplete`: a start of the thread that
  raises sets it, whether the thread came up, did not or cannot be told, and so
  does a callback for which no number is left. `TraceComplete` is what the `health`
  property then says. An exception while the fallback gap itself is recorded also
  sets it; that path is not modelled.

### Leases

* An action is named by its order in `action_records`. Its phases are reduced to
  active and settled (`BLOCKED`, `RECONSTRUCTED`): eviction and the store look at
  nothing else. Actions come from observed tool calls, whose proposal and request
  for assessment are one commit.
* An energy vector with its provenance is one value of `Choice`. `at` and `end` of
  a lease are positions in the log of its events.
* The clock of a lease is one bit: running or over. That the wall clock never
  steps back behind `requested_at` is assumed: the store raises in that case.
* A call whose caller gave up is served at any later time, in any order with its
  other calls, or never. A claim that was served for nobody leaves a lease that
  no worker knows of.
* `Refused` names results that the energy worker accepts and its port rejects before
  it connects (audit evidence of more than 16 entries, `protocol/energy.py`). The
  run has none: with one the worker retries its intent for ever, and `IntentsDrain`
  would not hold.
* A name is a value of `Name`; `Norm` gives its normalized form, so that two
  spellings of a name collide in the registry.

### Ledger, scheduler, snapshots

* The state of a brain is what its events reduce to; the model keeps the events
  themselves. Of the reducer's acceptance rules it has one, the workspace cycle a
  broadcast must advance to, because that one depends on the state.
* `Check` takes the engine's lock and reduces, `Store` runs the transaction;
  another engine can move the ledger in between, and a transaction may raise
  before or after its commit. `Commit` is the path of the bridge, which does both
  in one transaction and publishes after it.
* A restart closes every engine and audits by replaying everything.
* A pulse is up to four appends, each with its own lock; clients commit between
  them. A failed clock sample ends the step as a failed append does.
* The snapshot thread's load, decision, read of the head, save and bookkeeping are
  separate steps; publications fall between any two.

### Processes

* A lock belongs to the file that was opened. A lock file that somebody removes is
  another, free file to the next process, and a home can be moved to another
  path; `MaxMeddling` bounds how often. Authority is checked where the code
  checks it (`assert_authority`), not continuously.
* A daemon process dies at any step, which frees its locks and leaves its files.
  The outcome of every failure between two steps of starting or closing is the
  state it leaves in files and locks.
* Processes are looked up by pid (`Found`), and the pid of a dead daemon may be
  taken by another program at any moment (`Recycle`). As the code compares the
  noted start time with that of the process it found, so does `Exact`: on recovery,
  while waiting, and again before the signal, since the daemon may have died after
  the command found it alive. `Kill` signals whoever has the pid. The last
  comparison and the signal are one step, as psutil compares once more in
  `terminate`; the descendants of the daemon are not modelled.
* `DaemonRuntime` has no clock: a drain that takes too long is a failure of the
  drain.

## 3. Runs

| run | instance | shows |
|---|---|---|
| `delivery_safety` | 2 identities, 2 connections, 3 captures, queue of 1, 1 late capture, 1 fault, symmetry | the accounting of captures (each in exactly one place), the loss counters, the audit after an abandonment, complete closes, records that tile the cursor |
| `delivery_live` | 2 identities, 2 connections, 2 captures, 1 fault, fair | `BridgeLog` is implemented; everything is delivered and a close completes, unless the order is broken (section 5) |
| `overflow_reported` (violation) | 1 identity, 3 captures, no fault, fair | a gap the worker claims too early is never reported |
| `bootstrap` | 4 captures, queue of 1, 1 rotation, 2 exceptions, fair | each capture is held once and in order, counted exactly, with the trace called complete exactly when nothing went wrong for good, disposed of alike by buffer and bridge, handed over in the end unless the stream was abandoned |
| `bootstrap_rotation` (violation) | 2 captures, 1 rotation, no exception, fair | after an abandonment nothing is handed over any more |
| `energy` | 2 workers, 3 leases, 2 actions of which 1 fits, 2 results, 1 failure code, 1 fault, fair, symmetry | an action decided once, the audit of the next start accepts what was written, one assessor per lease, no retained intent refused, acknowledged evidence stored, every request decided, every intent dropped |
| `naming` | 2 workers of one brain, a second brain, 3 leases, 3 names of which 2 are one name in two spellings, 1 renaming, 1 fault, symmetry | the audit accepts registry, leases and events; the host names only a brain without a name; what a worker hears is so |
| `event_ledger` | 2 engines, 3 event IDs, 2 kinds, ledger of 3, 2 cycles, 2 faults, symmetry | the ledger always opens again, engines show a prefix of it, an ID is stored once, answers hold |
| `pulse` | 1 engine, its scheduler and clients, ledger of 7, 2 faults | health is that of the last step; ticks, broadcasts and reflections keep their order and their cycle |
| `snapshots` | 2 brains, interval 2, 4 heads, 2 faults, fair | no publication is missed, what is due is processed, a stopping thread ends |
| `home` | 3 daemon processes, 2 commands, 2 paths, 2 directories, 1 fault, 1 meddling, symmetry | one process has the ledger open, what serves is discoverable, what lives has left evidence, no other program and nobody else's launch is signalled |
| `daemon` | 2 request threads, 3 brains of which 1 is old, 1 profile, 3 faults, fair | each brain has its engine and scheduler, nothing written is compensated away, a closed ledger is quiet, a failed owner is never forgotten, every request ends |

A type invariant is stated for every module with variables but the abstract
`BridgeLog`, and all of them are proved (section 4); the runs spend their properties
on what could really be wrong.

### Bounds

Two identities are what one rotation needs; two connections let an old
one act while the new one attaches (a slot is free again once the daemon has
closed it, so any number of connections follow one another). A queue of one
overflows on the second capture; three captures make an observation, a merged gap
and a later observation, and four let the bootstrap buffer do so while one more is
in the worker's hands. One fault of the delivery runs is a lost request, a lost
answer or a crash. `MaxLate` bounds captures after the seal, which only count.
`MaxCaptureSeq` and `MaxCapture` are a constant of the code (2^53 - 2) made small;
nothing else bounds the captures, so that exhaustion is among the cases. The last
unused identity is never abandoned in `BridgeDelivery`, so that the worker always
has an identity to rotate to (the code draws a fresh random one).

A lease identifier is used once. `Capacity` below the number of actions makes
proposals evict or be refused, and a second action behind the first shows that
progress goes past it. Two different results tell a repeated completion from a
conflicting one. The fault budget counts lost calls, crashes and leases that
expire under a worker; one fault already lets a late call meet a newer lease. For
names, two workers of one brain compete, the second brain holds the name that
collides.

Two engines over one ledger are what divergence needs: one that moved on and one
that is behind. Three events let a retry, a conflict and a stale append meet; the
second fault is a retry that fails too, or a restart after it. Seven events hold
two full pulses with a recovery; two cycles make a reflection of the wrong one
possible. An interval of two with four heads makes a head that is observed and not
due, two attempts in a row, and a publication during each. Three processes are a
dead one, its successor and a competitor; two paths and two directories let a
moved home meet a new one in its place. Three brains are one at the opening, one
that is created and one whose creation fails; three faults let a creation fail,
its compensation fail, and then the close.

### Fairness

* Bridge: `WF(WorkerNext)`: the worker is a thread in an endless loop whose waits
  have timeouts. `WF(Serve(c))`, `WF(ServeEof(c))`: the event loop reads every
  connection and notices its end. `WF(Reopen)`: the daemon is started again after
  a crash (by the supervisor or the next plugin start). Nothing is assumed of
  callbacks, faults or maintenance. `WF(WorkerNext)` lets the worker spend its
  idle steps refreshing frames; no property relies on how long it idles.
* Bootstrap: `WF(EndDispatch)`: a callback that has reserved returns or raises;
  `WF(WorkerNext)`: a started worker loops with bounded waits. Seal, close and
  rotation need not happen.
* Energy: `WF(Begin(w))` is the polling thread, `WF(Assess(w))` the host call,
  which returns or raises, `WF(Receive(w))` the return of the call. The daemon
  serves a request while its caller waits; abandoned requests have no fairness.
  `WF(ExpireOrphan(l))` is the passing of time for a lease in nobody's hands.
  Proposals, settlements and faults have none.
* Snapshots: `WF(Run)`: the thread goes on while it is alive. Publications, stops
  and faults need not happen.
* Daemon: `WF(OpStep(o))`: a request thread goes on with what it has begun. That a
  new request, a shutdown or a retry of the cleanup comes is not assumed.

The other runs check safety only. Finitely many faults is part of the meaning of
the liveness properties: they say that progress resumes.

## 4. Proofs

Checked by `tlapm` for all values of the constants. The assumptions on constants are
those that the modules name; of the bounds of the model they say that they are
natural numbers, and of `MaxHead` that it admits the head a brain is opened with.
Wherever the code has a lock, a guard or an order of steps that a theorem needs,
the proof shows which: the invariants below are more than the properties they
give, and what they add is the argument. Each invariant was first checked by TLC on
the instance of its run.

For the bridge, under `ConnAssumption` (the NULL nonce is not a nonce),
`MaxCaptureAssumption` and `QueueAssumption` (positive natural numbers) and
`FaultAssumption`:

* `TypeCorrect`: `TypeOK` is inductive by itself.
* `RecordsTile`: `RowsTileCursor` is inductive given the types. The argument is
  `TilingExtends`: a record that starts at the cursor extends a tiling by itself;
  `Commit` is the only action that changes rows or cursor, and its guard is that
  start.
* `ReceiptsExact`: receipts need the cursor at the close, which nothing moves
  afterwards; it is inductive given the types.
* `TerminalFrozen`: from `ReceiptsExact` (a terminal stream has no nonce, so no
  operation that requires the caller's nonce applies).
* `HistoryGrows`: from the types; `AppendKeepsPrefix` is the lemma on sequences.
* `StoreImplemented` (`BridgeDeliveryProofs`): every step of the composition is a
  step of `BridgeStream` or leaves its variables alone, so that the theorems above
  hold of the running system; `DeliveredRecordsTile` draws that conclusion for the
  tiling. The inductive invariant `Typed` types what flows into requests: the gap
  spans, the queue, the retained record, the final capture, the requests and
  bindings of the connections. It needs `pc = "claim" => gaps # << >>`: between
  reading the first gap and claiming it only callbacks run, and they never remove
  one. A commit without a record is excluded by the cursor, which is never 0.
  The rest of `TypeInvariant`, the counters of `health` included, needs the
  accounting below and is `DeliveryTyped`.
* `DeliveryInvariant`: where every capture is. None of the properties below is
  inductive, because what a request does when it is served depends on what the
  worker was about when it was sent, perhaps a crash and a reconnect ago. The
  invariant `DeliveryInv` has a part for each station of that way. `WorkerInv`
  says what each place of the worker's loop stands for. `LinkInv`: every connection
  but the worker's is hung up, and on the worker's there is at most the one call it
  waits in; when the daemon died no other connection has a request left. `RequestInv`:
  a request that is still on its way from a connection given up can commit to the
  current stream only what the worker still retains and has marked attempted; this
  is what keeps a late commit from being a second delivery. `AnswerInv`: an answer
  in flight is still true when it is read. `HistoryInv`: all streams but the current
  one are abandoned or unused, every committed record is of the kind its captures
  had, and a sealed close has nothing pending. `LocalInv`: queue, gaps and retained
  record are each in order and ahead of the cursor, except a retained record that
  was attempted and is in the ledger; and every reserved capture is in one of them
  or behind the cursor.
  `OtherActs` is the lemma everything turns on: a connection that was given up can
  act on the current stream only while the worker is not attached.
* `EveryCaptureAccounted` and `CleanCloseComplete` follow from it, from the tiling and
  from the receipts.
* `LossIsCounted` and `AbandonmentCounted`: the counters are compared with the
  cardinalities of what is lost. `CountInv` says it of the streams given up alone,
  which only a rotation extends (`ClosedCursor`: nothing moves their cursors).
  What a rotation counts is a sum over head, queue, retained record and gaps;
  `SurrenderExact` shows that it is the number of undelivered captures, or exceeds
  it by a record that was attempted. The sum over the gaps is a fold over a set
  (`GapCount`). Its value is proved without induction over data: the function that
  maps a set of gaps to the number of captures they cover satisfies the equation of
  the fold, and two functions that satisfy it agree, because a smallest set on which
  they differ (the natural numbers are well founded) would have a smaller one.
* `LogImplemented`: the refinement of `BridgeLog`. Callbacks accept, a commit that is
  taken delivers (`CommitDelivers`: the record starts at the cursor and has the kind
  of its captures), a close closes, an abandonment abandons, and every other step
  leaves history, ledger and fate alone (`LogStutters`). `LedgerIsPrefix` is the
  promise of the abstract log: what is delivered is a prefix of what was accepted.

For the energy leases, under `ActionAssumption`, `EvidenceAssumption` (results,
failure codes and NULL are distinct), `LeaseAssumption` and `WorkerAssumption`:

* `EnergyLeasesCorrect`: the invariant `EnergyInv` joins the types, `RecordShape`
  (a record that is unused or evicted has no status; every row names an action,
  and a decided one an action that was proposed), `OnePending`, `DecidedOnce` and
  `AnswerableLease`. The last two are not inductive alone: a new verdict is the
  first of its action because the action was still pending (`AnswerableLease`),
  and taking the action from pending breaks no other lease because there is no
  other pending one (`OnePending`). `OnePending` survives a claim by `SweptFacts`:
  a claim goes on only if nothing is `Taken`, and then the sweep leaves nothing
  pending. `EnergyTypeCorrect`, `EveryActionDecidedOnce` and
  `PendingLeaseAnswerable` are its parts.
* `VerdictsFinal`: an answer applies only to a pending lease of a pending action,
  and the sweep only to pending leases.
* `WorkersUseTheStore`: every step of the workers, their calls and time is a step of
  `EnergySpec` or leaves its variables alone. The inductive invariant `CallInv` says
  that a request to complete or fail names a lease and carries evidence of its
  kind; it comes from the claimed answer by way of `job` and the retained intent.
  `WorkersTypeCorrect` and `WorkersDecideOnce` follow.

For the ledger, under `LedgerAssumption` (the bounds are natural numbers, and no
event ID is the absence of an event):

* `LedgerInvariant`: `LedgerInv` joins the types, `SoundLog` (replay accepts every
  event after the ones before it, and IDs are distinct), `ViewsArePrefixes` (each snapshot,
  the audited state and each engine's state is a prefix of the ledger),
  `CheckedAccepted` and `AnswersHold`. `CheckedAccepted` is what makes it
  inductive: the event was reduced in `Check` and is stored in `Store`, and in
  between the engine's lock keeps its state, so that the event is still
  acceptable there. `Store` then requires that the ledger is as long as the
  state; a prefix of the same length is the ledger itself (`AtHead`), hence the
  event is acceptable at the head. An engine that is opened gets the longest
  snapshot and the events after it, which is the ledger (`LongestExists`,
  `OpensAtHead`). Growing by one acceptable event preserves replayability because
  acceptance at a position depends only on the events before it (`BeforeKept`).
* `LedgerAlwaysReopens`, `EnginesAlwaysFollow`, `EventStoredOnce` and
  `AnswersAlwaysHold` are its parts.
* `DivergedStaysIdle`: every action that changes an engine's state requires that it
  has not diverged, and none clears the mark but a restart, which closes it.

For the audit and the workers of the energy leases:

* `AuditAlwaysAccepts`: `AuditInv` adds to `AuditAccepts` the events of an action
  that is pending, or not proposed yet. A claim appends one event, which the new
  row covers and no other; a verdict appends its whole chain in one transaction,
  and its action is not pending afterwards; what earlier rows cover lies before.
* `AskInv` follows a lease through the workers' hands, their retained intents and
  the calls under way: a lease is in the hands of one worker (`HeldOnce`), has no
  answer as long as it is still to be assessed (`Unanswered`), and at most one
  answer exists, however often it was submitted (`OneAnswer`); a call that is
  waited for carries the intent of its worker (`CallState`). `OneAssessor`,
  `IntentsAreTaken` and `AnswersAreStored` are its consequences; a late call meets
  the lease as the answer that was already given, or as superseded.
  `WorkersPassTheAudit` joins both.

For naming, under `NamingAssumption` (every worker serves a brain, every name has a
normal form, NULL is neither name nor lease), the invariant `NamingInv` has three
parts:

* `StoreInv`: the registry cites the last naming, and the naming of a lease is the
  first one (`NamesInv`); no two brains hold one normal form; each event of a lease
  is covered by its row and each row has its events (`EventsInv`, `RowInv`); while
  a lease is pending no other lease of its brain has met a name (`Rivals`). The
  last is what makes "the first naming" hold: a decision can name only while its
  lease is pending, and then only failures and expiries lie behind the brain.
  A choice that another brain holds is recorded as a failure, in the transaction
  that looked at the registry.
* `CallTyped` and `AskInv`: as for the energy workers, with a conflict instead of a
  refusal.
* `NextStartAcceptsNames`, `HostNamesOnce` and `WorkersHearTheTruth` follow.

For the scheduler, under `LedgerAssumption`:

* `SchedulerUsesTheLedger`: every step of `PulseScheduler` is a step of the ledger
  or leaves it alone, so `LedgerInv` and its theorems hold beside schedulers.
* `HealthIsOfTheLastStep` and `PulsesKeepOrder`: `PulseInv` says of each stage of a
  pulse what is under the engine's lock (`StageChecked`), what is still to be
  appended and what was appended before it (`StageDue`), and what the health must
  say at its end (`StageHealth`); and of the ledger that the events of pulses are
  balanced and in order. Clients commit between the stages, but no event of
  theirs is one of a pulse.

For the snapshots, under `SnapshotAssumption`: `NoPublicationIsMissed` holds by
`Followed` (the table is never ahead of a head, and what was observed of a
registered brain is its head: registration looks at the head, and a publication
notifies after it moved) and `Working` (what the thread holds while it works on a
brain). Publications may fall between any two steps of the thread; `_finish` then
finds the brain due again.

For homes and commands, under `HomeAssumption` and `ControlAssumption` (paths,
directories, launches and commands are distinct):

* `OneWriterPerHome` and `ServingStaysDiscoverable` are proved as long as somebody
  meddled with the home at most once. That condition is not of the proof's making:
  removing both lock files of a home in use, or moving it and removing the lock
  file inside, lets a second daemon lock new files (TLC finds it with
  `MaxMeddling = 2`); two locks withstand one meddling, and the theorem says
  where the protection ends. `OneWriterWithinBound` and `DiscoverableWithinBound` are
  the run's properties themselves, for any instance with `MaxMeddling` of at most
  one, which is the run's value. `HomeInv` types the locks, says who owns
  which, that a lock belongs to the file its path names or to a removed one
  (`Locks`), that a directory is at one path (`OnePlace`), and what one meddling
  can do (`Meddled`): either the homes are where they were locked or no lock
  file was removed. Two owners of one directory need both (`OneOwner`).
* `EveryLaunchLeavesEvidence` and `SignalsStayAtHome` need no such bound. `ControlInv`
  adds to the homes what each command knows (`CommandInv`): what it
  terminates was started and is guarded by no other command, what it removes is
  dead, what it spawns has its launch directory; and `EvidenceInv`. A process
  never lives again (`Mortal`), and only the pid of a dead one is given away
  (`RecycledDead`), so a pid with the noted start time is the daemon itself
  (`ExactIsAlive`). What a command found out of a dead one stays true, and only a
  launch that was not started is guarded anew (`NoNewGuard`).

For one daemon, under `RuntimeAssumption` (the brains of the ledger are brains, NULL
is none of the other values), `RuntimeInv` joins

* `OpRow`: how each request finds its brain at each step: not there, with a
  foundation and no engine, or complete. It holds because no other request works
  on that brain (`OneWorker`): the once-cell stays open, or failed, until its
  owner is through, and others wait or fail.
* `BrainRow`: a brain that nobody works on is there completely or not at all, or
  the daemon has stopped itself. It is claimed only while requests are accepted or
  being finished (`Served`): a start that gives up leaves part of the engines, and
  `close` stops them all.
* `ThreadsListed`: a running scheduler is in the list that `close` stops, or about
  to be entered. This is where `Undo` must keep a thread that does not stop.
* `EnginesStored`, `Opening` and `Ending`: what clients know has an engine and a
  row; opening makes the engines one by one; and how far the close is, when nobody
  may run, and who owns it.

`WritersMatchBrains`, `LedgerClosesLast`, `OwnersAreKept` and `BrainsStay` follow; the
last also needs that compensation deletes only what has nothing but its
foundation.

For the bootstrap buffer, under `BootstrapAssumption` and `NullAssumption` (no item
is the absence of one), `BootstrapInv` joins

* `BufInv`: queue and overflow are in order, each by itself, and no two items hold
  a capture in common, wherever they are; what the worker retains comes before
  all else. The queue's head and the overflow are in no order, which is why
  `NextForWorker` compares them. An observation is replaced by its gap in place,
  and a gap joins the last one of the overflow only if nothing lies between
  (`GapsRecorded`); choosing moves items and changes none (`ItemChosen`).
* `Row`: a capture that is held was made, was not disposed of, and is a gap exactly
  if it was recorded as one; one that is not held was disposed of, or belongs to
  the dispatch, or was not made yet.
* `WorkerInv`: the bridge answered what the worker is about to mark, and its last
  receipt says what it made of that item. This is what an exact repeat relies on
  after an exception hid the first answer.
* `CountInv`: the counters are cardinalities: what is lost is what was disposed of
  as lost and the gaps still held, which are disjoint (`LossSum`), so that moving a
  gap from held to disposed of counts nothing twice.
* `LatchInv`: the latch is set exactly if something failed that no capture stands
  for (`unseen`, a history variable).

`CapturesHeldOnce`, `HealthCountsExactly`, `BothSidesAgree` and `BootstrapTyped` follow.

Left to TLC, and why:

* Liveness: fairness and ENABLED are out of the prover's reach (`EverythingDelivered`,
  `CloseCompletes`, `EveryCaptureHandedOver`, `IntentsDrain`, `EveryActionDecided`,
  `DueIsProcessed`, `StopEnds`, `RequestsEnd`, and the two runs that show a violation).
  Every safety invariant and every action property of a passing run, and the
  refinement, is proved.
* What recursive and fold definitions compute in general: `GapCount` is the one fold a
  proof needed, and its argument is made for it alone.

## 5. Findings

`HookBridge._select_next_record` looks at the queue before it reads the first gap.
Between the two a callback can queue observation n and turn n+1 into a gap; the
worker then retains the gap ahead of the observation. The daemon refuses it (the
cursor is n), and every reattach fails because the cursor does not bind the
retained record. Nothing ever gives the record up, and each attach renews
`last_seen`, so the daemon does not abandon the stream either: delivery has
stopped for good while captures keep filling the queue. `overflow_reported` shows
the endless retry. The liveness properties of `delivery_live` are conditional on
the claim not happening, to show that it is the only obstacle.

After the daemon abandons a stream, the bridge starts a new one and its sequence
over at 1. Every registered hook captures through the bootstrap buffer, whose
sequence goes on: from then on `capture_reserved` refuses each capture as not
contiguous, and the worker offers the oldest one for ever. `bootstrap_rotation`
shows it with two captures. `EveryCaptureHandedOver` of the run `bootstrap` excludes
the case, to show that nothing else stops the handoff.

## 6. Not modelled

`PROJECT.json` says for every component of section 1 what of it is left out. In
groups:

* Time as a number: lease lifetimes and grace periods are nondeterministic (a term
  is over, a stream has lapsed, a wait has timed out). The different cutoffs of the
  first and the later abandonment passes after a restart, deadlines of
  authentication and readiness, and a clock that is set back are not modelled.
* Limits in bytes of records, frames, acknowledgements and texts; the refusals they
  cause are errors of single calls.
* Pure functions of one event or record: workspace competition, beliefs, drives and
  personality in the reducer, matching and classification of semantic spans,
  normalization of names, shaping and redaction of text. They have no
  interleavings; what other parts need of them (acceptance of a cycle, energy
  status, name) is in the modules of those parts.
* Schema migrations, legacy layouts and the reassessment of actions from an old
  schema: run once, on data of earlier releases. The audits of column types are
  out; the audits of events, snapshots, leases and names are properties
  (`AlwaysReopens`, `AuditAccepts`, `NamingAudit`).
* `register()`, the host version check, the context text, configuration of the
  workers, the stop that only tests call.
* Projections, status, diagnostics, doctor and the wire models: they read.
* The energy heartbeat (`report_energy_worker`), the mutation seal of the engine and
  events of several brains under one ID.
* Packaging scripts.
