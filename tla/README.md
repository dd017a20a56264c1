# Verification of the trade engine

TLA+ models of the parts of the trade engine whose correctness depends on the
order in which things happen: who owns the ledger, what a crash leaves behind,
what the venue did while nobody looked. Each model is translated from the code
named in `PROJECT.json` under `map`; TLC checks it on small instances and TLAPS
proves theorems about it for every instance.

## The system

The engine keeps one append-only event ledger per installation (SQLite). An
account's state is a pure fold of its events. Everything else reads that fold,
decides, and appends. The invariants I1 to I13 of the repository's README are
the vocabulary: idempotent command ids (I3), one writer (I4), refuse rather than
guess (I5), no resend of an order whose outcome is unknown.

| Part | State | Operations | What is hard about it | Module |
|---|---|---|---|---|
| Runtime owner (`te_host` jobs, actor, lock, store open/close; `te_runtime`) | OS lock, connection, job records, queue, worker thread | acquire, open, recover, submit, execute, run once, stop, drop, crash | threads and a condition variable, process death at any point, process ids reused, a stop that times out | `RuntimeOwner`, `JobService` |
| Order manager (`te_core/oms`) | none of its own: the fold of the ledger | create, submit, cancel, replace, move stop, close, reduce, fills, synchronize, read back, emulated stops | the venue moves between any two steps, answers get lost, commands are repeated, a crash cuts a command in two | `BracketFlow` |
| Order fold (`te_core/ledger/fold.rs`) | orders, quantities, positions, cash | one handler per event | refusals that come after the venue was called | orders and fills in `BracketFlow` |
| Target allocation (`oms/manager.rs`) | none | allocate, split, fractions, budgets | remainders, ties, zero budgets | `Allocation` |
| Reconcile pass (`oms/reconcile.py`, `.rs`) | none | fills, then orders to read | replays, order of fill and state | `BracketFlow` |
| Event store and outbox (`te_host` store, outbox) | events, cached account states, outbox rows | write a batch, replay, drain, deliver, fail | failure inside a transaction, delivery without a mark | planned |
| Event stream (`te_host/http.rs`) | subscribers, positions | snapshot, subscribe, broadcast, resume | events between the snapshot and the subscription | planned |
| Simulated venues, restore (`te_core/sim`, `oms/restore.rs`) | the venue's book | submit, cancel, replace, bar, restore | rebuilding the book after a restart | planned |
| End-of-day and intraday runners (`runtime`, `eod`, `intraday`) | markers, heartbeat | gate, replay, close, marker, entries | a run that dies and is run again | planned |
| Venue mirror (`tos_paper`, `mirror.rs`) | write-ahead tickets, proven ids, halt | queue, drain, collect, reconcile, clear halt | a send without an acknowledgement | planned |
| Risk (`risk.rs`) | kill switch, drawdown latches | evaluate, latch | latches across restarts | planned |

The remaining parts (codec, money, calendar, margin, market data, bindings,
metrics) are formats or arithmetic without state; `PROJECT.json` lists each one
with the reason it is left out.

## The modules

### `RuntimeOwner`, `JobService`

A process is named by the instance string it writes into job records, and an
instance that died may come back under the same name. `phase` is what the control
thread has reached, `worker` the program counter of the actor thread, `errors` the
jobs whose failure the owner reports (`Actor::errors`), `records`
and `log` the durable part (job records in the `meta` table, one entry of `log`
per ledger event, named after the job that appended it). `runs` counts how often
a host was entered and exists only to state that this happens once.

The queue's mutex and condition variable are modelled as they are used: the
worker checks the stopping flag, dequeues or parks under the mutex (`workerTop`,
`workerPark`), a notification reaches it only while it waits, and a wait may end
without one. `stop` sets the flag without the mutex, as `Actor::stop` does.
`hostBegin` and `hostEnd` are a ledger batch on the owner's connection; a host may
return in the middle of one, because only an `Exception` rolls back. The job store
may fail under any read or write of `execute`: the job then leaves the owner's memory,
its record keeps its durable state, and the failure is reported (`dropJob`,
`finishJob`).

`JobService` is what clients may rely on: every request id is admitted once,
started at most once while no other job is active, appends events only while it is
active, and is settled for good, by its outcome or, when that was lost, as Uncertain.
`ImplementsJobService` is the refinement; `state` is the durable record's and `active`
the job of the worker that has a connection.

### `BracketFlow`, `Allocation`

One bracket of one account, whole shares: an entry, its stop, its targets, and the
close and reduce orders. `setup`, chosen once, is the bracket with its venue and its
callers; a configuration names the set it is chosen from. `book`, `seen`, `requests`,
`cancels`, `reads` and `watched` are the fold of the ledger together with the command
ids it has claimed, and `journal` the outbox rows of the journal. The running command
is the broker call it is in (`call`) and the work that follows (`todo`); a task is one
function of `oms/flow.rs` between two points where the venue can move or the process
can die. An error drops both, and so does a crash. Command ids are tuples of the cause
and the order, in place of the strings the code builds; ids of different operations
are taken to be distinct.

`reconcile_after` takes every fill at or after a time, in order, and the orders updated
since. The runner calls it with the time of a bar and, at the end, with `MIN_TIME`. In
the model the time is the index of the first fill at or after it; the other updates
carry no time, so a pass for a bar may read back, beside the orders it found new fills
of, any of those that may still move.

The venue is external: it may accept, leave pending or reject what it is handed,
carries out or refuses later what it left pending (`venue_decide`), fills any resting
order by any amount, expires what `Expiring` names, and does not cap exits at the
position. A venue's id for an order is the order's own id. `interrupt` is a crash, a
broker call that raises before reaching the venue, or (after the call's step) one that
raises although the venue carried it out.

Left out: prices and the refusals about them, time in force and order-type
capabilities, trailing stops, the no-op replace, moving an emulated stop's price.
`Allocation` holds the division of shares; `MCAllocation` checks it against the
definition of nearest proportions.

## The runs

| Run | Module | Expect | Properties | What it shows |
|---|---|---|---|---|
| `owner_safety` | `MCRuntimeOwner` | pass | `TypeOK`, `ConnectionUnderGuard`, `AtMostOnce`, `JobEventsInWindow`, `UnfinishedInHand`, `TerminalIsFinal`, `ImplementsJobService` | Two processes, two requests, the CLI and the service, one crash and any failure of the job store: one writer, no job run twice, a job's events inside its sequence window, no admitted job dropped without a reported failure, no settled record rewritten, and refinement of the job service. |
| `owner_liveness` | `MCRuntimeOwner` | pass | `Settles` | Every admitted job reaches a settled record through a crash, a blocked stop, a lost wakeup and a restart, unless an abandoned ledger batch wedges the owner or a failure of the job store is reported. |
| `owner_guard` | `MCRuntimeOwner` | violation | `GuardOutlivesHost` | After a blocked stop, dropping the actor closes the connection and releases the lock while the host still runs. |
| `bracket_crash` | `MCBracketFlow` | pass | `NeverResent`, `OnRecordFirst`, `FillsCountOnce`, `Protected`, `AppendsAreLegal`, `ProtectionUnlessCut` | A bracket with a stop, a target and a runner, its entry filling share by share, expiring or cancelled, and a bracket whose reconcile passes read only what a bar changed and write a journal, with one crash or lost answer at any point of any command: nothing is sent twice or before it is on record, fills count once, the stop covers the position, no append is refused after a venue call, and a bought position gets its stop unless a crash or an error cut its work. |
| `bracket_races` | `MCBracketFlow` | pass | `TypeOK`, `Protected`, `TargetsWithinFills`, `DeadIsDead`, `FlatIsQuiet`, `OneCloser`, `SiblingsBeforeTrigger` | Three families of brackets: a venue that accepts, leaves pending and later decides, or rejects every request; targets, stop, close and two reduces racing to leave a position, with an entry replaced by a larger one and closers that expire; and emulated stops with read-backs and a crash. The stop covers the position, targets stay within what was bought and planned, what the ledger closes is closed at the venue, a flat bracket leaves no exit working, one closer works at a time, and a triggered stop goes out alone. |
| `bracket_read_back` | `MCBracketFlow` | violation | `ReadBackTakesEffect` | A cancel that never reached the venue, read back at an unchanged venue timestamp, is reported as confirmed and leaves the order PENDING_UNKNOWN. |
| `bracket_expired` | `MCBracketFlow` | violation | `TerminalStopRefused` | A protective stop the venue expired is accepted by the synchronize as covering the position. |
| `bracket_late_fill` | `MCBracketFlow` | violation | `FillsBeforeTerminal` | A cancel confirmed after a partial fill closes the order in the ledger before the fill is recorded. |
| `bracket_stranded` | `MCBracketFlow` | violation | `ProtectionArrives` | The synchronize that follows a recorded fill is not repeated: after a crash between the two, or a refusal (an entry replaced by a larger one, a stop that filled before the entry did), the bought position stays without a stop, because every later reconcile skips the recorded fill. |
| `bracket_runner` | `MCBracketFlow` | violation | `RunnerKept` | An entry of two shares, planned for one target and a runner, is cancelled after one share: the target takes it and no runner is left. |
| `bracket_journal` | `MCBracketFlow` | violation | `FillsReachJournal` | A fill that was recorded without its journal row, by a read-back or by a pass that was cut short, is skipped by every later pass and never journaled. |
| `allocation` | `MCAllocation` | pass | `Conserves`, `NearestShares`, `FractionsAreNearest`, `FullFillKeepsPlan` | Every division of up to 6 shares over up to 3 weighted targets and a runner, against the definition of nearest proportions. |

### Bounds

Runtime owner: two processes, two requests, one payload, two ledger events, one
crash. Two processes are enough for one to hold what another wants, two requests
for one to wait behind another, and a crash plus an ordinary exit gives two
restarts. Brackets: two shares give partial fills, one target and one share of runner give a
budget of zero or one; one command id per kind lets every command be repeated under its
id. `MaxCrashes` bounds interruptions and `MaxSize` the quantity an entry is replaced
by, one above its plan; `Offered` and `Cancellable` select the commands callers use and
the orders they cancel, `Bars` and `Journaled` whether passes are limited to a bar and
whether there is a journal. All at once exceed what TLC can enumerate, so
`MCBracketFlow` lists combinations in which each meets the hazard it is there for. One
emulated bracket has three shares, so that a partial entry leaves the target nothing to
sell; one has two reduces, the first of which may expire. Allocation: six shares, weights to three, three targets.

### Fairness

Runtime owner: each bounded step of a live process happens (weak fairness), a host
that was entered returns, and a supervisor starts an owner again. `push` is
strongly fair, since it waits for a mutex the worker takes and releases. Stops,
clients and crashes are not fair. Brackets: a command that has begun runs on, and
the runner reconciles all the venue holds when its bars are done, whatever else callers
do (strong fairness of `reconcile_after` with `MIN_TIME`). Nothing is assumed of the venue.

## What disagrees with the code's own words

`PROJECT.json` lists the findings with their runs: each run checks one sentence of
the repository and TLC shows an execution against it.

- `owner_guard` (GuardOutlivesHost): Actor::stop takes the thread handle before it waits, so a second stop, or Drop after a stop that reported blocked, finds no thread, closes the store and releases the single-instance guard while the job's host is still running. The comment at crates/te_host/src/actor.rs:279-280 says: "The thread is still inside a job host; do not fabricate success. Leave the guard to process teardown (a crash)."
- `bracket_read_back` (ReadBackTakesEffect): reconcile_order claims its state event by a command id made of the order, the venue's updated_at and the state found. When a cancel is lost before it reaches the venue, the venue's timestamp has not moved since the previous read-back, so the append replays that earlier event: the order stays PENDING_UNKNOWN, and every later read-back does the same until the venue moves. The event's own reason, crates/te_core/src/oms/flow.rs:1066, says "Venue reconciliation confirmed".
- `bracket_expired` (TerminalStopRefused): child_quantity refuses a child that is CANCELLED, FILLED or REJECTED and takes an EXPIRED one as live: a stop that expired with the right quantity is returned as it is, and the position is left without protection and without an error. terminal at crates/te_core/src/oms/manager.rs:50-53 counts EXPIRED, and the refusal reads "Protective child '{}' is terminal in state {}" (crates/te_core/src/oms/manager.rs:766).
- `bracket_late_fill` (FillsBeforeTerminal): cancel_order records ORDER_CANCELLED as soon as the venue confirms the cancel, without asking for fills that happened before it; the fold then refuses those fills. reconcile_order's doc at crates/te_core/src/oms/flow.rs:1026-1027 gives the rule: "Fills before terminal state: missing fills are ingested BEFORE the state event, because the ledger refuses a fill on a cancelled order (I1)."
- `bracket_stranded` (ProtectionArrives): record_fill appends the FILL and synchronizes the bracket in two steps. When the second does not happen (a crash between them, or a synchronize that refuses), the reconcile pass finds the fill's command id in the ledger and skips the fill together with its synchronize (src/trade_engine/oms/reconcile.py:86), so the stop of the bought quantity is never sent. record_fill's doc at src/trade_engine/oms/manager.py:286 says "Persist a venue fill and synchronize bracket protection from folded state.", and src/trade_engine/eod/runner.py:9-11 says "After **every** bar the runner reconciles every order the venue touched that bar — fills recorded, states read back, brackets synchronized."
- `bracket_runner` (RunnerKept): Once the entry is terminal, synchronize_bracket divides what was bought over the targets and the runner by largest remainder, and a tie goes to the lower index, which is a target's. One share of an entry planned as one target and one runner goes to the target, and the runner gets none. README.md:120-121 says "A partial entry fill keeps the same proportions, so the runner is never absorbed into the targets."
- `bracket_journal` (FillsReachJournal): The reconcile pass journals a fill only in the call that records it. A fill recorded by reconcile_order's read-back (crates/te_core/src/oms/flow.rs:1076-1102), or by a pass that died or was refused before src/trade_engine/oms/reconcile.py:113, is in the ledger under its command id, so every later pass skips it and no journal row is written. enqueue_journal_fill's doc at src/trade_engine/oms/reconcile.py:124-126 says "One journal execution per fill" and "the journal posts every execution".

## The proofs

All theorems are in `RuntimeOwnerProof` and hold for every set of processes,
requests and payloads, every `RecordLimit` and every bound. They rest on the
assumptions `RuntimeOwner` names for its constants and on nothing else.

- `TypeCorrect` proves `Spec => []TypeOK`. `TypeOK` alone is not inductive, because
  a worker that finishes needs an outcome and one that starts needs a job;
  `WorkerJob` relates the worker's program counter to both and is carried along.
- `OneWriter` proves `Spec => []ConnectionUnderGuard`. A connection says nothing of
  the lock by itself, so `GuardInv` ties both to the phase of the process: from
  `acquire` to `releaseGuard` the lock is its own, and the connection is open only
  strictly inside that interval. A crash gives up both in one step.
- `NoJobTwice` proves `Spec => []AtMostOnce`. `RunsInv` adds that a request which is
  absent or queued was never run. The argument is `RecordSteps`: apart from
  `startJob`, which takes a queued record out of that state in the step that enters
  the host, a record is only left alone, admitted from absent, or settled from an
  unfinished state. Nothing leads back to queued.
- `SettledForGood` proves `Spec => TerminalIsFinal` from the same lemma.
- `EventsInsideWindow` proves `Spec => []JobEventsInWindow`. `OwnerInv` ties a Running
  record to the process that holds the lock and its worker, so only that job appends,
  and no event of a job can follow the sequence its settled record names.
- `NoJobForgotten` proves `Spec => []UnfinishedInHand`: an unfinished record is being
  pushed, queued, in the worker's hand or among the reported failures of the owner
  that has the ledger. Each action moves a job from one of these places to the next.
- `OwnerImplementsJobService` proves the refinement `Spec => ImplementsJobService`, one
  lemma per kind of step, from the same invariants.

Everything about brackets and allocation is model-checked only.

Liveness, and what a recursive definition computes for every input, stay with
TLC: the prover has no rule for fairness or for induction over data.

## Plan

1. `RuntimeOwner` (done), `Allocation` (done), `BracketFlow` (done for whole
   shares).
2. `LedgerStore`: a batch with command replay, cached account states and outbox
   rows in one transaction, the drain, a crash anywhere; refines an abstract
   event log. Two accounts, two commands, one destination.
3. `EventStream`: snapshot, subscribe, broadcast, resume; every client sees each
   event once and in order. Composes with `LedgerStore`.
4. `SimVenue` and restore: the equity venue's book and its reconstruction from the
   fold, composed with the bracket.
5. `MirrorVenue`: tickets written ahead, drained, proven, halted.
6. `SessionRunner`: the end-of-day and intraday gates and markers.
7. Theorems: `NeverResent` and `OnRecordFirst` for `BracketFlow`, and the same
   three layers (types, safety, refinement) for `LedgerStore`.
