# Cyclops in TLA+

A TLA+ model of the parts of Cyclops in which order matters: the durable message
journal, the mailbox built on it, the delivery of doorbells into tmux panes, the
connection to tmux that delivery stands on, and the update of the installed
binaries. TLC checks small instances of every module; TLAPS proves theorems about
the ledger, the message journal, the mailbox, the receipt
wait and the tmux command pipe for every value of their constants. `PROJECT.json`
lists components, runs, the source lines of every definition, hazards, mutants and
theorems.

## The system and its modules

A sender calls `msg.send`. The daemon appends the message to an fsynced journal
and answers. For every recipient in a pane it then rings a doorbell: a worker
waits at a gate until the pane's composer is free, records that a write begins,
pastes, presses Enter and waits for a receipt (a hook, or what the screen shows).
The recipient claims the message over the socket. Everything the daemon knows
about panes, and everything it types, goes through one `tmux -C` child per session.

| Module | Code | What it models |
|---|---|---|
| `Ledger` | `cyclops-ledger/src/lib.rs` | lease, tail repair, replay, append, fsync, seal |
| `MessageJournal` | `cyclopsd/src/mailbox/store.rs` | acceptance and client retries over `Ledger` |
| `Notification` | `cyclops-proto` notification states | transitions of one wake |
| `Mailbox` | `mailbox/{store,projection,service}.rs`, `notification_adapter.rs` | messages, entries, attempts, claims, withdrawal, requeue, recovery |
| `Delivery` | `delivery/{mod,worker,gate}.rs`, `messaging_runtime.rs`, `messaging.rs` | scheduling, workers, gate, write, quiesce, crash, over `Mailbox` |
| `ReceiptWait` | `delivery/gate.rs`, `await_ack` | one receipt wait and its freezing clock |
| `ComposerHold` | `fusion.rs`, `turnkey.rs`, `cyclops-proto/src/state.rs` | the composer barrier of a pane and the store of turn ends |
| `ControlPipe` | `cyclops-tmux/src/control.rs` | the command pipe, reply correlation, flow control, shutdown |
| `PaneWatcher` | `cyclops-tmux/src/watcher.rs`, the notification queue of `control.rs` | the pane table, continuity gaps, reconcile |
| `PairStore` | `cyclops/src/update/{pair_store,mod}.rs` | update, rollback, removal and inspection of the installed pair |

`MessageJournal` instantiates `Ledger`. `Delivery` instantiates `Mailbox` and is
shown to implement it. The rest meet at narrow interfaces: a `Write` of `Delivery`
is a job of `ComposerHold`; the wait after `Submitted` in `Delivery` is
`ReceiptWait`; the detach and reattach of `ReceiptWait` are the end and the restart
of a `PaneWatcher`, whose commands go through `ControlPipe`.

### How state and actions correspond to the code

An action is what the code does between two points at which somebody else can
come in: an await, the release of a lock, a system call. Actions keep the names of
their functions where there is one.

* **Ledger.** `file` and `tail` are the bytes before and after the last newline,
  `synced` what fsync covers. `OpenRepair`, `OpenReplay`, `AppendWrite`,
  `AppendSync` and `Seal`, and the failures of each, are separate steps; `Exit` and
  `PowerLoss` come between any two. A power loss cuts the unsynced suffix anywhere,
  also inside a multi-byte character: the remains are a record, a fragment that is
  text, or one that is not, which no replay that reads lines as strings gets past.
* **MessageJournal.** Each process has the projection it replayed; a request that
  finds its client key there is answered from it, any other is appended.
* **Mailbox.** The store mutex is held from check to commit, so every operation is
  one action; a refused operation is a stutter. The id of a new attempt is any that
  stands in no record, which is all the code's `HashMap` of attempts rules out. A
  worker acts on the context it was started with (recipient, message, attempt, epoch),
  current or stale. `wrote` and `unwrote` are history.
* **Delivery.** Everything it declares is lost in a crash. Scheduling calls, workers
  with their supervisor, the attempts index, claims in two steps (commit, then the
  cancel), quiesce with its self-release timer, and panics. Every change of a record
  is an append through the journal's one writer: an append may fail, which records
  nothing, poisons the writer for everybody and leaves the line in doubt; the next
  open may bring it back (`Replays`). `env` picks the kind of trouble a behaviour may
  meet.
* **ReceiptWait.** Instants are relative to now. The select over timer, daemon
  events and pane events is a choice; a checkpoint pass is three reads of a pane
  that may change between them. A receiver that falls behind loses the oldest events
  and learns that it did.
* **ComposerHold.** Observations, receipts, mailbox reads, hooks, a person and the
  agent move one entry; a line may be queued behind a running turn and start the next
  one; `PaneEnds` is the bounded store of turn ends. A settled attempt clears the
  barrier in a step of its own, after its outcome was recorded.
* **ControlPipe.** The semaphore, the FIFO stdin mutex and the FIFO of reply slots;
  tmux executes lines in order; the reader gives each reply to the oldest slot. A
  command is a line named by its caller and number, so a reply in wrong hands shows.
  Replies and pause notices are read in any order relative to each other. A caller's
  task may be aborted anywhere, as the lifecycle recheck of a hook is
  (`stop_lifecycle_recheck_entry`); tmux may refuse a resume.
* **PaneWatcher.** tmux changes panes, pushes a value at a tick when it differs
  from the one last pushed, and answers commands; the reader queues or drops; the
  loop applies or reconciles. All subscription commands of one reconcile are awaited
  as one, and any of them may be refused. A reply that comes too late belongs to a
  command tmux did execute.
* **PairStore.** A directory entry is the sequence of its values since the last sync
  of its directory; a power loss keeps any one of them. Every rename, unlink, sync
  and daemon start is a step.

## What the runs check

Every run finishes in under five minutes with two workers.

| Run | Checks | Instance |
|---|---|---|
| `ledger` | `AckedIsDurable`, `SequenceNamesOneLine` | lenient file, 2 processes, 4 lines, sequence limit 4 |
| `ledger_torn` | `SealedFileReplays`, violated | the same file |
| `journal` | `OneLinePerKey`, `ProjectionIsJournal`, `AnswersAgree`, `OwnFileReplays` | strict file, 2 processes, 2 keys, 2 bodies, 3 lines |
| `mailbox` | `DoorbellNamesOneMessage`, `WithdrawnMeansUnwritten`, `OldestFirst`, `AlarmsWereWritten`, `WritesOnce`, `OutcomeIsFinal` | one agent in a pane, one headless, 2 messages, 2 attempt ids (366 thousand states) |
| `delivery_troubles` | `WakeIsOwned`, `InFlightIsDrivenUnlessPanicked`, `EnterOnce`, `ImplementsMailbox` | 9 scenarios of at most 2 messages to an agent in a pane and a headless one, 3 attempt ids, pastes refused because the pane changed (TROUBLES) |
| `delivery_live` | `WithdrawalReachesGate`, `WritesEnd`, `QueueDrains` | 4 scenarios, 2 messages to 1 agent, busy pane, quiesce, a panic, operators (112 thousand) |
| `delivery_quiet` | `QuietMeansSettled`, violated | 1 message, 1 quiesce call |
| `receipt_wait` | `FullWindow`, `ScreenReceiptIsOurs`, `WaitEndsUnlessCrossed` | hook window 1, checkpoints 1 and 2, deadline 2, 1 detach |
| `hold` | `DraftProtected`, `ForeignReceiptHarmless`, `OnlyItsOwnEnd`, `PinnedEndKept`, `BarrierLiftsUnlessMarked` | 2 attempts, 2 turns, 2 occupants, store of 1 end, a person (HOLD) |
| `control_pipe` | `OwnReply`, `CallsReturn`, `PausedPaneResumes` | 2 callers, a typist, 2 panes, 2 reply slots, resume queue 1, pipe of 1 line, a refused resume, an aborted task (PIPE) |
| `pane_watcher` | `SettledIsTrue`, `GapEnds` | 2 panes, notification queue of 1, 2 changes and a refused subscription, or 1 change with a late reply and a request (WATCH) |
| `pair_store` | `MatchedPair`, `SelectionSound`, `ReportHolds`, `RepairsItself`, `NoFalseAlarm`, `NeverStranded`, `UncertainSelectorHolds`, `OneUpdater` | 2 operations with a kill, a power loss and a fault, or 3 operations two at a time (269 thousand) |

**Bounds.** Two of everything that can collide: processes, attempts of one
recipient, callers, panes, updaters, turns. Queues get capacity 1 or 2, so that full
and overflowing happen within a few steps; `ledger` reaches its sequence limit,
`journal` does not (a line per key is the most it writes) and leaves it to the proof. A
retry, a requeue, a restart each happen at least once after what they repeat. Where
the product of all troubles is too large, a scenario (`Scenarios`, `Loads`)
chooses which ones a behaviour may meet; the pairs that interact in the code (a
timed-out call and the caller's next one; a kill and the next update) are in one
scenario. Every action fires in some run. `ControlPipe` was also run without
fairness on a larger load (two callers with two commands each, two typed lines, two
pauses and shutdown, 24 million states) with the same result.

**Deadlock** is not checked where the system may rest: an instance in which all
messages are settled, the commands issued or the operations over.

### What the properties say

*Journal.* A line whose append returned Ok survives every crash, and no two lines
that parse share a sequence number, also when a write succeeded and its fsync did
not. One client key has one line whatever is retried, and a daemon's own journal can
always be replayed. (The session ledger, which is opened leniently, cannot: see
`ledger_torn` below.)

*Mailbox and delivery.* A doorbell's attempt id never comes to stand for another
message, so an old doorbell claims what it announced or nothing. An attempt crosses the write boundary once, Enter is pressed
once, a withdrawn attempt wrote nothing, an alarm is about a write, doorbells ring
in order of acceptance, an outcome is final. No wake that waits is without a
worker or a scheduling call; no write is without a driver except after a panic in one
state (see below), and none of the two while the journal takes no line at all. Under
fair tasks a claim or a withdrawal reaches a worker at the gate, a write comes to its
end or to its receipt wait, and a worker gets through its queue. `ImplementsMailbox`
carries the mailbox's safety properties over to the interleavings of the pipeline in
these scenarios; a queue of two messages, a raw broadcast, failed appends and
restarts are among them.

*Receipt and composer.* A timeout is declared only after a full window in which the
pane could be watched; a screen receipt stands on the process that took the payload.
No attempt takes over a draft that was seen, unless a queued line's turn began under
it; no receipt moves another attempt's
barrier; a barrier bound to a turn waits for that turn's end.

*tmux.* `OwnReply`: replies carry no id, so one slot too few or too many would hand
every later caller somebody else's answer; no timeout, failed write, full queue or
shutdown does that. A task dropped between its slot and its line does, and is the
exception. A refused resume, which is only logged, leaves its pane paused. `CallsReturn` and `PausedPaneResumes`: no caller, typist
or paused pane is left behind by a full queue or an ending connection.
`SettledIsTrue`: "Missed events cost freshness, never correctness"
(`watcher.rs:3-5`), as far as tmux granted the subscriptions, and with two exceptions
named below. `GapEnds`: after an overflow the
table is replaced or the watcher gives up, and never goes on deaf.

*Update.* The two public names never run different builds, the selected and the
known-good pair are complete, what an update reported survives a power loss, the next
update repairs what an interrupted install or rollback left (short of an owner marker
created and not written, and of removals), a health inspection that found a selector
raises no false alarm, and two updaters never interleave.

### Fairness

* `Delivery`: weak fairness of each scheduling task, each worker, the task that
  passes a claim on, and the timers of quiesce. They are tokio tasks that the runtime
  polls; nothing is assumed of panes, senders, operators or of the receipt wait, whose
  clock stands still while its session is detached: `ReceiptWait` has when it ends.
* `ReceiptWait`: weak fairness of the loop and its pass, strong fairness of the arms
  of its select (tokio's select picks a ready arm at random), and weak fairness of
  time and of the session task that detaches and reattaches.
* `ComposerHold`: an accurate frame is seen again and again, turns end, their hooks
  are reported and an open attempt is driven on. A frame comes with every event of
  the pane.
* `ControlPipe`: weak fairness of each task, of the reader and of every timer, and
  of tmux executing its input (`Responsive`). `WedgedSpec` is without the last.
* `PaneWatcher`: weak fairness of the loop, of the reader and of tmux's answers.
  Nothing is assumed of ticks.
* `PairStore`, `Ledger`, `Mailbox`: none; their properties are safety.

## What is proved

`LedgerProofs` (assuming `LedgerAssumption`: a positive sequence limit, and a mark for
no process and no payload). The inductive invariant is the type, the lease (at most
one process past the lock), what an appender knows of the file (`nextSeq` lies above
every line that parses, unless `unknown`), what may be in the tail, increasing
sequence numbers, and durability of acknowledged lines. None of them is inductive
alone: that an append keeps the numbers increasing needs `nextSeq`, and that needs
that no other process appends. Theorems: `TypeCorrect`, `AcknowledgedIsDurable`,
`SequencesAreUnique`, `OwnFileAlwaysReplays` (strict, or text throughout, up to and at
the sequence limit), `SingleAppender`, `DurableLinesStay`.

`MailboxProofs` (assuming finitely many recipients, of which the headless are some,
and block causes the code has). The invariant joins the type, unique attempts, the shape
of each record in each of its states, the history variables, what every attempt id that
was ever issued stands for, the sequence numbers, FIFO order and unique barriers; two action properties follow from it with one lemma
per action. Theorems: `TypeCorrect`, `DoorbellsNameOneMessage`,
`WithdrawalsWroteNothing`, `DoorbellsAreFIFO`, `ClaimsEndWakes`,
`BarriersAreUnique`, `AlarmsAreAboutWrites`, `AttemptsWriteOnce`,
`OutcomesAreFinal`. A batch requeue that reaches several recipients with panes is
beyond the run's instance and is covered by the proof.

`ControlPipeProofs` (assuming `PipeAssumption`: natural bounds, the tasks are
different). Until a task is dropped with a slot and no line, `PipeInv`: the reply slots are, in order, one
for every unread reply, one for every line tmux has not executed, and one for the
line being written, if any; whoever is writing holds the mutex; a dropped stdin
has no slots. `OwnReply` alone is not inductive, since it says nothing of slots
whose callers timed out. Theorems: `PipeInvariant`, `RepliesAreOwn`, for any number
of callers, typists, panes and commands, and any capacities.

`MessageJournalProofs` (assuming `JournalAssumption`). Every step of the journal is a
step of the strict ledger or leaves it alone (`ImplementsLedger`), so the invariant
and the theorems of `LedgerProofs` are used through `INSTANCE`. To them it adds that
a projection is a prefix of the file, that the process that appends knows all of it
but the line it is appending, and that until power is lost the line an answer named is
in the file. Theorems: `KeyNamesOneLine`, `ProjectionAgrees`, `AnswersNameOneLine`,
`JournalAlwaysReplays`, `ImplementsLedger`.

`ReceiptWaitProofs` (assuming `ReceiptAssumption`). `WindowInv`: what ran off the
deadline, with what a freeze in progress will give back, is time in which the pane was
watched. `EvidenceInv`: what the loop believes of the pane, including what is still
in its event queue and in the pass under way, is true of the process that held it at
Enter. Theorems: `FullWindowAlways`, `ScreenReceiptAlwaysOurs`, for every timeline and
any number of detaches.

Only model-checked: everything under fairness, since liveness and `ENABLED` are outside
the prover; the module `Delivery`, whose refinement of `Mailbox` and whose invariants
depend on what each worker and each scheduling call read several steps before; and the
modules `ComposerHold`, `PaneWatcher` and `PairStore`. The steps of these three filter sequences with `SelectSeq` (a drained queue, the values of a directory entry,
the turns seen), and what a filter leaves can only be shown by induction over
sequences, which the installed provers cannot do.

## Where the code does not do what it says

Two listed runs end in a violation. `delivery_quiet`: `docs/development/DELIVERY.md:216` says "Quiet means
nothing is between a paste and a resolved state"; a worker that read the hold before
it was set pastes after quiesce has answered.

`ledger_torn`: `cyclops-ledger/src/lib.rs:12-14` says "A torn final write
is recovered on the next open. Lenient replay seals it and retains it when it
validates, otherwise skips it"; `read_from` skips a line that does not parse, but
returns the error of one that is not UTF-8 (`lib.rs:302`), so a write cut inside a
character is sealed and then refused by every open.

The configurations below check one property each, which TLC refutes; they are kept
so that a change of the code can be tried against them.

| Configuration | Property | What happens | What it contradicts |
|---|---|---|---|
| `MCMessageJournalRetry` | `AnswersAreDurable` | a line whose fsync failed is replayed by the next daemon, a retry is answered from it, and power is lost | DELIVERY.md: "The response proves durable acceptance" |
| `MCMailboxClaim` | `ClaimReleasesQueue` | a claim lands between the Writing fact and a paste tmux refuses; the claimed attempt goes back to blocked and holds the queue | DELIVERY.md:148 |
| `MCMailboxCleared` | `AttentionIsRequeueable` | an attempt whose alarm was cleared is refused a requeue | PROTOCOL.md on `msg.requeue` and clearance |
| `MCDeliveryHold` | `QuietKeepsHold` | the timer of an older quiet answer releases the hold of a newer one | `delivery/mod.rs:895-897` |
| `MCDeliveryParked` | `WorkerFailedIsAFailure` | attempts are parked as worker_failed where nothing failed | HANDOFF.md:229 |
| `MCDeliveryPanic` | `InFlightIsDriven` | a panic in the receipt wait of a submitted_unverified attempt leaves it without a driver | `gate.rs:1504` |
| `MCReceiptWaitFrozen` | `WaitEnds` | detach and reattach are read while the old pane stream is still held; its close then freezes the clock for good | `gate.rs:2557-2559`, `2128-2131` |
| `MCReceiptWaitDoubt` | `WaitEnds` | a doubt whose end nobody announces keeps the clock frozen | `gate.rs:2014-2016` |
| `MCReceiptWaitRebound` | `ReboundIsProved` | an owner that could not be read is reported as a new one | `gate.rs:1988`, `2051-2053` |
| `MCReceiptWaitResume` | `ResumeSafe` | the checkpoint index passes the end of the list and the next unfreeze slices beyond it | `gate.rs:2174` |
| `MCComposerHoldWedged` | `BarrierLifts` | a mailbox read after the bind leaves the turn pinned; the next barrier never lifts | `fusion.rs:3329-3332` |
| `MCComposerHoldErased` | `BarrierLifts` | an attempt charged with a person's text waits for a turn that never takes it | `state.rs:516-519` |
| `MCComposerHoldDraft` | `RollBackKeepsDraft` | undoing a claim forgets a draft seen since | `fusion.rs:2322-2323` |
| `MCComposerHoldQueued` | `DraftHeld` | a queued line starts a turn under a draft that was seen; a frame that misses the draft lets that turn consume it, and its end clears the hold | `state.rs:515-519` |
| `MCControlPipeWedged` | `ShutdownEnds` | `close` waits without a bound for the mutex of a writer whose pipe is full | `control.rs:978-979`: "a wedged stdin pipe must never hang shutdown" |
| `MCControlPipeOrphan` | `OwnReplyAlways` | a task dropped between pushing its slot and writing its line (an aborted hook recheck, the detach after 500 ms) leaves the slot; later callers get each other's replies | `control.rs:199-201` |
| `MCPaneWatcherBlip` | `SettledIsAlwaysTrue` | a value changes, is caught by a snapshot, and changes back before the next 1 Hz tick: tmux pushes nothing and the table stays wrong until the next reconcile | `watcher.rs:3-5` |
| `MCPaneWatcherLate` | `SettledIsAlwaysTrue` | the query of a hint times out; the deadline was cleared and nothing asks again | `watcher.rs:3-5` |
| `MCPaneWatcherRefused` | `SettledIsAlwaysTrue` | tmux refuses a subscription; the loop goes on without it and the table stays as it was | `watcher.rs:3-5` |
| `MCPairStoreTorn` | `NeverTorn` | the owner marker is created and not yet written when power is lost; every later update is refused | `write_new`, `update/mod.rs:334` |

The listed properties excuse exactly these cases, by name (`powerLost`,
`UnlessPanicked`, `UnlessCrossed`, `UnlessMarked`, `guarded`, `orphans`, `missed`,
`removal`), and hold
for the rest. `WakeIsOwned` and `WithdrawalReachesGate` have benign exceptions of their
own, stated in their comments.

Seen while modelling `PairStore`, and excused by `removal`: a removal cut short (a root
that holds only its lease, or a selector that a power loss brings back) is refused by
later installs; an updater that was still opening a removed store may leave a lease file
in the new one.

## Not modelled, and why

* **Text.** Parsing of control lines, hook payloads and manifests, screen patterns,
  rendering, themes and the command line: a model would repeat the code. What the
  text decides is a choice in the models (a frame shows text or misses it, a hook
  names a turn or does not).
* **The ranking of sensors in `fusion.rs`** into one displayed state, a pure function
  with tables of tests.
* **Registry, identities, headless attachment and the state directory**: tables
  changed in single steps under one lock. They appear as the occupant, the recipient
  and the headless route.
* **The socket server, the client, the workspace application and the chat UI**: they
  route requests to the actions above or display state. Their retries are those of
  `MessageJournal`, their input is the typist of `ControlPipe`.
* **In the modelled parts**: the byte budget beside the item budget of the
  notification queue, spool files, the watcher's fallback to a mutable session name
  when its id could not be resolved, wrap-around of the 64-bit gap epoch, events
  broadcast by the watcher other than those `ReceiptWait` reads, and the notification
  states that only journals of older daemons contain.
* **Composition of all modules in one.** The state space is out of reach; the
  interfaces between modules are kept narrow instead.
