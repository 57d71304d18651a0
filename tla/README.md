# Wreath in TLA+

Models of the parts of wreath whose correctness rests on the order in which
processes, tasks and database statements interleave. `PROJECT.json` lists the
components, the TLC runs, the mutations that show each property has teeth, the
source lines every definition stands for, the hazards and the theorems.

## The system

Wreath is a Python web stack on PostgreSQL. Most of it is request handling:
parsing, routing, validation and rendering, functions of one request with no
state that two actors share. The parts worth a model are the ones that keep
shared state in the database or in an event loop:

| Part | Source | What is hard about it |
| --- | --- | --- |
| Job runner | `jobs.py`, `_jobcore.py`, `_leased.py` | leases, fences, retries, crashes, drain |
| Progress registry | `progress.py`, `_busbridge.py` | reports racing the endings they describe |
| Supervisor, doorbell | `services.py`, `_doorbell.py` | partial start, drain, lost wake-ups |
| Message bus | `messaging.py` | leases again, lost notifications, groups known from a stale snapshot |
| Append-only log | `log.py` | a cursor that must not skip rows committed late |
| Resumable streams | `streams.py` | producer attempts superseding one another |
| Connection pool, locks | `postgres.py`, `_locks.py` | waiters, timeouts, broken connections |
| Webhooks | `webhooks.py` | outbox, inbox, redelivery |
| Passes | `passes.py`, `_passes/` | resumable chunk ledger |
| Workflows | `workflows.py` | replay of memoised steps |
| Idempotency | `policy/idempotency.py` | concurrent requests with one key |

Jobs are the core: streams, passes, agents, chat and workflows run as jobs, and
the bus and the webhooks repeat the same leased-and-fenced claim.

## Modules

| Module | Models | Kind |
| --- | --- | --- |
| `FencedWork` | what a leased, fenced queue promises | abstract specification |
| `JobRows` | the jobs table: what each SQL statement does to a row | operators |
| `JobRunner` | processes, workers, callers, sweeper, time | specification |
| `MCJobRunner` | instance for TLC | model |
| `JobRunnerFence` | types, the fence and the inputs | proofs |
| `JobRunnerEndings` | redelivery, endings and reports, refinement of `FencedWork`, the deadline and the lease, where the findings end | proofs |
| `Feed` | what the log promises its readers | abstract specification |
| `Log` | transactions, the log's table, readers with cursors | specification |
| `LogBuffer` | the write buffer in front of the log, extending `Log` | specification |
| `MCLogBuffer` | instance for TLC | model |
| `LogProofs` | types, the cursor, refinement of `Feed`, all of it behind the buffer too, the count of lost rows | proofs |
| `MessageBus` | durable copies, consumers, doorbell, sweeper, stop | specification |
| `GroupRegistry` | which groups a publisher knows | specification |
| `MCMessageBus`, `MCGroupRegistry` | instances for TLC | models |
| `MessageBusProofs` | types, the fence, the bound on deliveries, refinement of `FencedWork`, no lost wake-up | proofs |
| `Playback` | what following a stream promises its client | abstract specification |
| `Streams` | attempts of a producer, cancel, a client that follows | specification |
| `MCStreams` | instance for TLC | model |
| `StreamsWriting` | types, what the attempts of a stream write | proofs |
| `StreamsReading` | one attempt in order, no holes, nobody idles at the end, refinement of `Playback` | proofs |
| `Pool` | leases, waiters, hand-offs, stop of the connection pool | specification |
| `MCPool` | instance for TLC | model |
| `PoolSteps` | what a step does, types, nobody waits beside an idle connection | proofs |
| `PoolLeases` | exclusion, accounting and capacity of the pool | proofs |

### Job runner

State. `rows` is the table, one record per id. `proc` is the supervisor of each
process and `pc` the place of its worker task between two awaits. `held` holds
the claims a process has in memory: the batch it claimed minus what it settled;
the claims that are not current are `_claimed_not_started`. `told` is what the
progress registry says of an id, and `seeding` the launches between their INSERT
and their report.

Actions follow the code one to one: `Enqueue`, `Coalesce`, `Seed` and
`SeedDuplicate` (`enqueue`, `launch`), `Cancel`, `Purge`, `Claim` (`_claim`),
`Begin` (`_run`), `Report` (`ctx.report`), `HandlerEnds` and
`HandlerCancelsItself` (`_run_handler`), `Settle` (`_complete`, `_fail`), `Exit`
(end of `_work`), `Stop`, `Drain`, `Release` and `Halt` (shutdown, or a crash),
`Restart` (`start`), `ReclaimExpired` (the sweeper) and `Tick`.

Abstractions.

- A process has one worker task. Workers of one process share only the drain.
- Arguments are members of `Payloads`; keys are members of `Keys`.
- Time is relative: a lease or a delay counts down, floored at zero.
- Each statement is atomic, as in PostgreSQL. The fault `"lost"` is a statement
  that executes without its answer arriving, or is never executed.
- The progress registry is one shared view. Its fan-out over the bus is not
  modelled, nor is the expiry of its entries.
- `Responsive` is the set of workers whose event loop cancels a handler at its
  deadline and takes up a claim within `Latency`. A handler that blocks the loop
  belongs to a worker outside the set. The theorems quantify over the set; it
  may be empty.

### Append-only log

State. `open` and `committed` are the transaction ids in progress and committed,
`nextXid` the next one; `table` holds the rows, whose `seq` comes from `nextSeq`.
A transaction that is neither open nor committed was rolled back and has no rows.
`cursor` is where each reader continues and `got` the rows it was handed.
`LogBuffer` adds the buffer: `pending` rows in the queue, `batch` drained by the
flush under way, `left` those not known to be written, `rung` the insert awaited,
and the counters `offered`, `landed` and `dropped`. `owed[x]` is the number of
the buffer's rows that transaction `x` carries.

Actions. `Append`, `AppendOnce`, `Purge`, `DropStream` and `Read` are the methods
of `PostgresLog`; `Resume` is a client that comes back with a cursor it was
handed before (`Cursor.encode`, `decode`). `Begin`, `Commit` and `Abort` are
PostgreSQL's. `Offer`, `FlushBegins`, `SendRung`, `RungLands`, `FlushFails` and
`Abandon` are the methods of `_Buffer` and the loop of `append_many`.

Abstractions.

- A row is its xid, seq, stream and dedup key; the payload is left out.
- A transaction takes part from its first write, when PostgreSQL gives it an id.
  The transactions of other tables are `Begin` without an `Append`: they hold the
  horizon all the same.
- A read is one statement on one snapshot. The horizon (`pg_snapshot_xmin`) is
  the oldest open id, or the next one: `Settled`.
- A deletion takes effect in one step, that of its commit. Which committed rows
  are past their retention is any choice, since `at` follows neither the xid nor
  the commit.
- `horizon_lag` and the DDL change no state.
- An awaited insert fails in one of `Failures`: an error its except clause
  names, or the cancellation of the task. The insert may have committed, may
  still commit, or may never have been sent.

What it promises is `Feed`, where there are no transactions and no horizon. New
rows appear after every place a reader was ever given, a reader that moves
forward takes all the rows of its streams that lie between, and it may return to
any place it was given. `Log` implements it with the committed rows as the rows of
the feed: the horizon keeps a reader short of every row that an open transaction
may yet commit, so rows that commit out of order still come in order.

### Message bus

State. `row` is `wreath.messages`, one row per message and group. `life` is the
supervisor of each process, `bell` whether it holds a LISTEN connection, `notes`
the notifications on their way to it. `pc`, `wake` and `task` are the consumer
tasks: where each is, its event, and what it claimed. `unrung` are messages whose
INSERT is done and whose `pg_notify` is not. `heard` and `claims` are history.

Actions. `Publish` and `Ring` are the two statements of `_insert_durable`;
`Dispatch`, `BellDrops` and `BellReopens` the doorbell. A consumer goes through
`BeginClaim` (clear the event), `ClaimRow`, `ClaimNothing` or `ClaimFails` (the
statement at the database), `ClaimReturns` (its answer), `Settle` or
`SettleFails` (handler and disposition) and `Unpark`. `Sweep` is
`_reclaim_expired`, `StopBegins` and `Ends` the shutdown or death of a process.
The claim takes effect and is answered in two steps, since a notification may be
dispatched in between: that is the race `NothingHeardIsSleptThrough` is about.

Abstractions.

- One channel; the dedup key is the message. A publish without a key is a
  message of its own.
- A publish reaches any non-empty set of groups. Which set a publisher knows is
  `GroupRegistry`: its state is the registry table, the snapshot of each process
  and where the process is in its life, its actions `RegisterGroups`, `Learn`,
  `Refresh`, `Prune`, `StopBegins`, `Deregister` and `Crash`.
- The claim takes the copy due for longest; with equal `run_at` that is any.
- An empty answer means that no copy was due (`ClaimNothing`). The statement also
  passes over a row that another transaction has locked (SKIP LOCKED) and comes
  back empty if that was the only one; where that transaction then aborts, the
  copy waits for the next poll. The model has no such aborts: statements are
  single transactions, and one that fails is one that was never executed.
- The backoff is any delay up to `MaxWait`.
- `purge` and ephemeral delivery are left out.

### Resumable streams

State. `table` is the set of the stream's rows, each with its position
(transaction and place in it), `open` the transactions that have not ended and
`nextXid` the next one's id. What a reader may see is as in `Log`: the rows
(`Settled`) older than every open transaction, ordered by position. `att` are the
attempts, named by their fence; `job` says whether another may begin; `canceller` is the call of `cancel` between its read and its
append. `client` is what the other end shows and the id it would resume with,
`conn` the generator `follow` that serves it.

Actions. `Begin` (with `_truncate_below`), `Flush`, `Commit`, `Raise` and
`Killed` are `_produce` and its writer; `CancelReads` and `CancelAppends` are
`cancel`; `Attach`, `ReadPage`, `Supersede`, `HandRow` and `IdleTimeout` are
`follow`, cut at its yields and awaits; `Drop` is a lost connection. Attempts
overlap: a replaced one goes on flushing, as a worker without its lease does.

Abstractions.

- The buffer is the choice of how many chunks a flush carries; `LogBuffer`
  models it. A flush that fails leaves nothing in the log and is part of `Raise`.
- A commit and the writer's continuation are one step. A writer that dies in
  between is one that was `Killed` before the commit.
- The terminal row of `cancel` is inserted and committed in one step.
- Producers let the exception of a flush through.
- A client starts over when told `superseded` and comes back with the last id.

What a client is promised is `Playback`, where there is no log, page or
connection: it is shown one attempt, item by item and each further along than the
last; it starts over only for a newer attempt; its id never goes back; and after
the item that ends the stream there is nothing. `Streams` implements it with what
the client shows, and the refinement map reads nothing else.

What the properties of the passing run do not claim, because the code does not
do it:

- A client whose connection drops on `superseded` resumes behind the row that
  event announced (`missed`), since the event carries that row's cursor. If the
  row was a chunk the client goes on and is told `end` with a hole in what it
  shows, which is the finding of `streams_superseded_id`; if it was terminal the
  idle timeout ends the reader.
- `cancel` writes its row under the fence it read before. Readers of an attempt
  that has written since are at a higher fence and skip the row, although `cancel`
  says that attaching to a cancelled stream "returns the terminal record rather
  than hanging". `NobodyIdlesAtTheEnd` speaks of terminal rows at or above the
  reader's fence, so it leaves out this case and no other. The idle timeout ends
  the reader.
- An attempt killed by its deadline, or whose `finish` fails, leaves no terminal
  row even if it was the last. Here too the idle timeout ends the reader.

`follow` calls the order of the log commit order; it is the order of transaction
ids, which the properties do not depend on.

### Connection pool

State. `available`, `borrowed`, `shared`, `members` and `queue` are the fields of
`Pool`; `reserved` its placeholders; `pc`, `lease`, `fut` and `late` the callers,
with the future each waits on. `opened` and `closed` are the server's view.
`slipped` is history: a hand-off or wake-up met a waiter that had already failed.

Actions. A step is what the event loop runs between two awaits. `Acquire`,
`Opened`, `OpenFails`, `ResumeHanded`, `ResumeWoken` and `ResumeFailed` are
`acquire` and `try_acquire_shared`; the `Release...` actions are `release` and
`try_release_shared` with `_hand_off` and `_wake_one`; `DeadlinePasses`,
`Cancel` and `Break` come from outside; `Stop`, `StopRaises`, `GraceEnds` and
`FinishStop` are `stop`. A future is resolved in one step and its caller resumes
in another, and everything may run in between.

What `stop` leaves open. It waits for `_borrowed` and closes what is idle or in
`_borrowed`; leases that callers share are in `_shared`, which it does not read.
With only shared leases out it waits for nothing, and their connections are open
when it returns (`pool_stop_shared`), as is one whose opening ends after it.
`LeasesAreAccountedFor` says what is true instead: such a connection is in
`_shared` or `_borrowed` and has a holder, and the holder's release closes it.

`slipped` exempts what follows a lost hand-off or wake-up from
`LeasesAreAccountedFor` and `FreedCapacityIsUsed`: a waiter that had failed
before it was picked, and one that is cancelled after it was woken, which
keeps the wake-up to itself. The other properties hold regardless.

## Runs

| Run | Expect | Shows |
| --- | --- | --- |
| `jobs` | pass | every operation and fault on one job, the fence, the lease and the deadline, and refinement of `FencedWork` |
| `jobs_overlap` | violation | a later job of a batch can outlive its lease |
| `jobs_worker_ends` | violation | a handler's own `CancelledError` ends the worker |
| `log` | pass | a reader skips no committed row and gets each in the end, the log is a `Feed`; a failing flush counts what it may have lost |
| `log_cancelled_flush` | violation | a cancelled flush loses rows uncounted |
| `bus` | pass | fence, bounded deliveries, no lost wake-up, every copy settled |
| `bus_scale_in` | violation | a draining replica deregisters the group of its siblings |
| `streams` | pass | one attempt, in order, no holes, as `Playback` has it; an ended stream lets its client go |
| `streams_superseded_id` | violation | the id of a `superseded` event skips the row it announces |
| `pool` | pass | exclusive and bounded leases, no waiting beside capacity, every acquire and stop returns |
| `pool_lost_lease` | violation | a lease handed to a waiter that already failed is lost |
| `pool_stop_shared` | violation | `stop` neither waits for shared leases nor closes them |

Bounds. Two processes are enough for one to be stale while the other holds the
job. `MaxFence = 3` lets a row be claimed, reclaimed and claimed again, so a
holder of the first fence meets a holder of the third. Budgets of 1 and 2 give
both a job buried at once and one retried first, with the row's budget above and
below the handler's. A lease of two ticks and a deadline of one is the smallest
instance with `Deadline < Lease`. One job is enough for every interleaving on a
row, and two do not fit with all the faults: `SoleHolder` and
`FirstOfBatchKeepsItsLease` were checked on batches of two jobs as well, with the
constants of `jobs_overlap` (1,028,801 states), and are proved for any. Deadlock is not checked: with every row purged
and the fence bound reached the instance has nothing left to do.

For the log, three transactions are the least with which one is slow, a second
commits around it and a third holds the horizon or brings a later row; a page of
one row makes the cursor stop between two rows of one transaction. One reader
is enough, since readers share nothing. It reads one of two streams, so that
rows outside its scope come between. The buffer holds two rows, of three
offered, so it overflows, and a flush takes two inserts when a rung of one
follows another. Deadlock is not checked: the bounds stop the writers. The same
properties were checked with four transactions, and with three rows of one
stream; the safety properties also with three rows, two streams and rungs of
one and two.

For the bus, two consumers of one group are enough for one to be stale, and one
message for them to compete for. `MaxAttempts = 3` and `Retries = 1` make the two
budgets differ, so that a copy is buried by either. Two processes with
`MaxAttempts = 2`, and two messages (safety only), were checked as well; the
proofs cover the rest. Deadlock is not checked: settled copies leave nothing to
do. The registry needs two replicas and one group.

For streams, two attempts give a replaced writer and its replacement, a page of
two rows spans a change of attempt, and one break lets a client resume at every
point. `Breaks = 2` was checked as well. Liveness is beyond TLC's reach at this
size; `NobodyIdlesAtTheEnd` states as an invariant
that no reader is left waiting beside a terminal row of its attempt. The
deadlock check is off: a stream that has ended is still.

For the pool, three callers on one connection, two of them sharing, make a
holder, a waiter that is handed the connection and one that is overtaken; the
second connection replaces one that broke. With `MaxSize = 2` and three
connections the safety properties were checked too. Deadlock is not checked: a
stopped pool is still.

Fairness. `CatchesUp` is checked under `BufFairness`: every transaction ends
(`WF` of its commit or abort), which is what the module asks of its database where it explains
`horizon_lag`, and every reader goes on asking while there is something to read
(`WF` of `Read`), as the loops of the callers do. Nothing is assumed of writers,
of deletions or of reconnections.

`EveryCopySettles` assumes that time passes, that a consumer task goes on (its
timers fire, its handler ends), that the sweeper's loop runs while its process
does, and strong fairness of `ClaimRow`: of claims repeated for ever on a group
with a copy due, one succeeds in the end, where the code retries after every
failure. It assumes nothing of notifications, which may all be lost, and speaks
only of a process with a consumer left.

`AcquireReturns` and `StopReturns` assume that timers fire, that tasks that can
run do, and that an attempt to open a connection ends one way or the other; not
that any borrower ever releases. The other properties are safety properties and
need no fairness.

## Proofs

All results hold for every finite or infinite set of jobs, processes, keys and
payloads, and for all leases, deadlines and budgets that satisfy
`RowsAssumption` and `RunnerAssumption`. Leaves that are first-order name `Zenon`,
which is quicker with them; the rest goes to the SMT solver.

- `TypeCorrect`: the type invariant (`JobRunnerFence`).
- `FenceIsExclusive` proves `SoleHolder`. The invariant is not inductive. The
  strengthening `Fencing` has three parts: no claim in memory is ahead of its
  row's fence, and its row exists; a claim whose fence equals its row's is on a
  leased row with the claim's arguments and attempt; and two claims in memory
  with one id and one fence are the same claim of the same process. A claim and
  a reclaim raise the fence, which makes every older claim stale at once.
- `InputsAreCurrent` proves `RunsCurrentInputs` from `Fencing`: only a `ready`
  row is coalesced, and no claim is live on a ready row.
- `RedeliveryIsBounded` proves `AttemptsBounded` through `Affordable`.
- `ReportsStayTrue` proves `ReportsAreTrue`: `done` and `dead` are final.
- `DeadlineFitsTheLease` proves `FirstOfBatchKeepsItsLease` through `LeaseKept`:
  on a responsive worker, the lease of a row has spent no more than the time
  since the claim was sent, which is at most `Latency` until the first handler
  starts and at most `Deadline + Latency` until it ends.
- `RunnerIsFencedWork` proves the refinement of `FencedWork`.

Three more are boundaries. The first two say how far a finding goes, each under
the assumption that excludes what the violation run needs:

- `ABatchOfOneNeverOverlaps` proves `HandlersNeverOverlap` for `Batch = 1`, the
  default, under all faults. A worker is early with a claim while the claim is
  being answered and while the first handler of the batch runs, and `LeaseKept`
  says that the lease then lasts. So a row that anybody is early with is not
  claimed again, and no two workers are early with one job (`Alone`). With a
  batch of one, every handler is the first of its batch (`OneClaim`) and runs a
  job that its worker holds (`OnItsJob`).
- `OnlyItsHandlerEndsAWorker` proves `WorkersOutliveTheirJobs` where no handler
  raises `CancelledError` of its own.
- `OnlyTheSweeperIsSilent`: while no answer is lost, a step that buries a job
  reports it as failed (`Announced`), unless it is the sweeper's. A watched job
  that kills its process on its last attempt is buried by the sweeper, and its
  watchers stay on the last report: `_reclaim_expired` reports nothing.

For the log, under `LogAssumption` and `BufferAssumption`, for any sets of
streams, readers and keys, any page size and any bounds:

- `LogTypeCorrect`: the type invariant.
- `ReadersNeverSkip` proves `NeverSkips`. A reader's history alone is not
  inductive: a row could commit below a cursor later on. The strengthening
  `Caught` adds `OnlySettled`, that every row handed over belongs to a
  transaction older than all those still open, and `OwnCursor`, that a reader's
  cursor is one it was handed. No transaction can then begin or commit at or
  below any cursor that is out.
- `LogIsAFeed` proves `ImplementsFeed` from `Caught`. Every step that is not a
  reader's is one of `Advances`: nothing settled becomes unsettled, and a row that
  becomes visible is of a transaction that was open. Such a row comes after every
  place a reader was given (`AdvancesIsFeed`). A page is sorted and leaves nothing
  out, so a read takes all that lies between two places (`ReadIsFeed`).
- `BufferedReadersNeverSkip` and `BufferedLogIsAFeed` say the same of `BufSpec`:
  rows that reach the log through the buffer, in inserts that may be cancelled
  or commit after their caller gave up, are read as any others. A step of the
  buffer moves the log as one of the log's own does, or not at all (`BufferStep`).
- `BufferedLossIsCounted` proves `LossIsCounted` when `Failures` has no
  `"cancelled"`. The strengthening `Accounted` subtracts from `left` the rows of
  an insert that committed and whose answer has not arrived, which are in both
  `left` and `landed`.

For the bus, under `BusAssumption`, for any sets of messages, groups, processes
and consumers and any lease, delays and budgets:

- `BusTypeCorrect`: the type invariant.
- `RedeliveryIsBounded` proves `DeliveriesAreBounded` through `AllCharged`: the
  claims of a ready row are its attempts, those of a leased row one more, and a
  finished row has at most one that was not charged. It rests on `Fencing`: a task never holds a fence
  above its row's, and one that equals it belongs to a leased row and a single
  consumer. A lemma reduces every step to what it does to one row (`RowStep`).
- `BusIsFencedWork` proves `ImplementsFencedWork` from `Fencing`: every step of
  the bus is, for each copy, one of the steps of `FencedWork` or none.
- `NoLostWakeup` proves `NothingHeardIsSleptThrough`. The invariant must reach
  back to the empty answer (`Awake`), and needs `Fresh`: a copy that was heard
  of and never claimed is still due, so an empty claim shows there is none.

For the pool, under `PoolAssumption`, for any sets of callers and connections,
any sizes, any queue and any pipeline depth. `EveryStep` names what each caller
may do (`Moves`), and `EveryStepIsAConnStep` what a step may do to one connection:
it is kept, lent, joined, left, returned, shared out, dropped or closed. The
invariants are then shown for each kind of step, not for each action. The base
(`Base`) is the types, that a caller has a connection only where its place in
`acquire` lets it (`Callers`), that everything in use was opened (`Placed`) and
that nothing happens before `start` (`Fresh`).

- `PoolTypeCorrect`: the type invariant.
- `NobodyWaitsInVain` proves `NobodyWaitsForAnIdleConnection`. It needs
  `WaitersAreQueued`: who waits is in the queue, so a hand-off finds somebody.
- `ConnectionsAreExclusive` proves `LeasesAreExclusive` from `InUse`: an idle
  connection is nobody's, a shared one has as many callers as the pool counts,
  all of them callers of single statements, and any other has one at most, and is
  borrowed or closed already.
- `BorrowedConnectionsHaveHolders` proves `LeasesAreAccountedFor` from
  `Accounted`, that until a hand-off or wake-up is lost an open connection is idle
  or somebody's, and from `InUse`, that a caller's connection is shared, borrowed
  or closed.
- `StopClosesExclusiveLeases` is the boundary of `pool_stop_shared`: with
  `Depth = 1` nothing is shared, and nothing is open when `stop` returns, unless a
  hand-off was lost before. Only `CloseAll` ends a stop (`ClosingEndsStop`), and
  what is open then is idle or borrowed.
- `MaxSizeBoundsTheServer` proves `ServerLoadIsBounded` from `Counted`: what is
  open is a member, the placeholders are the callers that are opening one, and
  members and placeholders together are `max_size` at most. It does not rest on
  `slipped`: the bound holds whatever is lost.
- `FreedCapacityIsPassedOn` proves `FreedCapacityIsUsed` from `PassedOn`, which
  counts: whenever somebody waits, members, placeholders and callers woken add up
  to `max_size`. That somebody was woken would not be enough to
  go on with: that one may take one place while another is still free.

For streams, under `StreamAssumption`, for any number of attempts, chunks and
broken connections, any page size and either discipline. `Sides` says what a step
can be: one of the reader's; one that adds no row; one that adds rows of a new
transaction, those of an attempt or the one of `cancel`. Two invariants follow,
one about what is written and one about what is read of it.

- `StreamTypeCorrect`: the type invariant (`StreamsWriting`).
- `Written` speaks of every row that is in the table, in a page on its way or
  shown by a client, since truncation deletes the first while the others live on.
  The chunks of an attempt have their positions in the order of their indices,
  and lie below the index its writer has reached; where nothing is truncated, the
  chunks before a chunk are in the table, before it.
- `Served` (`StreamsReading`) relates a client to the generator that serves it.
  Both are below every open transaction, so that no row appears behind them
  (`Below`); what lies between them is in the page, but for rows of replaced
  attempts (`Pages`); what lies behind the client is of its attempt or an older
  one, and of its own it has every row (`Passed`). A row that is announced by
  `superseded` and not handed over yet is at the client's position and still
  ahead of it (`Beyond`): that is the exception the properties have to make.
- `NeverMixedHolds` proves `NeverMixed` from both: the text is of one fence and in
  the order of positions (`Texts`), and that is the order of indices.
- `NoHolesHolds` proves `NoHoles`, a part of `Served`: the chunk before a row that
  is handed over exists (`Written`), is not in the page, and so has been shown.
- `NobodyIdles` proves `NobodyIdlesAtTheEnd`: a terminal row at or above its fence
  that the reader is past would be one that its client has, and that client is
  done.
- `FollowIsPlayback` proves `ImplementsPlayback` from `Served`: the row a client is
  handed is of its own attempt and beyond its position, or its first; a row that
  supersedes is of a newer attempt; a client that is done is handed nothing more,
  over any number of connections.

The inductive invariants and the refinements were checked by TLC first: those of the pool on the
instance of the run and with `MaxSize = 2` and three connections, those of
streams on the instance of the run and, in part (nine million states), with two
chunks. `ABatchOfOneNeverOverlaps` was checked with two jobs and two responsive
workers, the other two boundary theorems on the instance of `jobs` without the
fault they exclude.

Checked by TLC only: `CatchesUp`, `EveryCopySettles`, `AcquireReturns` and
`StopReturns`, which are liveness properties. Those of the violation runs do not
hold as they stand. Every safety property of a passing run is
proved, and so is every refinement.

## Findings

Seven runs end in a violation; the text of each is in `PROJECT.json`. In short:

- a handler late in a batch can overlap its own retry (with `batch = 1`, the
  default, it cannot);
- a handler that raises `CancelledError` takes its worker with it (nothing else
  ends a worker);
- a flush that is cancelled loses its batch without counting it;
- a replica that drains deregisters the groups its siblings still consume;
- a connection handed to a waiter that timed out or was cancelled in the same
  turn of the event loop stays borrowed for ever;
- `Pool.stop` leaves connections open that are out under shared leases (without
  sharing it closes everything);
- a client that loses its connection on `superseded` skips the row that event
  announced.

## What is not modelled

Parsing, rendering, cryptography, provider I/O and native codecs: functions of
their input, or outside the reach of a model checker. The cron scheduler and
`drive` are callers of `enqueue` with a key and are covered by `Enqueue`.

The ORM, migrations, billing, auth, storage, server and tooling make up most of
the repository and have little protocol state of their own; each is listed in
`PROJECT.json` with its reason. Of the modelled parts: the runner's wake-up path
(the bus has the same loop over the same doorbell), the supervisor's start of
several services, the purge of messages, ephemeral delivery, the framings of a
stream, and everything of the driver but its pool.

## Plan

Done: the job runner and the durable bus, both shown to implement `FencedWork`;
the log with its buffer, shown to implement `Feed`; streams, shown to implement
`Playback`; the pool; and proofs of every safety property of their passing runs. Next, in this order:

1. `Streams` over `Feed`, in place of its own account of the horizon.
2. The idempotency policy: claim, replay and expiry of a key.
3. Webhook delivery, which repeats the leased claim, then passes and workflows.
