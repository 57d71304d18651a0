----------------------------- MODULE JobRunner -----------------------------
(***************************************************************************)
(* The job runner of jobs.py: processes that claim rows of the jobs table   *)
(* under a lease, run their handlers and record the outcome under the fence *)
(* of the claim, while callers enqueue, cancel and purge and a sweeper      *)
(* takes back the leases that ran out.  Each step of a process lies between *)
(* two of its awaits; a statement and the arrival of its answer are one     *)
(* step only where nothing another actor does in between is visible.        *)
(*                                                                         *)
(* A process is a runner with one worker task (concurrency = 1); the        *)
(* workers of one process share only the drain.                             *)
(***************************************************************************)
EXTENDS JobRows

CONSTANTS Workers,     \* processes
          NoJob,       \* the worker is not on any job
          Batch,       \* rows a single claim may take
          Deadline,    \* ticks a handler may run before it is cancelled
          Latency,     \* ticks a claim's answer takes to reach its worker
          Responsive,  \* workers whose event loop keeps those two bounds
          Registry,    \* the runner was given a progress registry
          MaxFence,    \* bound: a row is claimed no further than this fence
          Faults       \* which faults happen: "crash", "lost", "selfcancel"

ASSUME RunnerAssumption ==
    /\ NoJob \notin Ids
    /\ Batch \in Nat \ {0}
    /\ Deadline \in Nat /\ Latency \in Nat
    /\ Deadline + Latency < Lease
    /\ Responsive \subseteq Workers
    /\ Registry \in BOOLEAN
    /\ MaxFence \in Nat

VARIABLES rows,        \* the table: [Ids -> Row]
          proc,        \* the supervisor of each process
          pc,          \* where its worker task is
          held,        \* the claims the process still has in memory
          cur,         \* the id of the claim being run or settled
          first,       \* the handler running is the first of its batch
          ran,         \* ticks since the claim was sent or the handler began
          seeding,     \* launches between their INSERT and their report
          told         \* what the progress registry says of each id

vars == <<rows, proc, pc, held, cur, first, ran, seeding, told>>
procVars == <<proc, pc, held, cur, first, ran>>

ClaimedJob == [id : Ids, fence : Nat, attempts : Nat, args : Payloads]
ProcStates == {"up", "stopping", "releasing", "drained", "down"}

(* idle: at the head of _work, parked or with its claim statement not yet   *)
(* executed; claiming: executed, answer on its way; batch: between two jobs *)
(* of a batch; ended: the task is over.                                     *)
Settling == {"completing", "failing", "orphaned", "burying"}
WorkerStates == {"idle", "claiming", "batch", "running", "ended"} \cup Settling
Reports == {"none", "open", "done", "failed"}
MaxRan == Deadline + Latency

(* The WHERE clause of every statement a claim's holder issues.             *)
Live(c) == Exists(rows[c.id]) /\ rows[c.id].fence = c.fence
ClaimOf(i) == [id |-> i, fence |-> rows[i].fence + 1,
               attempts |-> rows[i].attempts, args |-> rows[i].args]
OnJob(w) == pc[w] \in Settling \cup {"running"}
Current(w, c) == OnJob(w) /\ c \in held[w] /\ c.id = cur[w]
Unstarted(w) == {c \in held[w] : ~Current(w, c)}
Tell(i, report) == told' = IF Registry THEN [told EXCEPT ![i] = report] ELSE told

Init == /\ rows = [i \in Ids |-> AbsentRow]
        /\ proc = [w \in Workers |-> "up"]
        /\ pc = [w \in Workers |-> "idle"]
        /\ held = [w \in Workers |-> {}]
        /\ cur = [w \in Workers |-> NoJob]
        /\ first = [w \in Workers |-> FALSE]
        /\ ran = [w \in Workers |-> 0]
        /\ seeding = {}
        /\ told = [i \in Ids |-> "none"]

-----------------------------------------------------------------------------
(* Callers.                                                                 *)

Taken(k) == k # NoKey /\ \E j \in Ids : Exists(rows[j]) /\ rows[j].key = k

(* enqueue, and the INSERT of launch, of work whose key is free.            *)
Enqueue(i, k, a, m, d, watched) ==
    /\ rows[i].state = "absent"
    /\ ~Taken(k)
    /\ rows' = [rows EXCEPT ![i] = Inserted(k, a, m, d)]
    /\ seeding' = IF watched /\ Registry THEN seeding \cup {i} ELSE seeding
    /\ UNCHANGED <<procVars, told>>

(* enqueue(coalesce=True) of work whose key is taken.  Without coalesce the *)
(* conflict does nothing at all.                                            *)
Coalesce(i, a, d) ==
    /\ Exists(rows[i]) /\ rows[i].key # NoKey
    /\ rows' = [rows EXCEPT ![i] = Coalesced(@, a, d)]
    /\ UNCHANGED <<procVars, seeding, told>>

(* launch reports the row it inserted as queued...                          *)
Seed(i) ==
    /\ i \in seeding
    /\ seeding' = seeding \ {i}
    /\ Tell(i, "open")
    /\ UNCHANGED <<rows, procVars>>

(* ... and a deduplicated launch the row it found, if nothing is known.     *)
SeedDuplicate(i) ==
    /\ Exists(rows[i]) /\ rows[i].key # NoKey
    /\ Registry /\ told[i] = "none"
    /\ Tell(i, "open")
    /\ UNCHANGED <<rows, procVars, seeding>>

Cancel(i) ==
    /\ rows[i].state \in {"ready", "leased"}
    /\ rows' = [rows EXCEPT ![i] = Cancelled(@)]
    /\ Tell(i, "failed") \/ ("lost" \in Faults /\ UNCHANGED told)
    /\ UNCHANGED <<procVars, seeding>>

Purge(i) ==
    /\ rows[i].state \in {"done", "dead"}
    /\ rows' = [rows EXCEPT ![i] = Purged(@)]
    /\ UNCHANGED <<procVars, seeding, told>>

-----------------------------------------------------------------------------
(* The worker task: _work, _run, _run_handler, _fail, _complete.            *)

(* LIMIT n: the rows of S can be numbered from 1 to n.                      *)
AtMost(n, S) ==
    \E number \in [S -> 1 .. n] : \A i, j \in S : number[i] = number[j] => i = j

(* _claim executes: up to Batch due rows, each under a fence of its own.    *)
(* SKIP LOCKED lets any of them be passed over.  A worker that read         *)
(* `stopping` before it was set still claims once.                          *)
Claim(w, S) ==
    /\ proc[w] # "down" /\ pc[w] = "idle"
    /\ S # {} /\ AtMost(Batch, S)
    /\ \A i \in S : Due(rows[i]) /\ rows[i].fence < MaxFence
    /\ rows' = [i \in Ids |-> IF i \in S THEN Claimed(rows[i]) ELSE rows[i]]
    /\ \/ /\ pc' = [pc EXCEPT ![w] = "claiming"]
          /\ held' = [held EXCEPT ![w] = {ClaimOf(i) : i \in S}]
          /\ ran' = [ran EXCEPT ![w] = 0]
       \/ /\ "lost" \in Faults             \* the answer never arrives: _park
          /\ UNCHANGED <<pc, held, ran>>
    /\ UNCHANGED <<proc, cur, first, seeding, told>>

(* The next job of the batch leaves _claimed_not_started: its handler runs, *)
(* or it is failed because nothing is registered or its arguments no longer *)
(* bind.                                                                    *)
Begin(w, c) ==
    /\ proc[w] = "up" /\ pc[w] \in {"claiming", "batch"}
    /\ c \in held[w]
    /\ \E p \in {"running", "orphaned", "burying"} :
         /\ pc' = [pc EXCEPT ![w] = p]
         /\ first' = [first EXCEPT ![w] = pc[w] = "claiming" /\ p = "running"]
    /\ cur' = [cur EXCEPT ![w] = c.id]
    /\ ran' = [ran EXCEPT ![w] = 0]
    /\ UNCHANGED <<rows, proc, held, seeding, told>>

(* ctx.report from inside a handler.                                        *)
Report(w) ==
    /\ Registry /\ pc[w] = "running"
    /\ Tell(cur[w], "open")
    /\ UNCHANGED <<rows, procVars, seeding>>

(* The handler returns, raises, or is cancelled at its deadline; a deadline *)
(* miss is failed like any other attempt.                                   *)
HandlerEnds(w) ==
    /\ pc[w] = "running"
    /\ \E p \in {"completing", "failing"} : pc' = [pc EXCEPT ![w] = p]
    /\ first' = [first EXCEPT ![w] = FALSE]
    /\ ran' = [ran EXCEPT ![w] = 0]
    /\ UNCHANGED <<rows, proc, held, cur, seeding, told>>

(* The handler raises CancelledError of its own accord: _run_handler and    *)
(* _work re-raise it and the worker task is over, its current claim         *)
(* forgotten and the rest of its batch still listed.                        *)
HandlerCancelsItself(w) ==
    /\ "selfcancel" \in Faults
    /\ pc[w] = "running"
    /\ pc' = [pc EXCEPT ![w] = "ended"]
    /\ held' = [held EXCEPT ![w] = Unstarted(w)]
    /\ cur' = [cur EXCEPT ![w] = NoJob]
    /\ first' = [first EXCEPT ![w] = FALSE]
    /\ ran' = [ran EXCEPT ![w] = 0]
    /\ UNCHANGED <<rows, proc, seeding, told>>

(* What _complete or _fail writes for claim c on a row that is still its.   *)
Outcomes(w, c) ==
    LET r == rows[c.id]
        n == c.attempts + 1
    IN  CASE pc[w] = "completing" -> {Completed(r)}
          [] pc[w] = "failing" -> IF n >= TaskBudget THEN {DeadLettered(r, n)}
                                  ELSE {Retried(r, n, d) : d \in Delays}
          [] pc[w] = "orphaned" -> IF n >= r.budget THEN {DeadLettered(r, n)}
                                   ELSE {Retried(r, n, 0)}
          [] pc[w] = "burying" -> {DeadLettered(r, n)}

ReportFor(r, before) == CASE r.state = "done" -> "done"
                          [] r.state = "dead" -> "failed"
                          [] OTHER -> before

(* A slip: the ending is reported whether or not a row moved.               *)
RecordReportsAnyway(w, c) ==
    \E r \in Outcomes(w, c) :
        /\ rows' = IF Live(c) THEN [rows EXCEPT ![c.id] = r] ELSE rows
        /\ Tell(c.id, ReportFor(r, told[c.id]))

(* The fenced UPDATE executes; the terminal report follows its answer, and  *)
(* only if a row moved.  A lost answer is a run error: no report.           *)
Record(w, c) ==
    \/ /\ Live(c)
       /\ \E r \in Outcomes(w, c) :
            /\ rows' = [rows EXCEPT ![c.id] = r]
            /\ Tell(c.id, ReportFor(r, told[c.id])) \/ ("lost" \in Faults /\ UNCHANGED told)
    \/ /\ ~Live(c) \/ "lost" \in Faults      \* fenced out, or not executed
       /\ UNCHANGED <<rows, told>>

(* Whatever the outcome of the UPDATE the worker goes on with its batch.    *)
Settle(w, c) ==
    /\ pc[w] \in Settling /\ Current(w, c)
    /\ Record(w, c)
    /\ held' = [held EXCEPT ![w] = @ \ {c}]
    /\ pc' = [pc EXCEPT ![w] = IF held[w] = {c} THEN "idle" ELSE "batch"]
    /\ cur' = [cur EXCEPT ![w] = NoJob]
    /\ UNCHANGED <<proc, first, ran, seeding>>

(* The task leaves its loop once it sees `stopping`, which it reads before  *)
(* every claim and before every job of a batch.                             *)
Exit(w) ==
    /\ proc[w] \notin {"up", "down"}
    /\ pc[w] \in {"idle", "claiming", "batch"}
    /\ pc' = [pc EXCEPT ![w] = "ended"]
    /\ ran' = [ran EXCEPT ![w] = 0]
    /\ UNCHANGED <<rows, proc, held, cur, first, seeding, told>>

-----------------------------------------------------------------------------
(* The process: Supervisor.stop, drain, and death.                          *)

Stop(w) ==
    /\ proc[w] = "up"
    /\ proc' = [proc EXCEPT ![w] = "stopping"]
    /\ UNCHANGED <<rows, pc, held, cur, first, ran, seeding, told>>

(* drain has waited for the handler or for its deadline and takes over      *)
(* _claimed_not_started.  A claim whose answer is still on its way is not   *)
(* in that list yet and will not be handed back.                            *)
Drain(w) ==
    /\ proc[w] = "stopping"
    /\ proc' = [proc EXCEPT ![w] = IF pc[w] = "claiming" \/ Unstarted(w) = {}
                                   THEN "drained" ELSE "releasing"]
    /\ UNCHANGED <<rows, pc, held, cur, first, ran, seeding, told>>

(* A slip: the hand-back is not fenced.                                     *)
ReleaseUnfenced(w, c) ==
    /\ proc[w] = "releasing" /\ c \in Unstarted(w)
    /\ rows' = [rows EXCEPT ![c.id] = IF @.state = "leased" THEN Released(@) ELSE @]
    /\ held' = [held EXCEPT ![w] = @ \ {c}]
    /\ proc' = [proc EXCEPT ![w] = IF Unstarted(w) = {c} THEN "drained" ELSE @]
    /\ UNCHANGED <<pc, cur, first, ran, seeding, told>>

(* _release_unstarted, one claim at a time; a failed UPDATE is suppressed.  *)
Release(w, c) ==
    /\ proc[w] = "releasing" /\ c \in Unstarted(w)
    /\ \/ Live(c) /\ rows[c.id].state = "leased"
          /\ rows' = [rows EXCEPT ![c.id] = Released(@)]
       \/ ~Live(c) /\ UNCHANGED rows
       \/ "lost" \in Faults /\ UNCHANGED rows
    /\ held' = [held EXCEPT ![w] = @ \ {c}]
    /\ proc' = [proc EXCEPT ![w] = IF Unstarted(w) = {c} THEN "drained" ELSE @]
    /\ UNCHANGED <<pc, cur, first, ran, seeding, told>>

(* _cancel_all after the drain, or the process dies: its memory is gone.    *)
Halt(w) ==
    /\ proc[w] = "drained" \/ (proc[w] # "down" /\ "crash" \in Faults)
    /\ proc' = [proc EXCEPT ![w] = "down"]
    /\ pc' = [pc EXCEPT ![w] = "ended"]
    /\ held' = [held EXCEPT ![w] = {}]
    /\ cur' = [cur EXCEPT ![w] = NoJob]
    /\ first' = [first EXCEPT ![w] = FALSE]
    /\ ran' = [ran EXCEPT ![w] = 0]
    /\ UNCHANGED <<rows, seeding, told>>

Restart(w) ==
    /\ proc[w] = "down"
    /\ proc' = [proc EXCEPT ![w] = "up"]
    /\ pc' = [pc EXCEPT ![w] = "idle"]
    /\ UNCHANGED <<rows, held, cur, first, ran, seeding, told>>

-----------------------------------------------------------------------------
(* The sweeper of any running process, and time.                            *)

ReclaimExpired ==
    /\ \E w \in Workers : proc[w] = "up"
    /\ \E i \in Ids : Expired(rows[i])
    /\ rows' = [i \in Ids |-> IF Expired(rows[i]) THEN Reclaimed(rows[i]) ELSE rows[i]]
    /\ UNCHANGED <<procVars, seeding, told>>

(* A slip: handlers have no deadline.                                       *)
OverdueNever(w) == pc[w] = "claiming" /\ ran[w] >= Latency

(* A responsive worker gets the answer of its claim within Latency ticks    *)
(* and cancels its handler at Deadline.                                     *)
Overdue(w) == \/ pc[w] = "claiming" /\ ran[w] >= Latency
              \/ pc[w] = "running" /\ ran[w] >= Deadline
Timed(w) == pc[w] \in {"claiming", "running"} /\ ran[w] < MaxRan

Tick ==
    /\ \A w \in Responsive : ~Overdue(w)
    /\ rows' = [i \in Ids |-> Aged(rows[i])]
    /\ ran' = [w \in Workers |-> IF Timed(w) THEN ran[w] + 1 ELSE ran[w]]
    /\ UNCHANGED <<proc, pc, held, cur, first, seeding, told>>

WorkerStep(w) ==
    \/ \E S \in SUBSET Ids : Claim(w, S)
    \/ \E c \in held[w] : Begin(w, c) \/ Settle(w, c) \/ Release(w, c)
    \/ Report(w) \/ HandlerEnds(w) \/ HandlerCancelsItself(w)
    \/ Exit(w) \/ Stop(w) \/ Drain(w) \/ Halt(w) \/ Restart(w)

CallerStep(i) ==
    \/ \E k \in Keys \cup {NoKey}, a \in Payloads, m \in RowBudgets,
          d \in Delays, watched \in BOOLEAN : Enqueue(i, k, a, m, d, watched)
    \/ \E a \in Payloads, d \in Delays : Coalesce(i, a, d)
    \/ Seed(i) \/ SeedDuplicate(i) \/ Cancel(i) \/ Purge(i)

Next == \/ \E w \in Workers : WorkerStep(w)
        \/ \E i \in Ids : CallerStep(i)
        \/ ReclaimExpired
        \/ Tick

Spec == Init /\ [][Next]_vars

-----------------------------------------------------------------------------
(* Properties.                                                              *)

TypeOK ==
    /\ rows \in [Ids -> Row]
    /\ proc \in [Workers -> ProcStates]
    /\ pc \in [Workers -> WorkerStates]
    /\ held \in [Workers -> SUBSET ClaimedJob]
    /\ cur \in [Workers -> Ids \cup {NoJob}]
    /\ first \in [Workers -> BOOLEAN]
    /\ ran \in [Workers -> 0 .. MaxRan]
    /\ seeding \in SUBSET Ids
    /\ told \in [Ids -> Reports]

(* Who may still record an outcome for row i.                               *)
Holders(i) == {w \in Workers : \E c \in held[w] : c.id = i /\ Live(c)}

(* The fence is exclusive: whatever crashed, expired, was cancelled or is   *)
(* still running, at most one process can move a row, and only a leased one *)
(* (the outcome statements of _complete and _fail do not test the state).   *)
SoleHolder ==
    \A i \in Ids : /\ \A w1, w2 \in Holders(i) : w1 = w2
                   /\ Holders(i) # {} => rows[i].state = "leased"

(* A handler whose outcome will count runs on the arguments and the attempt *)
(* number the row has now: coalescing never changes work being done.        *)
RunsCurrentInputs ==
    \A w \in Workers : \A c \in held[w] :
        Live(c) => c.args = rows[c.id].args /\ c.attempts = rows[c.id].attempts

(* The progress registry never announces an ending that did not happen.     *)
ReportsAreTrue ==
    \A i \in Ids : /\ told[i] = "done" => rows[i].state \in {"done", "purged"}
                   /\ told[i] = "failed" => rows[i].state \in {"dead", "purged"}

(* A job is attempted no more often than the larger of the two budgets the  *)
(* code consults (the handler's in _fail, the row's in the sweeper), crashed *)
(* attempts included: no poison job is redelivered for ever.                *)
AttemptsBounded ==
    \A i \in Ids : /\ rows[i].attempts <= rows[i].budget \/ rows[i].attempts <= TaskBudget
                   /\ rows[i].state = "ready" =>
                        rows[i].attempts < rows[i].budget \/ rows[i].attempts < TaskBudget

(* The point of DEADLINE_FRACTION: on a responsive event loop the handler   *)
(* started first after a claim never outlives the lease, so nobody else can *)
(* be running the job; only a cancellation gets ahead of it.                *)
FirstOfBatchKeepsItsLease ==
    \A w \in Responsive : \A c \in held[w] :
        pc[w] = "running" /\ first[w] /\ Current(w, c) =>
            Live(c) \/ rows[c.id].state \in {"dead", "purged"}

(* What task() says of timeout: "a handler has to finish -- or be           *)
(* cancelled -- before then", so that two handlers never run one job.       *)
HandlersNeverOverlap ==
    \A w1, w2 \in Responsive :
        pc[w1] = "running" /\ pc[w2] = "running" /\ cur[w1] = cur[w2] => w1 = w2

(* What _run_handler says of a CancelledError: "Not ours: the supervisor is *)
(* stopping".  A worker task of a process that is not stopping goes on.     *)
WorkersOutliveTheirJobs ==
    \A w \in Workers : pc[w] = "ended" => proc[w] # "up"

(* The runner implements the promise of a leased, fenced queue.             *)
FW == INSTANCE FencedWork WITH
        Items <- Ids, Takers <- Workers,
        status <- [i \in Ids |-> IF rows[i].state = "purged" THEN "gone"
                                 ELSE rows[i].state],
        holders <- [i \in Ids |-> Holders(i)]
ImplementsFencedWork == FW!Spec
=============================================================================
