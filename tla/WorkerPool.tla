----------------------------- MODULE WorkerPool -----------------------------
(***************************************************************************)
(* internal/performance/worker_pool.go: submitters, the priority           *)
(* dispatcher, the workers and Stop around two buffered channels.  Every   *)
(* Start makes a new generation of workers and a new context, over the     *)
(* channels the pool was created with.  A closed channel still hands out   *)
(* what it holds; sending on it or closing it again panics.                *)
(***************************************************************************)
EXTENDS Naturals, Sequences, FiniteSets, SequencesExt

CONSTANTS
    WorkerCount,
    QueueSize,      \* maxQueueSize (workerCount * 10 in the code)
    PrioritySize,   \* capacity of priorityQueue (maxQueueSize / 4)
    MaxJobs,        \* bound: jobs handed to Submit
    MaxStarts       \* bound: times the pool is started

ASSUME PoolAssumption ==
    /\ WorkerCount \in Nat \ {0} /\ QueueSize \in Nat \ {0} /\ PrioritySize \in Nat
    /\ MaxJobs \in Nat /\ MaxStarts \in Nat \ {0}

Generations == 1..MaxStarts
Workers == Generations \X (1..WorkerCount)
Jobs    == [id: 1..MaxJobs, high: {"yes", "no"}]     \* high: Priority > 5
NoJob   == [id |-> 0]
gen(w)  == w[1]

VARIABLES
    started, starts,
    ctx,                       \* [Generations -> "none", "live", "cancelled"]
    jobQueue, priorityQueue,   \* what the channels hold
    channels,                  \* "open" or "closed" (Stop closes both)
    worker,                    \* [Workers -> [at, job]]
    dispatcher,                \* [Generations -> [at, job]]
    blocked,                   \* jobs of SubmitWithTimeout calls, read lock held
    stopper,                   \* Stop: "no", "waiting" (lock held), or how it ended
    submitted,                 \* jobs handed in so far
    accepted, done, dropped,   \* jobs taken on; processed; lost by the dispatcher
    process                    \* "alive" or "crashed" by a panic

queues == <<jobQueue, priorityQueue>>
ledger == <<submitted, accepted, done, dropped>>
vars == <<started, starts, ctx, jobQueue, priorityQueue, channels, worker, dispatcher,
          blocked, stopper, submitted, accepted, done, dropped, process>>

NotRunning == [at |-> "none", job |-> NoJob]
Selecting  == [at |-> "select", job |-> NoJob]
Exited     == [at |-> "exited", job |-> NoJob]

Init ==
    /\ started = "no" /\ starts = 0
    /\ ctx = [g \in Generations |-> "none"]
    /\ jobQueue = <<>> /\ priorityQueue = <<>> /\ channels = "open"
    /\ worker = [w \in Workers |-> NotRunning]
    /\ dispatcher = [g \in Generations |-> NotRunning]
    /\ blocked = {} /\ stopper = "no"
    /\ submitted = 0 /\ accepted = {} /\ done = {} /\ dropped = {}
    /\ process = "alive"

Panic   == process' = "crashed"
NoPanic == UNCHANGED process
Unlocked == stopper # "waiting"        \* nobody holds wp.mutex for writing

-----------------------------------------------------------------------------
Start ==
    /\ Unlocked /\ blocked = {} /\ started = "no" /\ starts < MaxStarts
    /\ started' = "yes" /\ starts' = starts + 1
    /\ ctx' = [ctx EXCEPT ![starts + 1] = "live"]
    /\ worker' = [w \in Workers |-> IF gen(w) = starts + 1 THEN Selecting ELSE worker[w]]
    /\ dispatcher' = [dispatcher EXCEPT ![starts + 1] = Selecting]
    /\ stopper' = "no"
    /\ UNCHANGED <<queues, channels, blocked, ledger, process>>

\* The context given to Start is cancelled: the goroutines end, started stays.
CancelParent ==
    /\ starts > 0 /\ ctx[starts] = "live"
    /\ ctx' = [ctx EXCEPT ![starts] = "cancelled"]
    /\ UNCHANGED <<started, starts, queues, channels, worker, dispatcher, blocked,
                   stopper, ledger, process>>

\* A job goes on its channel and is counted (the statistics are left out).
Enqueue(j) ==
    /\ IF j.high = "yes"
       THEN priorityQueue' = Append(priorityQueue, j) /\ UNCHANGED jobQueue
       ELSE jobQueue' = Append(jobQueue, j) /\ UNCHANGED priorityQueue
    /\ accepted' = accepted \cup {j}

HasRoom(j) ==
    IF j.high = "yes" THEN Len(priorityQueue) < PrioritySize ELSE Len(jobQueue) < QueueSize

\* Submit does not wait: a full channel is an error.
Submit ==
    /\ Unlocked /\ started = "yes" /\ submitted < MaxJobs
    /\ \E h \in {"yes", "no"} :
         LET j == [id |-> submitted + 1, high |-> h] IN
         \/ channels = "open" /\ HasRoom(j) /\ Enqueue(j) /\ NoPanic
         \/ channels = "open" /\ ~HasRoom(j) /\ UNCHANGED <<queues, accepted, process>>
         \/ channels = "closed" /\ Panic /\ UNCHANGED <<queues, accepted>>
    /\ submitted' = submitted + 1
    /\ UNCHANGED <<started, starts, ctx, channels, worker, dispatcher, blocked, stopper,
                   done, dropped>>

\* SubmitWithTimeout keeps the read lock while it waits for room.
SubmitWithTimeout ==
    /\ Unlocked /\ started = "yes" /\ submitted < MaxJobs
    /\ \E h \in {"yes", "no"} : blocked' = blocked \cup {[id |-> submitted + 1, high |-> h]}
    /\ submitted' = submitted + 1
    /\ UNCHANGED <<started, starts, ctx, queues, channels, worker, dispatcher, stopper,
                   accepted, done, dropped, process>>

SubmitWithTimeoutReturns ==
    /\ \E j \in blocked :
         /\ blocked' = blocked \ {j}
         /\ \/ channels = "open" /\ HasRoom(j) /\ Enqueue(j) /\ NoPanic
            \/ channels = "closed" /\ Panic /\ UNCHANGED <<queues, accepted>>
            \/ UNCHANGED <<queues, accepted, process>>          \* timeout
    /\ UNCHANGED <<started, starts, ctx, channels, worker, dispatcher, stopper,
                   submitted, done, dropped>>

-----------------------------------------------------------------------------
(***************************************************************************)
(* priorityDispatcher moves priority jobs to the end of the job queue.     *)
(***************************************************************************)
\* Mutant of DispatcherTakes: the job is read and left in the channel.
DispatcherPeeks(g) ==
    /\ dispatcher[g].at = "select" /\ priorityQueue # <<>>
    /\ dispatcher' = [dispatcher EXCEPT ![g] = [at |-> "holding", job |-> Head(priorityQueue)]]
    /\ UNCHANGED <<started, starts, ctx, queues, channels, worker, blocked, stopper,
                   ledger, process>>

DispatcherTakes(g) ==
    /\ dispatcher[g].at = "select" /\ priorityQueue # <<>>
    /\ dispatcher' = [dispatcher EXCEPT ![g] = [at |-> "holding", job |-> Head(priorityQueue)]]
    /\ priorityQueue' = Tail(priorityQueue)
    /\ UNCHANGED <<started, starts, ctx, jobQueue, channels, worker, blocked, stopper,
                   ledger, process>>

\* With its context cancelled it may drop the job it holds; the send is on a
\* closed channel once Stop has come that far.
DispatcherSends(g) ==
    /\ dispatcher[g].at = "holding"
    /\ \/ /\ channels = "open" /\ Len(jobQueue) < QueueSize
          /\ jobQueue' = Append(jobQueue, dispatcher[g].job)
          /\ dispatcher' = [dispatcher EXCEPT ![g] = Selecting]
          /\ NoPanic /\ UNCHANGED dropped
       \/ /\ channels = "closed" /\ Panic /\ UNCHANGED <<jobQueue, dispatcher, dropped>>
       \/ /\ ctx[g] = "cancelled"
          /\ dropped' = dropped \cup {dispatcher[g].job}
          /\ dispatcher' = [dispatcher EXCEPT ![g] = Exited]
          /\ NoPanic /\ UNCHANGED jobQueue
    /\ UNCHANGED <<started, starts, ctx, priorityQueue, channels, worker, blocked, stopper,
                   submitted, accepted, done>>

DispatcherExits(g) ==
    /\ dispatcher[g].at = "select"
    /\ ctx[g] = "cancelled" \/ (channels = "closed" /\ priorityQueue = <<>>)
    /\ dispatcher' = [dispatcher EXCEPT ![g] = Exited]
    /\ UNCHANGED <<started, starts, ctx, queues, channels, worker, blocked, stopper,
                   ledger, process>>

priorityDispatcher(g) == DispatcherTakes(g) \/ DispatcherSends(g) \/ DispatcherExits(g)

-----------------------------------------------------------------------------
\* A worker's select: either channel, with no preference, or an exit.
WorkerTakes(w) ==
    /\ worker[w].at = "select"
    /\ \/ /\ jobQueue # <<>> /\ jobQueue' = Tail(jobQueue) /\ UNCHANGED priorityQueue
          /\ worker' = [worker EXCEPT ![w] = [at |-> "busy", job |-> Head(jobQueue)]]
       \/ /\ priorityQueue # <<>> /\ priorityQueue' = Tail(priorityQueue) /\ UNCHANGED jobQueue
          /\ worker' = [worker EXCEPT ![w] = [at |-> "busy", job |-> Head(priorityQueue)]]
    /\ UNCHANGED <<started, starts, ctx, channels, dispatcher, blocked, stopper,
                   ledger, process>>

\* Mutant of WorkerExits: an empty queue is taken for a closed one.
WorkerExitsWhenEmpty(w) ==
    /\ worker[w].at = "select"
    /\ ctx[gen(w)] = "cancelled" \/ jobQueue = <<>>
    /\ worker' = [worker EXCEPT ![w] = Exited]
    /\ UNCHANGED <<started, starts, ctx, queues, channels, dispatcher, blocked, stopper,
                   ledger, process>>

\* Either channel closed and empty, quit closed (Stop does all three), or ctx.
WorkerExits(w) ==
    /\ worker[w].at = "select"
    /\ ctx[gen(w)] = "cancelled" \/ channels = "closed"
    /\ worker' = [worker EXCEPT ![w] = Exited]
    /\ UNCHANGED <<started, starts, ctx, queues, channels, dispatcher, blocked, stopper,
                   ledger, process>>

processJob(w) ==
    /\ worker[w].at = "busy"
    /\ done' = done \cup {worker[w].job}
    /\ worker' = [worker EXCEPT ![w] = Selecting]
    /\ UNCHANGED <<started, starts, ctx, queues, channels, dispatcher, blocked, stopper,
                   submitted, accepted, dropped, process>>

start(w) == WorkerTakes(w) \/ WorkerExits(w) \/ processJob(w)

-----------------------------------------------------------------------------
\* Stop: cancel, close both channels and the quit channels, then wait.
Stop ==
    /\ Unlocked /\ blocked = {} /\ started = "yes"
    /\ ctx' = [ctx EXCEPT ![starts] = "cancelled"]
    /\ IF channels = "open" THEN NoPanic ELSE Panic
    /\ channels' = "closed" /\ stopper' = "waiting"
    /\ UNCHANGED <<started, starts, queues, worker, dispatcher, blocked, ledger>>

\* wp.wg: workers, dispatcher and metrics collector of every generation.
AllExited ==
    /\ \A w \in Workers : worker[w].at \in {"none", "exited"}
    /\ \A g \in Generations : dispatcher[g].at \in {"none", "exited"}

StopReturns ==
    /\ stopper = "waiting"
    /\ \/ AllExited /\ stopper' = "graceful"
       \/ ~AllExited /\ stopper' = "timeout"
    /\ started' = "no"
    /\ UNCHANGED <<starts, ctx, queues, channels, worker, dispatcher, blocked,
                   ledger, process>>

Alive == process = "alive"
Pool == \/ \E g \in Generations : priorityDispatcher(g)
        \/ \E w \in Workers : start(w)

Next ==
    /\ Alive
    /\ \/ Start \/ CancelParent \/ Submit \/ SubmitWithTimeout \/ SubmitWithTimeoutReturns
       \/ Pool \/ Stop \/ StopReturns

Spec == Init /\ [][Next]_vars

\* Goroutines that can run do; nobody has to submit, stop or cancel.
FairPool ==
    /\ \A g \in Generations : WF_vars(Alive /\ priorityDispatcher(g))
    /\ \A w \in Workers : WF_vars(Alive /\ start(w))
    /\ WF_vars(Alive /\ SubmitWithTimeoutReturns) /\ WF_vars(Alive /\ StopReturns)

FairSpec == Spec /\ FairPool

-----------------------------------------------------------------------------
Goroutine(holds) == [at: {"none", "select", holds, "exited"}, job: Jobs \cup {NoJob}]

\* Every variable has its type.
TypeOK ==
    /\ started \in {"yes", "no"} /\ starts \in 0..MaxStarts
    /\ ctx \in [Generations -> {"none", "live", "cancelled"}]
    /\ jobQueue \in Seq(Jobs) /\ Len(jobQueue) <= QueueSize
    /\ priorityQueue \in Seq(Jobs) /\ Len(priorityQueue) <= PrioritySize
    /\ channels \in {"open", "closed"}
    /\ worker \in [Workers -> Goroutine("busy")]
    /\ dispatcher \in [Generations -> Goroutine("holding")]
    /\ blocked \subseteq Jobs /\ stopper \in {"no", "waiting", "graceful", "timeout"}
    /\ submitted \in 0..MaxJobs
    /\ accepted \subseteq Jobs /\ done \subseteq Jobs /\ dropped \subseteq Jobs
    /\ process \in {"alive", "crashed"}

\* Goroutines hold a job only where they should, those of a generation that has
\* not been started do not run, and after a graceful Stop none does.
GoroutinesInOrder ==
    /\ \A w \in Workers : /\ worker[w].at = "busy" <=> worker[w].job # NoJob
                          /\ gen(w) > starts => worker[w].at = "none"
    /\ \A g \in Generations : /\ dispatcher[g].at = "holding" <=> dispatcher[g].job # NoJob
                              /\ g > starts => dispatcher[g].at = "none"
    /\ stopper = "graceful" => AllExited

\* Jobs are numbered as they are handed in, and one that still waits for room
\* has not been taken on.
JobsAreNew ==
    /\ \A j \in accepted \cup blocked : j.id <= submitted
    /\ accepted \cap blocked = {}

\* The places a job can be in.
InQueues == ToSet(jobQueue) \cup ToSet(priorityQueue)
InHands == ({worker[w].job : w \in Workers} \cup {dispatcher[g].job : g \in Generations}) \ {NoJob}
Settled == done \cup dropped

\* No two goroutines hold the same job.
HandsDiffer ==
    /\ \A w, x \in Workers : w # x /\ worker[w].job # NoJob => worker[w].job # worker[x].job
    /\ \A g, h \in Generations :
         g # h /\ dispatcher[g].job # NoJob => dispatcher[g].job # dispatcher[h].job
    /\ \A w \in Workers, g \in Generations :
         worker[w].job # NoJob => worker[w].job # dispatcher[g].job

\* A job is in one of them, once.
OnePlace ==
    /\ accepted = InQueues \cup InHands \cup Settled
    /\ IsInjective(jobQueue) /\ IsInjective(priorityQueue)
    /\ ToSet(jobQueue) \cap ToSet(priorityQueue) = {} /\ done \cap dropped = {}
    /\ InQueues \cap Settled = {} /\ InHands \cap (InQueues \cup Settled) = {} /\ HandsDiffer

\* How many times job j is somewhere in the pool.
Copies(j) ==
    Cardinality({i \in DOMAIN jobQueue : jobQueue[i] = j})
    + Cardinality({i \in DOMAIN priorityQueue : priorityQueue[i] = j})
    + Cardinality({w \in Workers : worker[w].job = j})
    + Cardinality({g \in Generations : dispatcher[g].job = j})
    + (IF j \in done THEN 1 ELSE 0) + (IF j \in dropped THEN 1 ELSE 0)

\* Every accepted job is in exactly one place, on its way, processed or dropped
\* at shutdown: none is processed twice by two workers or by a worker and the
\* dispatcher, and nothing is processed that was not accepted.
JobsAreConserved == \A j \in Jobs : Copies(j) = IF j \in accepted THEN 1 ELSE 0

\* After "All workers stopped gracefully" no goroutine has a job in its hands:
\* what was accepted is processed, dropped by a dispatcher that saw the
\* cancellation, or still in a channel where a new generation can find it.
GracefulStrandsNone ==
    stopper = "graceful" =>
      accepted \subseteq Settled \cup InQueues

\* What every reachable state of the pool satisfies.
PoolInv ==
    /\ TypeOK /\ GoroutinesInOrder /\ JobsAreNew /\ OnePlace
    /\ JobsAreConserved /\ GracefulStrandsNone

\* While the pool runs, an accepted job is processed: a priority job held by
\* the dispatcher does not starve behind a full queue.
AcceptedIsProcessed ==
    \A i \in 1..MaxJobs :
      (\E j \in accepted : j.id = i) ~> \/ \E j \in done : j.id = i
                                        \/ \E g \in Generations : ctx[g] = "cancelled"
                                        \/ ~Alive
=============================================================================
