------------------------------ MODULE JobsSet ------------------------------
(***************************************************************************)
(* The job pool of art/rhevm_api/utils/jobs.py: a client thread that adds  *)
(* Jobs to a JobsSet, starts its workers and joins it, and the             *)
(* WorkerThreads that take the jobs from the shared queue.                 *)
(*                                                                         *)
(* One action is one access to state that another thread can see; code     *)
(* between two accesses is local to its thread.  The queue's own methods   *)
(* run under the queue's mutex, so put, get and task_done are one step.    *)
(***************************************************************************)
EXTENDS Naturals, Sequences, FiniteSets

CONSTANTS
    Jobs,        \* the Job objects the client may add, each at most once
    Clones,      \* those that fillQueue creates with copy.copy
    Suicide,     \* those that are Worker.SUICIDE_JOB
    Events,      \* the finished_event objects of the jobs
    EventOf,     \* EventOf[j]: j.finished_event (a copy shares its original's)
    NoJob,       \* no job at hand
    PoolSizes,   \* the num_worker_threads given to JobsSet(); 0 is None
    QueueSize,   \* queue_size given to JobsSet(); 0 is unbounded
    Outcomes,    \* how the target of a job may end
    LateAdds,    \* TRUE: the client may also add jobs after start()
    MaxStarts,   \* bound: calls of start()
    MaxThreads   \* bound: worker threads ever spawned

ASSUME JobsAssumption ==
    /\ IsFiniteSet(Jobs)
    /\ Clones \subseteq Jobs
    /\ Suicide \subseteq Jobs
    /\ EventOf \in [Jobs -> Events]
    /\ NoJob \notin Jobs

ASSUME PoolAssumption ==
    /\ PoolSizes \subseteq Nat
    /\ QueueSize \in Nat
    /\ LateAdds \in BOOLEAN
    /\ MaxStarts \in Nat
    /\ MaxThreads \in Nat
    /\ Outcomes \subseteq {"return", "exception", "exit"}

VARIABLES
    \* the JobsSet
    queue,       \* jobs put and not yet taken, oldest first
    unfinished,  \* queue.unfinished_tasks
    allDone,     \* the all_done event is set
    anyDone,     \* the any_done event is set
    workers,     \* num_worker_threads
    nthreads,    \* len(threads)
    \* the jobs
    jobState,    \* Job.state
    outcome,     \* how the target ended: Job.result and Job.exception
    handlers,    \* finished_event.handlers
    \* the worker threads
    wpc,         \* where thread w is; "unborn" before start, "dead" after run
    wstate,      \* Worker.state
    cur,         \* the job thread w is running
    seen,        \* handlers that w's pass over finished_event has called
    size,        \* len(handlers) when that pass began
    \* the client thread
    main,        \* where the client is; "idle" between two calls
    call,        \* the call it is in
    arg,         \* the job it is adding
    idx,         \* position of the loop it is in
    starts,      \* calls of start() so far
    ret,         \* how its last call ended; "none" during a call
    \* history
    put,         \* jobs ever put
    counted      \* jobs whose task_done has run

poolVars   == <<queue, unfinished, allDone, anyDone, workers, nthreads>>
jobVars    == <<jobState, outcome, handlers>>
workerVars == <<wpc, wstate, cur, seen, size>>
clientVars == <<main, call, arg, idx, starts, ret>>
history    == <<put, counted>>
vars == <<poolVars, jobVars, workerVars, clientVars, history>>

Threads  == 1..MaxThreads
Handlers == {"done", "any"}   \* __jobDoneHandler and __any_done.set

WorkerPC == {"unborn", "boot", "loop", "get", "begin", "run", "finish",
             "invoke", "done", "check", "set", "any", "exit", "dead"}
ClientPC == {"idle", "put", "fill", "attach1", "attach2", "start", "clear",
             "spawn", "qjoin", "stop", "tjoin", "wait"}
Calls == {"none", "add", "addnb", "fill", "start", "join", "joinT",
          "waitAll", "waitAllT", "waitAny", "waitAnyT"}
Returns == {"none", "added", "full", "started", "join", "timeout", "waited"}

Full == QueueSize > 0 /\ Len(queue) >= QueueSize

Init ==
    /\ queue = <<>> /\ unfinished = 0
    /\ allDone = FALSE /\ anyDone = FALSE
    /\ workers \in PoolSizes /\ nthreads = 0
    /\ jobState = [j \in Jobs |-> "INITED"]
    /\ outcome = [j \in Jobs |-> "none"]
    /\ handlers = [e \in Events |-> {}]
    /\ wpc = [w \in Threads |-> "unborn"]
    /\ wstate = [w \in Threads |-> "None"]
    /\ cur = [w \in Threads |-> NoJob]
    /\ seen = [w \in Threads |-> {}]
    /\ size = [w \in Threads |-> 0]
    /\ main = "idle" /\ call = "none" /\ arg = NoJob /\ idx = 0
    /\ starts = 0 /\ ret = "none"
    /\ put = {} /\ counted = {}

-----------------------------------------------------------------------------
(* The client thread.                                                      *)

Enter(c, pc) ==
    /\ main = "idle"
    /\ main' = pc /\ call' = c /\ ret' = "none"

Leave(r) ==
    /\ main' = "idle" /\ call' = "none" /\ ret' = r
    /\ UNCHANGED <<idx, starts>>

MayAdd == LateAdds \/ starts = 0

(* addJobs(jobs, block).  Adding a list is adding its members one by one;  *)
(* a Full raised on one of them leaves the rest of the list unadded.       *)
AddJobs(j, c) ==
    /\ MayAdd
    /\ j \in Jobs \ (put \cup Clones)
    /\ c \in {"add", "addnb"}
    /\ Enter(c, "put")
    /\ arg' = j
    /\ UNCHANGED <<poolVars, jobVars, workerVars, idx, starts, history>>

(* fillQueue(job): add copies of the job until put raises Full.            *)
FillQueue ==
    /\ MayAdd
    /\ Clones # {}
    /\ Enter("fill", "fill")
    /\ UNCHANGED <<poolVars, jobVars, workerVars, arg, idx, starts, history>>

CopyJob ==
    /\ main = "fill"
    /\ \E j \in Clones \ put : arg' = j
    /\ main' = "put"
    /\ UNCHANGED <<poolVars, jobVars, workerVars, call, idx, starts, ret, history>>

(* queue.put(job, block); a blocking put waits for a free slot.            *)
Put ==
    /\ main = "put"
    /\ ~Full
    /\ queue' = Append(queue, arg)
    /\ unfinished' = unfinished + 1
    /\ put' = put \cup {arg}
    /\ main' = "attach1"
    /\ UNCHANGED <<allDone, anyDone, workers, nthreads, jobVars, workerVars,
                   call, arg, idx, starts, ret, counted>>

(* Mutant: the task is counted before the queue is found full. *)
PutFullCounted ==
    /\ main = "put"
    /\ Full
    /\ call \in {"addnb", "fill"}
    /\ unfinished' = unfinished + 1
    /\ Leave("full")
    /\ arg' = NoJob
    /\ UNCHANGED <<queue, allDone, anyDone, workers, nthreads,
                   jobVars, workerVars, history>>

PutFull ==
    /\ main = "put"
    /\ Full
    /\ call \in {"addnb", "fill"}
    /\ Leave("full")
    /\ arg' = NoJob
    /\ UNCHANGED <<poolVars, jobVars, workerVars, history>>

(* job.finished_event += self.__jobDoneHandler, then += any_done.set: the  *)
(* job is already in the queue when its handlers are attached.             *)
AttachDone ==
    /\ main = "attach1"
    /\ handlers' = [handlers EXCEPT ![EventOf[arg]] = @ \cup {"done"}]
    /\ main' = "attach2"
    /\ UNCHANGED <<poolVars, jobState, outcome, workerVars,
                   call, arg, idx, starts, ret, history>>

AttachAny ==
    /\ main = "attach2"
    /\ handlers' = [handlers EXCEPT ![EventOf[arg]] = @ \cup {"any"}]
    /\ arg' = NoJob
    /\ \/ /\ call = "fill"
          /\ main' = "fill"
          /\ UNCHANGED <<call, idx, starts, ret>>
       \/ /\ call # "fill"
          /\ Leave("added")
    /\ UNCHANGED <<poolVars, jobState, outcome, workerVars, history>>

(* start(): size the pool, clear all_done, spawn the threads.              *)
Start ==
    /\ starts < MaxStarts
    /\ Enter("start", "start")
    /\ starts' = starts + 1
    /\ UNCHANGED <<poolVars, jobVars, workerVars, arg, idx, history>>

SizePool ==
    /\ main = "start"
    /\ workers' = IF workers < 1 THEN unfinished ELSE workers
    /\ main' = "clear"
    /\ UNCHANGED <<queue, unfinished, allDone, anyDone, nthreads, jobVars,
                   workerVars, call, arg, idx, starts, ret, history>>

ClearAllDone ==
    /\ main = "clear"
    /\ allDone' = FALSE
    /\ main' = "spawn" /\ idx' = 0
    /\ UNCHANGED <<queue, unfinished, anyDone, workers, nthreads, jobVars,
                   workerVars, call, arg, starts, ret, history>>

(* Thread.start() returns once the new thread exists, which may be long    *)
(* before it executes the first statement of Worker.run().                 *)
Spawn ==
    /\ main = "spawn"
    /\ idx < workers
    /\ nthreads < MaxThreads
    /\ nthreads' = nthreads + 1
    /\ wpc' = [wpc EXCEPT ![nthreads + 1] = "boot"]
    /\ idx' = idx + 1
    /\ UNCHANGED <<queue, unfinished, allDone, anyDone, workers, jobVars,
                   wstate, cur, seen, size, main, call, arg, starts, ret, history>>

(* Mutant: all_done is cleared after the threads were started. *)
SpawnedClear ==
    /\ main = "spawn"
    /\ idx >= workers
    /\ allDone' = FALSE
    /\ Leave("started")
    /\ UNCHANGED <<queue, unfinished, anyDone, workers, nthreads,
                   jobVars, workerVars, arg, history>>

Spawned ==
    /\ main = "spawn"
    /\ idx >= workers
    /\ Leave("started")
    /\ UNCHANGED <<poolVars, jobVars, workerVars, arg, history>>

(* join(timeout): wait for the queue, stop the workers, join the threads.  *)
Join(c) ==
    /\ c \in {"join", "joinT"}
    /\ Enter(c, "qjoin")
    /\ UNCHANGED <<poolVars, jobVars, workerVars, arg, idx, starts, history>>

QueueJoined ==
    /\ main = "qjoin"
    /\ unfinished = 0
    /\ main' = "stop" /\ idx' = 1
    /\ UNCHANGED <<poolVars, jobVars, workerVars, call, arg, starts, ret, history>>

(* Mutant: the timeout only ends the wait for the queue. *)
JoinTimeoutIgnored ==
    /\ main = "qjoin"
    /\ call = "joinT"
    /\ unfinished > 0
    /\ main' = "stop" /\ idx' = 1
    /\ UNCHANGED <<poolVars, jobVars, workerVars, call, arg, starts, ret, history>>

(* TimeoutExpiredError leaves join() before any worker was stopped.        *)
JoinTimeout ==
    /\ main = "qjoin"
    /\ call = "joinT"
    /\ unfinished > 0
    /\ Leave("timeout")
    /\ UNCHANGED <<poolVars, jobVars, workerVars, arg, history>>

StopWorker ==
    /\ main = "stop"
    /\ idx <= nthreads
    /\ wstate' = [wstate EXCEPT ![idx] = "STOPPING"]
    /\ idx' = idx + 1
    /\ UNCHANGED <<poolVars, jobVars, wpc, cur, seen, size,
                   main, call, arg, starts, ret, history>>

StoppedWorkers ==
    /\ main = "stop"
    /\ idx > nthreads
    /\ main' = "tjoin" /\ idx' = 1
    /\ UNCHANGED <<poolVars, jobVars, workerVars, call, arg, starts, ret, history>>

JoinThread ==
    /\ main = "tjoin"
    /\ idx <= nthreads
    /\ wpc[idx] = "dead"
    /\ idx' = idx + 1
    /\ UNCHANGED <<poolVars, jobVars, workerVars, main, call, arg, starts, ret, history>>

JoinReturn ==
    /\ main = "tjoin"
    /\ idx > nthreads
    /\ Leave("join")
    /\ UNCHANGED <<poolVars, jobVars, workerVars, arg, history>>

(* waitUntilAllDone(time) and waitUntilAnyDone(time).                      *)
Wait(c) ==
    /\ c \in {"waitAll", "waitAllT", "waitAny", "waitAnyT"}
    /\ Enter(c, "wait")
    /\ UNCHANGED <<poolVars, jobVars, workerVars, arg, idx, starts, history>>

WaitReturn ==
    /\ main = "wait"
    /\ \/ call \in {"waitAll", "waitAllT"} /\ allDone
       \/ call \in {"waitAny", "waitAnyT"} /\ anyDone
       \/ call \in {"waitAllT", "waitAnyT"}     \* the time is up
    /\ Leave("waited")
    /\ UNCHANGED <<poolVars, jobVars, workerVars, arg, history>>

-----------------------------------------------------------------------------
(* A worker thread.                                                        *)

Goto(w, from, to) ==
    /\ wpc[w] = from
    /\ wpc' = [wpc EXCEPT ![w] = to]

(* Worker.run(): self.state = 'RUNNING', whatever stop() wrote before.     *)
Boot(w) ==
    /\ Goto(w, "boot", "loop")
    /\ wstate' = [wstate EXCEPT ![w] = "RUNNING"]
    /\ UNCHANGED <<poolVars, jobVars, cur, seen, size, clientVars, history>>

(* while self.state == 'RUNNING'                                           *)
CheckState(w) ==
    /\ Goto(w, "loop", IF wstate[w] = "RUNNING" THEN "get" ELSE "exit")
    /\ UNCHANGED <<poolVars, jobVars, wstate, cur, seen, size, clientVars, history>>

(* Mutant: the job is looked at and left in the queue. *)
GetPeek(w) ==
    /\ queue # <<>>
    /\ Goto(w, "get", "begin")
    /\ cur' = [cur EXCEPT ![w] = Head(queue)]
    /\ UNCHANGED <<poolVars, jobVars, wstate, seen, size, clientVars, history>>

(* queue.get(timeout): a SUICIDE_JOB ends the loop without task_done.      *)
Get(w) ==
    /\ queue # <<>>
    /\ Goto(w, "get", IF Head(queue) \in Suicide THEN "exit" ELSE "begin")
    /\ queue' = Tail(queue)
    /\ cur' = [cur EXCEPT ![w] = IF Head(queue) \in Suicide THEN NoJob
                                 ELSE Head(queue)]
    /\ UNCHANGED <<unfinished, allDone, anyDone, workers, nthreads, jobVars,
                   wstate, seen, size, clientVars, history>>

GetEmpty(w) ==
    /\ queue = <<>>
    /\ Goto(w, "get", "loop")
    /\ UNCHANGED <<poolVars, jobVars, wstate, cur, seen, size, clientVars, history>>

(* Job.start(): state, target, and in the finally clause finished_event(). *)
Begin(w) ==
    /\ Goto(w, "begin", "run")
    /\ jobState' = [jobState EXCEPT ![cur[w]] = "RUNNING"]
    /\ UNCHANGED <<poolVars, outcome, handlers, wstate, cur, seen, size,
                   clientVars, history>>

Target(w) ==
    /\ Goto(w, "run", "finish")
    /\ \E o \in Outcomes : outcome' = [outcome EXCEPT ![cur[w]] = o]
    /\ UNCHANGED <<poolVars, jobState, handlers, wstate, cur, seen, size,
                   clientVars, history>>

(* Mutant: finished_event is not fired when the target ends the thread. *)
FinishNoFinally(w) ==
    /\ wpc[w] = "finish"
    /\ Goto(w, "finish", IF outcome[cur[w]] = "exit" THEN "dead" ELSE "invoke")
    /\ jobState' = [jobState EXCEPT ![cur[w]] = "FINISHED"]
    /\ seen' = [seen EXCEPT ![w] = {}]
    /\ size' = [size EXCEPT ![w] = Cardinality(handlers[EventOf[cur[w]]])]
    /\ UNCHANGED <<poolVars, outcome, handlers, wstate, cur, clientVars, history>>

Finish(w) ==
    /\ Goto(w, "finish", "invoke")
    /\ jobState' = [jobState EXCEPT ![cur[w]] = "FINISHED"]
    /\ seen' = [seen EXCEPT ![w] = {}]
    /\ size' = [size EXCEPT ![w] = Cardinality(handlers[EventOf[cur[w]]])]
    /\ UNCHANGED <<poolVars, outcome, handlers, wstate, cur, clientVars, history>>

(* Mutant: handlers kept in a list, where one attached twice is called twice. *)
InvokeAgain(w, h) ==
    /\ Goto(w, "invoke", h)
    /\ h \in handlers[EventOf[cur[w]]]
    /\ seen' = [seen EXCEPT ![w] = @ \cup {h}]
    /\ UNCHANGED <<poolVars, jobVars, wstate, cur, size, clientVars, history>>

(* Event.invoke(): the handlers are a set, called in any order.            *)
Invoke(w, h) ==
    /\ Goto(w, "invoke", h)
    /\ h \in handlers[EventOf[cur[w]]] \ seen[w]
    /\ Cardinality(handlers[EventOf[cur[w]]]) = size[w]
    /\ seen' = [seen EXCEPT ![w] = @ \cup {h}]
    /\ UNCHANGED <<poolVars, jobVars, wstate, cur, size, clientVars, history>>

(* The set grew during the pass: RuntimeError, swallowed by Worker.run().  *)
InvokeError(w) ==
    /\ Goto(w, "invoke", "loop")
    /\ Cardinality(handlers[EventOf[cur[w]]]) # size[w]
    /\ cur' = [cur EXCEPT ![w] = NoJob]
    /\ UNCHANGED <<poolVars, jobVars, wstate, seen, size, clientVars, history>>

(* Mutant: ReturnableEvent's invoke, which stops after the first handler. *)
InvokeEndFirst(w) ==
    /\ wpc[w] = "invoke"
    /\ handlers[EventOf[cur[w]]] = {} \/ seen[w] # {}
    /\ Goto(w, "invoke", IF outcome[cur[w]] = "exit" THEN "dead" ELSE "loop")
    /\ cur' = [cur EXCEPT ![w] = NoJob]
    /\ UNCHANGED <<poolVars, jobVars, wstate, seen, size, clientVars, history>>

(* Mutant: a target's exception ends the thread as SystemExit does. *)
InvokeEndExits(w) ==
    /\ wpc[w] = "invoke"
    /\ handlers[EventOf[cur[w]]] \subseteq seen[w]
    /\ Cardinality(handlers[EventOf[cur[w]]]) = size[w]
    /\ Goto(w, "invoke", IF outcome[cur[w]] # "return" THEN "dead" ELSE "loop")
    /\ cur' = [cur EXCEPT ![w] = NoJob]
    /\ UNCHANGED <<poolVars, jobVars, wstate, seen, size, clientVars, history>>

(* End of the pass.  An outcome that is no Exception ("exit": SystemExit,  *)
(* or pytest's own BaseExceptions) leaves run() and ends the thread.       *)
InvokeEnd(w) ==
    /\ wpc[w] = "invoke"
    /\ handlers[EventOf[cur[w]]] \subseteq seen[w]
    /\ Cardinality(handlers[EventOf[cur[w]]]) = size[w]
    /\ Goto(w, "invoke", IF outcome[cur[w]] = "exit" THEN "dead" ELSE "loop")
    /\ cur' = [cur EXCEPT ![w] = NoJob]
    /\ UNCHANGED <<poolVars, jobVars, wstate, seen, size, clientVars, history>>

(* __jobDoneHandler: task_done, test for zero, set all_done.               *)
TaskDone(w) ==
    /\ Goto(w, "done", "check")
    /\ unfinished' = unfinished - 1
    /\ counted' = counted \cup {cur[w]}
    /\ UNCHANGED <<queue, allDone, anyDone, workers, nthreads, jobVars,
                   wstate, cur, seen, size, clientVars, put>>

(* Mutant: an empty queue is taken for no unfinished task. *)
CheckQueueEmpty(w) ==
    /\ Goto(w, "check", IF queue = <<>> THEN "set" ELSE "invoke")
    /\ UNCHANGED <<poolVars, jobVars, wstate, cur, seen, size, clientVars, history>>

CheckAllDone(w) ==
    /\ Goto(w, "check", IF unfinished = 0 THEN "set" ELSE "invoke")
    /\ UNCHANGED <<poolVars, jobVars, wstate, cur, seen, size, clientVars, history>>

SetAllDone(w) ==
    /\ Goto(w, "set", "invoke")
    /\ allDone' = TRUE
    /\ UNCHANGED <<queue, unfinished, anyDone, workers, nthreads, jobVars,
                   wstate, cur, seen, size, clientVars, history>>

SetAnyDone(w) ==
    /\ Goto(w, "any", "invoke")
    /\ anyDone' = TRUE
    /\ UNCHANGED <<queue, unfinished, allDone, workers, nthreads, jobVars,
                   wstate, cur, seen, size, clientVars, history>>

(* self.state = 'STOPPED' and the thread ends.                             *)
Exit(w) ==
    /\ Goto(w, "exit", "dead")
    /\ wstate' = [wstate EXCEPT ![w] = "STOPPED"]
    /\ UNCHANGED <<poolVars, jobVars, cur, seen, size, clientVars, history>>

-----------------------------------------------------------------------------
(* What the client chooses to call ...                                     *)
ClientCall ==
    \/ \E j \in Jobs, c \in {"add", "addnb"} : AddJobs(j, c)
    \/ FillQueue
    \/ Start
    \/ \E c \in {"join", "joinT"} : Join(c)
    \/ \E c \in {"waitAll", "waitAllT", "waitAny", "waitAnyT"} : Wait(c)

(* ... and what a call then does.                                          *)
ClientStep ==
    \/ CopyJob \/ Put \/ PutFull \/ AttachDone \/ AttachAny
    \/ SizePool \/ ClearAllDone \/ Spawn \/ Spawned
    \/ QueueJoined \/ JoinTimeout \/ StopWorker \/ StoppedWorkers
    \/ JoinThread \/ JoinReturn \/ WaitReturn

Worker(w) ==
    \/ Boot(w) \/ CheckState(w) \/ Get(w) \/ GetEmpty(w)
    \/ Begin(w) \/ Target(w) \/ Finish(w)
    \/ \E h \in Handlers : Invoke(w, h)
    \/ InvokeError(w) \/ InvokeEnd(w)
    \/ TaskDone(w) \/ CheckAllDone(w) \/ SetAllDone(w) \/ SetAnyDone(w)
    \/ Exit(w)

Next == ClientCall \/ ClientStep \/ \E w \in Threads : Worker(w)

Spec == Init /\ [][Next]_vars

(* Every thread is scheduled, a call goes on once made, a target ends.     *)
Fairness ==
    /\ WF_vars(ClientStep)
    /\ \A w \in Threads : WF_vars(Worker(w))

FairSpec == Spec /\ Fairness

-----------------------------------------------------------------------------
(* Properties.                                                             *)

(* Type invariant of the pool, its jobs, its threads and its client.       *)
TypeOK ==
    /\ queue \in Seq(Jobs)
    /\ unfinished \in Nat
    /\ allDone \in BOOLEAN /\ anyDone \in BOOLEAN
    /\ workers \in Nat /\ nthreads \in 0..MaxThreads
    /\ jobState \in [Jobs -> {"INITED", "RUNNING", "FINISHED"}]
    /\ outcome \in [Jobs -> {"none"} \cup Outcomes]
    /\ handlers \in [Events -> SUBSET Handlers]
    /\ wpc \in [Threads -> WorkerPC]
    /\ wstate \in [Threads -> {"None", "RUNNING", "STOPPING", "STOPPED"}]
    /\ cur \in [Threads -> Jobs \cup {NoJob}]
    /\ seen \in [Threads -> SUBSET Handlers]
    /\ size \in [Threads -> 0..2]
    /\ main \in ClientPC /\ call \in Calls
    /\ arg \in Jobs \cup {NoJob}
    /\ idx \in Nat /\ starts \in Nat /\ ret \in Returns
    /\ put \subseteq Jobs /\ counted \subseteq Jobs

(* join() that returned means what its docstring says: every job ever put  *)
(* is FINISHED, none is queued, and no worker thread is alive - in every   *)
(* interleaving, for every client, after earlier timeouts too.             *)
JoinSound ==
    ret = "join" =>
        /\ \A j \in put : jobState[j] = "FINISHED"
        /\ queue = <<>>
        /\ \A w \in Threads : wpc[w] \in {"unborn", "dead"}

(* The queue's unfinished_tasks is the number of jobs put whose            *)
(* __jobDoneHandler has not run: no completion is counted twice, none that *)
(* was never put is counted, and task_done() never raises ValueError.      *)
CountExact == unfinished = Cardinality(put \ counted)

(* A job is in one place: no two threads hold it, and none holds a job     *)
(* that is still queued or is queued twice.                                *)
OneHolder ==
    /\ \A v, w \in Threads : cur[v] = cur[w] /\ cur[v] # NoJob => v = w
    /\ \A w \in Threads, i \in 1..Len(queue) : cur[w] # queue[i]
    /\ \A i, k \in 1..Len(queue) : queue[i] = queue[k] => i = k

(* For a client that adds its jobs before start(): the all_done event set  *)
(* by whichever worker counts last says that all the jobs have FINISHED.   *)
AllDoneSound == allDone => \A j \in put : jobState[j] = "FINISHED"

(* Every completion is counted once all the threads are at rest: no        *)
(* finished_event is lost between a worker and __jobDoneHandler.           *)
NoLostCompletion ==
    \A j \in put :
        jobState[j] = "FINISHED" /\ (\A w \in Threads : cur[w] # j)
            => j \in counted

(* A job nobody is left to run: as many targets of other jobs as the pool  *)
(* has workers have ended the thread that ran them.                        *)
Abandoned(j) ==
    /\ workers > 0
    /\ jobState[j] # "FINISHED"
    /\ Cardinality({k \in Jobs \ {j} : outcome[k] = "exit"}) >= workers

(* After start() every job that was added runs to its end, whatever the    *)
(* targets before it do - raise, or end the thread that ran them - unless  *)
(* they have ended all the threads.  With a worker per job (JobsSet()) that *)
(* cannot happen; with fewer, one worker that is left runs all the rest.   *)
EveryJobFinishes ==
    \A j \in Jobs : (j \in put /\ starts > 0)
                        ~> (jobState[j] = "FINISHED" \/ Abandoned(j))

(* Once started, queue.join() inside join() comes to an end, although      *)
(* targets raise or end their threads, unless they left a job nobody runs. *)
QueueJoinReturns ==
    (main = "qjoin" /\ starts > 0)
        ~> (main # "qjoin" \/ \E j \in put : Abandoned(j))

(* Once started with a job, waitUntilAllDone() without a time returns,     *)
(* unless the targets left a job nobody runs.                              *)
WaitAllReturns ==
    (main = "wait" /\ call = "waitAll" /\ starts > 0 /\ put # {})
        ~> (main = "idle" \/ \E j \in put : Abandoned(j))

(* "Wait for all jobs done, then quit the workers and join their threads": *)
(* join() of a started pool returns.                                       *)
JoinReturns == (call \in {"join", "joinT"} /\ starts > 0) ~> (main = "idle")

(* The pool implements JobPool.                                            *)
poolState ==
    [j \in Jobs |-> CASE jobState[j] = "FINISHED" -> "finished"
                      [] jobState[j] = "RUNNING" -> "running"
                      [] jobState[j] = "INITED" /\ j \in put -> "queued"
                      [] OTHER -> "new"]

Abstract == INSTANCE JobPool WITH st <- poolState, joined <- ret = "join"

(* JobsSet implements JobPool: a job is run at most once, by one worker,   *)
(* only while no join() has returned, and join() returns on an idle pool.  *)
ImplementsJobPool == Abstract!Spec

-----------------------------------------------------------------------------
(* The inductive invariant behind the safety properties.                   *)

Held == {"begin", "run", "finish", "invoke", "done", "check", "set", "any"}

(* The client adds only jobs it has not put, and its last result belongs   *)
(* to the call before.                                                     *)
ClientInv ==
    /\ main \in {"put", "attach1", "attach2"} => arg \in Jobs
    /\ main = "put" => arg \notin put
    /\ ret # "none" => main = "idle"
    /\ main \in {"stop", "tjoin"} => idx >= 1
    /\ main \in {"start", "clear", "spawn"} => starts > 0
    /\ starts = 0 => nthreads = 0 /\ ~allDone
    /\ ~LateAdds /\ main \in {"put", "fill", "attach1", "attach2"} => starts = 0

(* Where a job is says how far it is.                                      *)
HolderInv ==
    /\ OneHolder
    /\ \A w \in Threads : w > nthreads => wpc[w] = "unborn"
    /\ \A w \in Threads : wpc[w] \in Held <=> cur[w] # NoJob
    /\ \A w \in Threads : cur[w] # NoJob => cur[w] \in put
    /\ \A i \in 1..Len(queue) : queue[i] \in put

StateInv ==
    /\ \A j \in Jobs \ put : jobState[j] = "INITED"
    /\ \A i \in 1..Len(queue) : jobState[queue[i]] = "INITED"
    /\ \A w \in Threads :
        /\ wpc[w] = "begin" => jobState[cur[w]] = "INITED"
        /\ wpc[w] \in {"run", "finish"} => jobState[cur[w]] = "RUNNING"
        /\ wpc[w] \in {"invoke", "done", "check", "set", "any"}
            => jobState[cur[w]] = "FINISHED"

(* A job is counted in its worker's one pass over the handlers.            *)
CountInv ==
    /\ counted \subseteq put
    /\ \A j \in counted : jobState[j] = "FINISHED"
    /\ \A w \in Threads :
        /\ wpc[w] \in {"invoke", "any"} /\ "done" \notin seen[w]
            => cur[w] \notin counted
        /\ wpc[w] = "done" => cur[w] \notin counted
        /\ wpc[w] \in {"done", "check", "set"} => "done" \in seen[w]
    /\ CountExact

JoinInv ==
    /\ main \in {"stop", "tjoin"} => put \subseteq counted
    /\ main = "tjoin" => \A w \in Threads : w < idx => wpc[w] \in {"unborn", "dead"}
    /\ ret = "join" => /\ put \subseteq counted
                       /\ \A w \in Threads : wpc[w] \in {"unborn", "dead"}

(* For a client that adds before start(): nobody puts a job between the    *)
(* test for zero and the all_done.set() that follows it.                   *)
AllDoneInv ==
    ~LateAdds => /\ allDone => put \subseteq counted
                 /\ \A w \in Threads : wpc[w] = "set" => put \subseteq counted

(* For a client that adds before start(): a worker finds the handlers of   *)
(* its job attached, no pass over them is broken off, and it releases the  *)
(* job only when it has been counted.                                      *)
Attached(j) == main \in {"attach1", "attach2"} => arg # j

PassInv ==
    ~LateAdds =>
        /\ \A j \in put : Attached(j) => "done" \in handlers[EventOf[j]]
        /\ main = "attach2" => "done" \in handlers[EventOf[arg]]
        /\ \A w \in Threads :
            /\ wpc[w] \in {"invoke", "done", "check", "set", "any"} =>
                size[w] = Cardinality(handlers[EventOf[cur[w]]])
            /\ wpc[w] \in {"check", "set"} => cur[w] \in counted
            /\ wpc[w] \in {"invoke", "any"} /\ "done" \in seen[w]
                => cur[w] \in counted
        /\ NoLostCompletion

(* The inductive invariant: a put job is in the queue, with one worker, or *)
(* FINISHED; it is counted at most once; nothing is put after the counts   *)
(* that join() and all_done rely on.                                       *)
IInv ==
    /\ TypeOK /\ ClientInv /\ HolderInv /\ StateInv /\ CountInv /\ JoinInv
    /\ AllDoneInv /\ PassInv

=============================================================================
