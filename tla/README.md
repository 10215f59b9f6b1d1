# Specifications of the oVirt test framework (ART)

TLA+ models of the parts of this repository in which threads, caches, shared
headers and lost connections meet, and of the library of engine operations that
tests are written with, checked with TLC on small instances and, for the safety
properties that matter most, proved with TLAPS for all of them.

## 1. The system

ART runs tests against an oVirt engine. A pytest process loads the plugins of
`pytest_customization/_pytest_art`, reads a configuration, and its tests call a
library (`art/rhevm_api/tests_lib`) that turns them into REST requests
(`art/core_api`). Tests use threads: `JobsSet` and `runParallel` run functions
in parallel, one thread per host listens to DHCP traffic, and all of them share
one REST connection.

### Inventory

| Component | State | Operations | Hard behaviour | Correct when |
|---|---|---|---|---|
| Job pool: `utils/jobs.py` | queue, `unfinished_tasks`, events, workers, job states | `addJobs`, `fillQueue`, `start`, `join`, waits, the worker loop, event handlers | every step of a worker against every step of the client; targets that raise; timeouts | `join()` means that all is done and ended, each completion counts once, waits return |
| REST session: `test_utils.GetApi`, `RestUtil.login/logout`, `core_api/http.py`, `users.loginAsUser` | cache of utils, lock, `_restInit`, cookie, last user, configured user | get a util, login, request, reconnect after 401, switch of the user | threads share proxies and cookies; sessions expire; a request is sent again | a call is executed once, as the configured user |
| REST operations: `core_api/rest_utils.py`, `apis_utils.py` | shared headers, `context_lock` | create, update, delete, syncAction, get, find, query, getElemFromLink, getElemFromElemColl | all threads write the same dictionary; the request fails between set and reset | a request carries its own headers, a verdict is true, the lock is given back |
| DHCP leases: `utils/mac2ip.py` and its plugin | parser, lease cache, one reader per host | add readers, parse, look up, stop | one parser for all readers; output cut anywhere; lost connections; stop during open | what is cached was leased, and is found; stop ends the threads |
| Polling: `core_api/timeout.py`, `waitForElemStatus`, `waitForQuery` | start time, counted sleeps | sample until a result or a timeout | final states seen too early; a status that is over when it is sampled | a state that is reached in time is reported, every wait ends |
| Name cache: `utils/name2ip.py` | addresses with expiry, lock | look up, reset | lookup under the lock; stale addresses | an address is no older than its expiry, none survives a reset, the lock is given back |
| `runParallel`: `utils/threads.py` | threads, results | run, join | exceptions lost | results in the order of the targets |
| Leftovers: `leftoversinfo.py`, `inventory.py` | snapshot per team, summary | setup, teardown, compare | teardown of one team inside the setup of the next; a dump that fails | the difference is that between two fixtures, nothing is lost |
| Test log: `testlogger.py` | recorded messages, filter switch | setup, call, teardown, report | messages that survive their test | a message is printed with its test |
| pytest plugins: marks, matrix, fixtures, artlib, ssl, testinfo, storagewrapper | pytest's items | one hook at a time | order of hooks is pytest's | - |
| Configuration, watchdogs, validator, resources | read once | - | - | - |
| Test library `low_level`, `high_level` (25,000 lines) | the engine's | about 600 functions: requests, waits, tests, calls of each other | the engine refuses, fails, is late or has not begun; requests that are sent too early; one step of several fails | True means that the goal was seen, a failure has a reason, a negative call means a refusal |
| Tests, generated code, tools | - | - | - | - |

The components meet at three places. Every job of a pool and every test thread
makes REST operations; an operation takes its connection from the session
component and its headers from the one `HTTPProxy`; the address of a VM comes
from the engine or, failing that, from the lease cache, through the name cache.

### Hazards

`PROJECT.json` lists each at its line, with the property that would catch it or
the reason there is none. In short: *interleavings* (worker start against
`stop()`, count-test-set of `all_done`, shared parser, shared headers, switch of
the user), *stale state* (cookie tested and read again, header left behind,
parser state after a reconnection, cached addresses, a final status sampled
before the engine has begun), *retry* (401, `join(timeout)`), *partial failure*
(targets and requests that raise, one call of a flow, a dump of the engine),
*ordering* (a request before the engine has finished the one before),
*liveness* (lock released on every path, `stop()` during open, waits).

## 2. Modules

| Module | Models | Uses |
|---|---|---|
| `JobPool` | abstract: what a pool promises its client | |
| `JobsSet` | `JobsSet`, `Worker`, `Job`, `Event`, `QueueWithTimeout` | refines `JobPool` |
| `RestCalls` | abstract: what the session promises a thread that makes calls | |
| `RestSession` | `GetApi`, login, logout, `HTTPProxy`, `loginAsUser` | refines `RestCalls` |
| `RestOps` | the operations of `RestUtil` on the shared headers | |
| `DhcpLeases` | `TCPDumpParser`, `SSHProducer`, `DHCPLeasesCatcher`, `Mac2IpConvertor` | |
| `NameCache` | `LookUpIpByEntityName` and its subclasses, `ThreadSafeDict` | |
| `TestSession` | `LeftoversInfo`, `Inventory`, `ARTLogging`, `RecordingFilter` under pytest's hooks | |
| `Statements` | the vocabulary of library functions: request, find, wait, sample, test, return, raise, try, fork, call | |
| `Calls` | what each statement does, and the engine | extends `Statements` |
| `CallIdioms` | the classes of statements, and the ways to end a function, that the theorems are about | extends `Statements` |
| `CallCourses` | the points a function can reach, whatever the engine does | extends `Calls` |
| `CommonLib` | `test_utils.py`, `low_level/jobs.py`, `events.py`, `general.py` | extends `Statements` |
| `DiskLib`, `VmLib`, `VmPartsLib` | `low_level/disks.py`, `vms.py` (life cycle; disks, NICs, snapshots and the rest) | |
| `HostLib`, `ClusterLib` | `low_level/hosts.py`; `clusters.py`, `datacenters.py`, `mac_pool.py` | |
| `StorageLib`, `StorageFlows` | `low_level/` and `high_level/storagedomains.py`, with `high_level/datacenters.py` and `hosts.py` | |
| `TemplateLib` | `low_level/templates.py` | |
| `NetworkLib`, `NetworkFlows` | `low_level/networks.py`, `host_network.py`; their `high_level` callers | |
| `VmFlows` | `high_level/vms.py`, `vmpools.py` and `low_level/vmpools.py` | |
| `MCJobsSet`, `MCRestSession`, `MCDhcpLeases`, `MCTestSession`, `MCLibrary` | values of constants for TLC | extend their modules |
| `JobsSetProofs`, `RestSessionProofs`, `RestOpsProofs`, `DhcpLeasesProofs`, `NameCacheProofs`, `TestSessionProofs` | theorems | extend their modules |
| `CallsProofs`, `CallIdiomsProofs` | theorems about the library | extend `CallCourses`, `CallIdioms` |

In the modules about threads one action is one access to state that another
thread can see; code between two accesses is local. Python's own locked
operations (`put`, `get`, `task_done`, one dictionary access) are single steps.
History variables are marked and never guard an action of the program.

**JobsSet.** The client (`main`, `call`, `arg`) makes one call at a time; each
worker thread has its program counter `wpc`, `Worker.state`, the job it holds
and its position in the pass over the handlers of `finished_event`. A target
returns, raises an exception, or ends its thread (`SystemExit`). `Suicide` are
jobs that are `SUICIDE_JOB`, `Clones` those made by `fillQueue`, which share the
event of their original. `PoolSizes` are the numbers of
workers the client may ask for, 0 being one per job (`JobsSet()`); `main()` of
`jobs.py` is the only caller of `JobsSet(n)` with an n smaller than the number
of jobs. The queue may be bounded. `LateAdds` allows additions
after `start()`. A job is added at most once, as every caller does.
`running_event` and `exception_event` have no handler in the repository.

**RestSession.** The user is one value for user, domain and password, all valid;
the configured filter is a variable of its own because `loginAsUser` sets it in
another step. A request goes through its header (cookie tested, then read),
the answer, the stores of cookie and last user, and the resend after a 401,
whose nested `connect()` is the same actions with `nested` set. The engine opens
a session for an authenticated request, lets any session expire at any time,
and answers 500 where `Faults` allows. There a request may also raise, before
or after the engine has executed it (`RequestRaises`): the exception ends the
call through the lock. Ids of sessions and proxies that nothing refers to are used again.
`Overlap` says whether users may be switched while calls are under way.

**RestOps.** A call chooses the operation, the entity, whether it is to succeed,
and its flag (`all_content`, `custom_headers` or `async`). The engine accepts at
once or later, refuses, does not find, or its answer is lost while it did or did
not act. `compareElements` and `compareAsyncActionStatus` are a free choice, as
is whether create's answer has a body. The expected codes are the defaults of
the operations. A 500 is answered before or after the execution, as in
`RestSession`. The Correlation-Id is new for each call or the configured one
(`Configured`). The list of the elements that `create()` fetches may be missing,
or raise anything else. An element may lack the link, in which case no request is made.
The session of the proxy is the business of `RestSession` and left out here.

**DhcpLeases.** A line is the set of patterns of the parser that it matches (a
line can match two after a reconnection joined two halves). tcpdump prints the
lines of a reply; `recv` returns any number of them and may end within one.
`parse_line` is modelled comparison by comparison, because the readers of all
hosts change one parser without a lock. A connection may be lost or not open.
The main thread adds readers, waits for each with the timeout of the code, polls
for addresses in several spellings of the MAC, and stops. Two history variables,
`printed` (the reply and the number of each line that tcpdump printed) and
`parsed` (how many of these lines the parser was given), serve the inductive
invariant only.

**NameCache.** A call tries one resolver, or hosts and then VMs for a name
without prefix (the order of the dictionary `ENTITY` under Python 2). `look_up`
takes the lock and reads the record; if it has expired the thread keeps the lock
during `get_ip`, whose answer is the engine's of that moment, and stores the
record with the time stamp taken before. Addresses change, VMs may have none,
entities may be missing. `resetName2IpCache` drops the records of one kind or all.

**TestSession.** The state of the engine is a function from types and resources
to values. pytest (external) runs the session fixture `prepare_env` before the
first test, and that of a team before the first test of the team; a session
fixture that has raised fails the setup of all tests that need it. A team's
session fixture calls `pytest_rhv_setup`, which first makes the teardown of the
team before; any dump may fail for any type, which makes a comparison raise
`KeyError`. Each test runs `setup`, `call` and `teardown`; each phase passes,
fails or skips, logs some errors, and may change the engine in any way
(`works`): fixtures and finalizers do as tests do, and the finalizer of
`prepare_env`, which removes storage domains, is among those of the last
teardown. The tests come in any order, that of the marks of an upgrade, which
mixes the teams, included; some belong to no team with a fixture. The history
variable `dumps` has the engine at each `pytest_rhv_setup` that ended.

**The library.** `Statements` has one operator per kind of statement that
touches the engine or decides what is returned. A library function is a
definition of its own name: the sequence of its statements, in the order of the
code, with calls of other library functions by their names. What the code tests
of its arguments is a flag (`positive`, `wait`, ...); the rest of the arguments,
the building of objects and the comparison of their attributes are left out. An
entity is its status. `Calls` executes a function: it keeps the statements left
of each thread, its last result and the samples a wait has taken, and steps
through them while the engine accepts, refuses, works on what it has accepted
step by step, and fails; a request or a wait may also lose its connection and
raise (`lost`), the engine having accepted the request or not. `Wait` is `waitForElemStatus` with its final states,
`Query` is `waitForQuery`, `Sample`, `Watch` and `Rounds` are `TimeoutingSampler`
and the loops over it. `Fork` are the threads of `removeVms`, `startVms` and the
like. Each module ends with the calls a test makes of it: the flags, the
statuses its entities may have at the start, and what a success promises.

`CallCourses` reads a function without running it. A point is what is left to do,
the last result, the conjunction of results, the remembered status, the flags,
and what is known of the entities. `Turns` are the points after a statement that
does not ask the engine, `Clears` those after one that does and goes well, and
`Outcomes` those after one about which nothing is assumed. The criteria
`Accounts`, `Witnesses` and `Refuses` are about a set of points that no statement
leaves; they are the hypotheses of the theorems, and `MCLibrary` evaluates them
for each call.

The engine (external) is as weak as the library can rely on: which statuses a
request is accepted in, which it goes through, and where it may end instead.

## 3. Runs

All bounds are constants of the cfg files.

| Run | Instance | Shows |
|---|---|---|
| `jobsset_join` | 2 jobs, one worker or one per job, all outcomes, fairness | `JoinSound`, `CountExact`, `AllDoneSound`, `NoLostCompletion`, `IInv`, refinement of `JobPool`, and that every job ends and the waits return unless the targets have ended all threads |
| `jobsset_open` | 3 jobs of which 2 are copies, 1 `SUICIDE_JOB`, targets that return or end their thread, queue of 1, two starts, late additions | safety for a careless client: the inductive invariant `IInv`, from which join, count and the refinement of `JobPool` are proved |
| `jobsset_join_hangs` | 2 jobs that return | **violation**: `JoinReturns` |
| `rest_shared` | 2 threads, 2 users, 2 elements, faults | refinement of `RestCalls` (at most once, as the configured user, with a result that tells), a call that no other thread disturbs is never refused, `SessionInv` |
| `rest_live` | 2 threads, faults, fairness | every call returns |
| `rest_switch` | 2 threads, overlapping switch | **violation**: `RightUser` |
| `rest_ops` | 2 threads, 2 calls each, 1 entity, fairness | own Correlation-Id; a True means the engine did what was asked, or nothing where it was to refuse, or answered 500; undisturbed `all_content`; operations return; `OpsInv` |
| `dhcp` | 1 host, for one MAC a refused lease and two acknowledged ones, one of them relayed, a lost connection, cuts within lines, fairness | until a connection is lost, what is cached was leased and the latest lease is cached; no false miss; lease caught; stop ends the threads; `LeasesInv` |
| `dhcp_shared` | 2 hosts, a refused and an acknowledged lease | **violation**: `LeaseTrue` |
| `library_calls` | 403 calls of the library (12 that TLC refuted are left out, section 4), every combination of the flags and of the starting statuses that the sets list for a call, one call at a time | `TrueMeansSeen`, `FailsForAReason`, `NegativeMeansRefused`; its assumptions, that the theorems about the library apply to the calls (section 5) |
| `name_cache` | 2 threads, 1 name as VM and host, 2 addresses, 1 change, 2 moments, fairness | no answer older than `cache_exp`, none from before a reset, lookups return, `CacheInv` |
| `test_session` | 5 tests, 4 of them of 3 teams in mixed order, 2 resources of 2 values, 1 ignored, 2 errors | each team has exactly what differs between its session fixture and the next, the report is complete, errors are printed under their test; `TestInv` |

### Why the bounds are enough

* *JobsSet.* The races are between two workers, or one worker and the client:
  two threads show them. Two jobs make "last one" and "not the last one"
  differ; three, with a queue of one, make `put` block and `fillQueue` stop.
  Two starts make more threads than the second start expects. A pool of one
  worker for two jobs is the smallest in which a job waits behind a target that
  may end its thread; with a worker per job none does.
* *RestSession.* A proxy is replaced only by logoff, so two are alive at once
  for two users; the number of sessions is the number of places that can hold
  one (cookies, headers, answers), so that an unused one is always there. Two
  elements make a second util that shares the proxy of the first; threads,
  elements and users are interchangeable (`SYMMETRY`), proxies and sessions,
  which are chosen by `CHOOSE`, are not.
* *RestOps.* Operations whose control is the same are represented by one in the
  run with two threads: update and delete by syncAction, query by
  getElemFromLink, getElemFromElemColl and get by find. 409 stands for 400, which
  occurs in the same lists. The run has no configured Correlation-Id, which is
  the harder case; the theorems cover both. Two calls per thread are enough for the
  first to leave something for the second; the theorems have no such bound.
* *DhcpLeases.* Three replies for the same MAC are offered and two of them
  printed (`NakAndTwoLeases`, `MaxPackets`): two are needed for one to be affected
  by the rest of the other, be it a refusal and an acknowledgement, or two
  acknowledgements of which the later must win. The relayed one has the lines
  the parser does not know. `MaxChunk` is how many lines one `recv()`
  returns: one, or several at once. `LeaseCaught` is about one reply. The theorems bound neither the hosts
  nor the replies and losses.
* *Calls.* No two calls share anything but the engine, so they are made one at a
  time; `Fork` has two workers. `MaxPolls = 1` gives every wait two samples: one
  before and one after the engine moves. Every wait is repeated by loops only as
  often as the code says.
* *NameCache.* `Exp = 0` with two moments distinguishes a record in its time from
  one after it; two threads are one in the lock and one that resets or waits.
  The theorems have no bound.
* *TestSession.* Three teams are needed for a teardown that has raised to be made
  up for by the setup after the next; a team's second test after one of another
  team is what the order marks bring about; a test without a team comes before
  any dump. The values of resources are only compared, hence interchangeable
  (`SYMMETRY`).

### Fairness

* `JobsSet`: weak fairness of every worker and of the body of a call the client
  has made. The interpreter schedules every thread; targets are assumed to end;
  the client need not call anything.
* `RestSession`: strong fairness of every thread, since `RLock.acquire` is
  repeatedly possible and repeatedly not; sessions need not stop expiring.
* `RestOps`: weak fairness of every thread. A lock is waited for, but every
  thread makes finitely many calls (`MaxCalls`), so it is free in the end.
* `DhcpLeases`: weak fairness of the main thread's calls and of every reader
  (`select` returns after its timeout). Losses, replies and the end of the test
  run are not forced.
* `NameCache`: weak fairness of requests and returns, strong fairness of
  `look_up`, since the lock is repeatedly free. Resets, moves and time are not
  forced.

`CHECK_DEADLOCK FALSE` stands where the client or the threads may stop calling.

## 4. Findings

1. **`join()` may hang** (`jobs.py:359`, run `jobsset_join_hangs`). `Worker.run`
   sets `state = 'RUNNING'` unconditionally. If the other workers finish all
   jobs before a new thread executes that line, the `stop()` of `join()` is
   overwritten and the thread never ends.
2. **A switch of the user can be half forgotten** (`users.py:275`,
   `rest_switch`). `loginAsUser` logs off, then changes the configuration
   outside of the lock; a login in between is cached with the old filter.
3. **One parser for all hosts** (plugin `mac2ip.py:50`, `dhcp_shared`). Lines of
   two hosts mix: the address of a refused lease is stored on another's
   acknowledgement.

`library_calls` passes for the calls it makes, and these were selected: the run
was made over all 415, and 12 of them break a promise. They are kept, as
translated, in sets of their own that `MCLibrary` leaves out of `AllCalls`;
adding a set shows its counterexample. What a call promises, and the statuses
its entities may start in, are expectations written for this project from names,
docstrings and callers; several were corrected when a counterexample showed the
expectation and not the code to be wrong, so a pass says that the function keeps
the promise written beside it in the module, not one stated by the repository.
The disagreements, which have no run of their own:

* `MoveCalls` (`low_level/disks.py:670`): `return False` stands in the loop over
  the sampler, so `move_disk`, `copy_disk` and `sparsify_disk` answer False in
  the first round unless the disk is ready at once (`FailsForAReason`).
* `HostFailures` (`low_level/hosts.py`): `reboot_host` (709) answers False when
  the command succeeds; `stop_vdsm` (1419), `deactivate_host` (510) and
  `install_host` (572) wait for a status that may be over, or is not the one the
  engine is in (`FailsForAReason`).
* `ImportCalls` (`low_level/storagedomains.py:1787`): the result of the import is
  not looked at before the wait (`TrueMeansSeen`).
* `GoneCalls` (`low_level/vms.py`): `removeDisk` (1470) samples a list that was
  read before the loop; `remove_vm_from_export_domain` (3257) answers True when
  the removal was accepted and not when the VM is gone.
* `AsyncCalls` (`low_level/vms.py`): with `async` `restartVm` (1038) does not wait
  for the VM to go down before it is started, and with `stopVM` `removeVms` (903)
  asks for the removal of VMs it has just stopped without waiting
  (`FailsForAReason`: the request is sent while the VM is still going down).
* Not in the library: `find()` and `getElemFromElemColl()` (`rest_utils.py:536`) set `All-content` in
  the shared headers and never remove it, unlike `query()` and
  `getElemFromLink()`.

Limits of properties that hold only under the stated instance:

* `AllDoneSound` and `NoLostCompletion` need all jobs added before `start()`: a
  job is visible to workers before its handlers are attached.
* A pool with fewer workers than jobs (`JobsSet(3)` in `main()`; the library only
  makes `JobsSet()`) can lose all its workers to targets that end their thread.
  The jobs that are left never run, and `join()` and `waitUntilAllDone()` wait for
  ever. `EveryJobFinishes`, `QueueJoinReturns` and `WaitAllReturns` say so
  (`Abandoned`): a job is run unless as many targets of other jobs as there are
  workers have ended their thread, which with a worker per job cannot happen.
* After a `SUICIDE_JOB`, which is counted and never reported done, `join()`
  waits for ever.
* `NeverRefused` is about calls that no other thread disturbs: `self.cookie` is
  tested and read again, and another thread's `connect()` may clear it in
  between.
* `VerdictTrue` has one exception: 500 is in `NEGATIVE_CODES` (`apis_utils.py:41`),
  so an operation that was to fail, was executed, and was answered 500 returns
  True.
* `AllContentAlone` needs a call that no other thread disturbs; two `query()`s
  with `all_content` can lose the header or raise `KeyError`.
* `LeaseTrue` and `LatestLease` are stated for as long as no connection was lost
  (`drops = 0`): the parser keeps its state, and the reader half a line, across a
  reconnection. Without that condition TLC refutes both on the instance of
  `dhcp`, with a direct as with a relayed acknowledgement. The lost connection
  of that run is there for `StopEnds` and `NoFalseMiss`. With two hosts
  `LeaseTrue` fails without any loss (`dhcp_shared`). A reply that a lost
  connection cuts off is therefore outside of what is promised.
* `ReportComplete` needs dumps that do not fail: after one at a team's setup,
  every later comparison raises and no report is written. Without
  `--leftovers-file`, whose default is None, `open()` raises and there is none
  either (`leftovers_file`).
* `LeftoversOwn` is about two session fixtures that follow each other, and not
  about whose tests changed the engine. `leftoversinfo.py:1-5` speaks of what is
  left "after each team's package finishes"; but the order marks
  (`marks.py:73-81`) may put tests of one team after those of another, whose
  fixture has then made the dump, and the finalizer of `prepare_env`
  (`rhevmtests/conftest.py:20-29`) removes the storage domains of all teams before
  the last comparison. Such changes are listed under the team whose fixture ran
  last. `LeftoversOwn` holds whatever the order; that nothing else changes the
  engine between a dump and the test that follows is assumed.
* `ErrorsOwn` is about setup and call: errors of a teardown wait in the filter
  and are printed under the next test that fails.
* `TrueMeansSeen` is about what the test has learned: the engine may have moved
  on by the time of the answer.

## 5. Proofs

Everything below is for any sets of threads, jobs, users, sessions, hosts,
addresses, tests and entities satisfying the named assumptions (`JobsAssumption`,
`PoolAssumption`, `OpsAssumption`, `LeasesAssumption`, `NameCacheAssumption` and
the `SessionAssumption`s of `RestSession` and `TestSession`: finiteness of the
jobs, `None` distinct from values, Boolean switches, numbers in `Nat`). Every
invariant a run checks is the conclusion of a theorem; for the library that
theorem is about the functions that satisfy a criterion, which most do. The
inductive invariants of the components are also invariants of their runs, so that
TLC has seen them on an instance with the interesting cases; those about the
library quantify over sets of points, and TLC evaluates the criterion they rest
on instead.

* **JobsSetProofs.** `Invariance` proves `IInv`. `JoinSound` alone is not
  inductive: one must know that a put job is in exactly one place (queue, one
  worker, done: `HolderInv`), that the place determines its state (`StateInv`),
  that it is counted in its worker's one pass over the handlers (`CountInv`,
  from which `unfinished` is the size of a difference of sets), and that between
  `queue.join()` and the return nothing is put (`JoinInv`, `AllDoneInv`).
  From it `TypeCorrect`, `CountCorrect`, `JoinCorrect`, `AllDoneCorrect` (no late
  additions) and `Refinement`, that `JobsSet` implements `JobPool`: each action
  maps to a step of the abstract pool or a stutter. `CompletionCorrect`, without
  late additions, is that no completion is lost: a worker then finds the
  handlers of its job attached, its pass over them is not broken off by a change
  of their number, and it releases the job only after counting it (`PassInv`).
* **RestSessionProofs.** `SessionInvariance` proves `SessionInv`; `OnceCorrect`
  follows from `OnceInv` (an executed call is on its way back with an answer
  other than 401) for every instance. `UserCorrect` and `RefusedCorrect` assume
  that switches do not overlap calls; `OwnInv` says that every proxy, cookie,
  header and answer in reach belongs to the configured user, `ConfigInv` that
  during a switch nothing is in reach. `RefusedCorrect` needs `AloneInv`: for a
  call that runs alone, what it tested of the cookie is what it reads, a 401 can
  only be the answer to a cookie, and the resend is with credentials.
  `SessionRefinement`, with the same assumption, maps every step to one of
  `RestCalls` or a stutter: a call that was sent again is still executed once,
  and (`DoneInv`) an answer 200 means that it was, while a 500 or an exception,
  which leave it open, come only where the engine may fail (`Faults`). The
  abstract place of a thread is read from the number of executions, hence needs
  `OnceInv`; the user it is executed as needs `OwnInv`. `OnceCorrect` alone holds
  also while switches overlap.
* **RestOpsProofs.** `OpsInvariance` proves `OpsInv`: `LockInv` ties the holder
  of `context_lock`, the Correlation-Id and the places of the threads;
  `JudgeInv` says that between its answer and its verdict a call's status tells
  whether the engine acted, unless it is 500 or the request raised. `CorrelationCorrect` and
  `VerdictCorrect` are its consequences. The one lemma about the engine,
  `AnswersCode`, is that a 2xx code means that it acted, and that what was
  executed is answered with one or with 500. `AllContentCorrect`
  rests on `HeaderInv`: while no other thread uses the headers, `All-content`
  stays from where a call sets it to where it removes it, on every path.
* **DhcpLeasesProofs.** `LeasesInvariance` proves `LeasesInv` for any number of
  hosts and losses. `StartInv`: each reader is started once. `StoreInv`: in
  whatever order the readers change the one parser, a store has an address and a
  MAC. `AnswerInv`: leases stay in the cache under the unified spelling; from it
  `NoFalseMissCorrect`, with any hosts and losses. `StreamInv`: until a
  connection is lost, what waits in the channel, in the half line, and in the
  lines to be parsed is, in order, what tcpdump printed and the parser was not
  given, however `recv()` cut it. `LeaseCorrect` and `LatestCorrect` are about
  one host, and a violation run (`dhcp_shared`) shows that the first needs it.
  `OneReaderInv` says that the parser's state, address and MAC are those of the
  reply and line it has reached (`ParserOf`), and that the last lease of a MAC
  is that of the last acknowledgement still to be stored or, if there is none,
  the one in the cache (`LatestOf`, `Due`). As `LeaseTrue` and `LatestLease`
  say, both hold until a connection is lost.
* **NameCacheProofs.** `CacheInvariance` proves `CacheInv`. `ResetForgets` alone is
  not inductive: a record must be known to hold an address of the time since
  the reset (`RecordInv`), so must what a thread brings from `get_ip`
  (`FetchInv`), which a reset cannot overtake because the thread has the lock
  (`LockInv`). The same parts carry the moments at which an address was true,
  from which `AgeCorrect`, an action property, follows: a record expires
  `cache_exp` after the time stamp, and its address was true after that stamp
  (`HeldInv`). `ResetCorrect` is the other consequence. No bound on the clock or
  on the changes of addresses is used.
* **TestSessionProofs.** `TestInvariance` proves `TestInv`, for any order of the
  tests and any changes of the engine. `LeftoversOwn` is not inductive: one must
  know that each team's session fixture runs once, hence makes at most one entry
  of `dumps`, and that the dump in hand is, as far as it could be made, the
  engine of the last entry (`FixtureInv`); a summary, once made, then compares two
  consecutive entries and is final (`SummaryInv`, which also says when it may be
  missing). The lemma `DifferencesBetween` is that what differs between two
  states differs on one of the two ways through a third; with it the summaries,
  team by team, miss nothing that differs between the first dump and the end.
  `LeftoversCorrect` and `ReportCorrect` follow. `LogInv` says which messages can
  wait in the filter in which phase; `ErrorsOwnCorrect` and
  `ErrorsPrintedCorrect` follow.
* **CallsProofs** is about `Calls` for any `Library`, that is, for any functions
  and any entities, statuses and ways of the engine; no function of this library
  is named. `TypeCorrect` needs a class `S` of statements whose bodies, branches
  and handlers are in `S` again (`Written`). Its invariant `TypeInv` says that what is
  left to do is a sequence over `S` and the ends of calls, through returns out of
  nested functions, exceptions, `finally` and threads.

  The other three theorems have as hypothesis that there is a set of points of
  the function, closed under its statements, with a property at each point. Their
  invariants say that the test is always at one of the points, and that what is
  known there is true of the engine:
  * `ReasonGiven` (`ReasonInv`): as long as nothing has gone wrong in the engine,
    the thread is at a point of `Clears` and each entity is on the way that is
    known. At such a point a request finds the entity in a status in which it is
    accepted, and a wait has not missed its goal nor ends at a final status.
    Hence a failure has a reason. This is the hazard of a request that is sent
    before the engine has finished the one before.
  * `TrueWitnessed` (`WitnessInv`): the thread is at a point of `Outcomes`, where
    a superset of the last statuses seen of each entity is known, whatever was
    refused, missed, timed out or caught on the way. The answer is given only at
    points where all of these are statuses of the promise.
  * `RefusalWitnessed` (`RefuseInv`): the same points know the engine's verdict
    on the last request with the caller's sign.

  `MCLibrary` computes the statements of each of the 403 calls, and its points
  from the statuses that its requests and entities can have: all 403 are written
  as `TypeCorrect` assumes, the hypothesis of `ReasonGiven` holds
  of 355, that of `TrueWitnessed` of 353, that of `RefusalWitnessed` of 85 of the
  88 that have a flag `positive`. The assumptions `MostWritten`, `MostAccounted`,
  `MostWitnessed` and `MostRefusedOnly` state it as a proportion (more than three
  quarters), so that a change of one function is reported by the properties.
* **CallIdiomsProofs** needs no computation. A function ends in the idiom when
  its last statement that asks the engine, a request, a test or a wait, shows what the function
  promises (`Shows`), and what follows only answers its result (`Endings`). What
  comes before may be any statements and any nested calls, as long as an early
  return of its own is not True (`Called`, `Early`) and there are no threads.
  `AnswerSeen` and `AnswerRefused` say that a True is then right. 164 of the 403
  calls end in this way and 155 satisfy all hypotheses. Their invariant
  `AnswerInv` separates the thread that has not reached that statement, also
  inside a nested function or a handler (`Before`), from the one whose result is
  the answer.

Only model-checked:

* all liveness (`EveryJobFinishes`, `LeaseCaught`, `StopEnds` and the
  like): fairness and ENABLED are beyond the prover;
* the calls that do not satisfy the criteria of `CallsProofs` (48 for
  `FailsForAReason`, 50 for `TrueMeansSeen`, 3 for `NegativeMeansRefused`). They
  start threads (`Fork`), whose interleavings a course of points does not
  describe; sample a value that was read before a wait (`old`), or wait for
  a status that was remembered (which `Accounts` leaves out); or they rest on a
  correlation that the points lose: of several entities seen at once only one
  need be in another status, and a branch taken on one entity says something of
  another. For these the run is the evidence;
* that the functions of this library satisfy the criteria: it is evaluated by
  TLC, since the points of a function are found by recursion.

## 6. Not modelled

Each component that is left out is listed in `PROJECT.json` with the reason.
Within the modelled parts: the XSD validation and the parsing of bodies,
logging, `StreamProducer` (no user), `ReturnableEvent` and `Event.unhandle` (no
caller), the exact time of time-outs, and of the library the functions that only
build or compare objects and the files of features with few functions (users and
permissions, SLA policies, tags, bookmarks, hooks, external providers,
`streaming_api`, storage connections of `high_level`).

## 7. Plan

Done: `JobPool`, `JobsSet`, `RestSession`, `DhcpLeases`, `RestOps`, in the order
of their weight for the rest of the system; then the library on the polling of
`Calls`, `NameCache` and `TestSession`; the proofs of all safety invariants of
these components, the refinements of `JobPool` and `RestCalls`, and the theorems
about the functions of the library. Left:

1. Proofs: an abstract map from names to addresses that `NameCache` refines,
   and one from MACs to leases for one reader of `DhcpLeases`; the courses of
   functions that start threads.
2. The remaining files of the library in the same vocabulary.
