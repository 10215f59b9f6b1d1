--------------------------- MODULE JobsSetProofs ---------------------------
(***************************************************************************)
(* Proofs about the job pool of art/rhevm_api/utils/jobs.py, for any jobs, *)
(* any number of workers, any queue size and any client.                   *)
(***************************************************************************)
EXTENDS JobsSet, TLAPS, FiniteSetTheorems, SequenceTheorems

-----------------------------------------------------------------------------
(* Facts about the data.                                                   *)

(* The set of jobs put is finite, so that its cardinality is a number.     *)
LEMMA SubsetFinite ==
    ASSUME NEW S \in SUBSET Jobs
    PROVE  IsFiniteSet(S) /\ Cardinality(S) \in Nat
BY JobsAssumption, FS_Subset, FS_CardinalityType

(* An event of a job has at most the two handlers of its JobsSet.          *)
LEMMA HandlersCard ==
    ASSUME NEW S \in SUBSET Handlers
    PROVE  Cardinality(S) \in 0..2
<1>1. IsFiniteSet(Handlers) /\ Cardinality(Handlers) = 2
  <2>1. IsFiniteSet({}) /\ Cardinality({}) = 0
    BY FS_EmptySet
  <2>2. IsFiniteSet({"done"}) /\ Cardinality({"done"}) = 1
    BY FS_Singleton
  <2>3. Handlers = {"done"} \cup {"any"} /\ "any" \notin {"done"}
    BY DEF Handlers
  <2>4. QED
    BY <2>2, <2>3, FS_AddElement
<1>2. IsFiniteSet(S) /\ Cardinality(S) <= 2
  BY <1>1, FS_Subset
<1>3. Cardinality(S) \in Nat
  BY <1>2, FS_CardinalityType
<1>4. QED
  BY <1>2, <1>3

(* Counting one more job put, and one more job done.                       *)
LEMMA CountPut ==
    ASSUME NEW P \in SUBSET Jobs, NEW D \in SUBSET P, NEW j \in Jobs \ P
    PROVE  Cardinality((P \cup {j}) \ D) = Cardinality(P \ D) + 1
<1>1. (P \cup {j}) \ D = (P \ D) \cup {j} /\ j \notin P \ D
  OBVIOUS
<1>2. IsFiniteSet(P \ D)
  BY SubsetFinite
<1>3. QED
  BY <1>1, <1>2, FS_AddElement

LEMMA CountDone ==
    ASSUME NEW P \in SUBSET Jobs, NEW D \in SUBSET P, NEW j \in P \ D
    PROVE  Cardinality(P \ (D \cup {j})) = Cardinality(P \ D) - 1
<1>1. P \ (D \cup {j}) = (P \ D) \ {j}
  OBVIOUS
<1>2. IsFiniteSet(P \ D)
  BY SubsetFinite
<1>3. Cardinality(P \ D) \in Nat
  BY <1>2, FS_CardinalityType
<1>4. QED
  <2>1. Cardinality((P \ D) \ {j}) = Cardinality(P \ D) - 1
    BY <1>2, FS_RemoveElement
  <2>2. QED
    BY <1>1, <2>1

(* What is put last stays last, and taking the first shifts the others.    *)
LEMMA AppendFacts ==
    ASSUME NEW q \in Seq(Jobs), NEW j \in Jobs
    PROVE  /\ Append(q, j) \in Seq(Jobs) /\ Len(q) \in Nat
           /\ Len(Append(q, j)) = Len(q) + 1
           /\ \A i \in 1..Len(q) : Append(q, j)[i] = q[i]
           /\ Append(q, j)[Len(q) + 1] = j
OBVIOUS

LEMMA TailFacts ==
    ASSUME NEW q \in Seq(Jobs), q # <<>>
    PROVE  /\ Tail(q) \in Seq(Jobs) /\ Head(q) \in Jobs
           /\ Len(q) \in Nat /\ Len(q) >= 1
           /\ Head(q) = q[1]
           /\ Len(Tail(q)) = Len(q) - 1
           /\ \A i \in 1..Len(Tail(q)) : Tail(q)[i] = q[i + 1]
OBVIOUS

-----------------------------------------------------------------------------
(* The invariant holds initially.                                          *)
LEMMA InitIInv == Init => IInv
<1> SUFFICES ASSUME Init PROVE IInv
  OBVIOUS
<1> USE DEF Init
<1>1. TypeOK
  <2>1. queue \in Seq(Jobs) /\ nthreads \in 0..MaxThreads /\ workers \in Nat
    BY PoolAssumption
  <2>2. handlers \in [Events -> SUBSET Handlers]
    OBVIOUS
  <2>3. /\ jobState \in [Jobs -> {"INITED", "RUNNING", "FINISHED"}]
        /\ outcome \in [Jobs -> {"none"} \cup Outcomes]
    OBVIOUS
  <2>4. /\ wpc \in [Threads -> WorkerPC]
        /\ wstate \in [Threads -> {"None", "RUNNING", "STOPPING", "STOPPED"}]
        /\ cur \in [Threads -> Jobs \cup {NoJob}]
        /\ seen \in [Threads -> SUBSET Handlers]
        /\ size \in [Threads -> 0..2]
    BY DEF WorkerPC
  <2>5. QED
    BY <2>1, <2>2, <2>3, <2>4 DEF TypeOK, ClientPC, Calls, Returns
<1>2. ClientInv
  BY DEF ClientInv
<1>3. HolderInv /\ StateInv
  BY DEF HolderInv, StateInv, OneHolder, Held
<1>4. CountInv
  <2>1. put \ counted = {}
    OBVIOUS
  <2>2. CountExact
    BY <2>1, FS_EmptySet DEF CountExact
  <2>3. QED
    BY <2>2 DEF CountInv
<1>5. JoinInv /\ AllDoneInv
  BY DEF JoinInv, AllDoneInv
<1>6. PassInv
  BY DEF PassInv, NoLostCompletion
<1>7. QED
  BY <1>1, <1>2, <1>3, <1>4, <1>5, <1>6 DEF IInv

-----------------------------------------------------------------------------
(* Every step preserves each part of the invariant.                        *)
(* The variables keep their types. *)
LEMMA TypeStep ==
    ASSUME IInv, [Next]_vars
    PROVE  TypeOK'
<1> USE DEF IInv, TypeOK, poolVars, jobVars, workerVars, clientVars, history, WorkerPC, ClientPC,
           Calls, Returns
<1>1. ASSUME NEW j \in Jobs, NEW c \in {"add", "addnb"}, AddJobs(j, c) PROVE TypeOK'
    BY <1>1, JobsAssumption DEF AddJobs, Enter
<1>2. CASE FillQueue
    BY <1>2 DEF FillQueue, Enter
<1>3. CASE CopyJob
    BY <1>3, JobsAssumption DEF CopyJob
<1>4. CASE Put
    BY <1>4, AppendFacts DEF Put, ClientInv
<1>5. CASE PutFull
    BY <1>5 DEF PutFull, Leave
<1>6. CASE AttachDone
    BY <1>6, JobsAssumption DEF AttachDone, ClientInv, Handlers
<1>7. CASE AttachAny
    BY <1>7, JobsAssumption DEF AttachAny, Leave, ClientInv, Handlers
<1>8. CASE Start
    BY <1>8 DEF Start, Enter
<1>9. CASE SizePool
    BY <1>9 DEF SizePool
<1>10. CASE ClearAllDone
    BY <1>10 DEF ClearAllDone
<1>11. CASE Spawn
    BY <1>11, PoolAssumption DEF Spawn, Threads
<1>12. CASE Spawned
    BY <1>12 DEF Spawned, Leave
<1>13. ASSUME NEW c \in {"join", "joinT"}, Join(c) PROVE TypeOK'
    BY <1>13 DEF Join, Enter
<1>14. CASE QueueJoined
    BY <1>14 DEF QueueJoined
<1>15. CASE JoinTimeout
    BY <1>15 DEF JoinTimeout, Leave
<1>16. CASE StopWorker
    BY <1>16, PoolAssumption DEF StopWorker, Threads, ClientInv
<1>17. CASE StoppedWorkers
    BY <1>17 DEF StoppedWorkers
<1>18. CASE JoinThread
    BY <1>18 DEF JoinThread
<1>19. CASE JoinReturn
    BY <1>19 DEF JoinReturn, Leave
<1>20. ASSUME NEW c \in {"waitAll", "waitAllT", "waitAny", "waitAnyT"}, Wait(c) PROVE TypeOK'
    BY <1>20 DEF Wait, Enter
<1>21. CASE WaitReturn
    BY <1>21 DEF WaitReturn, Leave
<1>22. ASSUME NEW w \in Threads, Boot(w) PROVE TypeOK'
    BY <1>22 DEF Boot, Goto
<1>23. ASSUME NEW w \in Threads, CheckState(w) PROVE TypeOK'
    BY <1>23 DEF CheckState, Goto
<1>24. ASSUME NEW w \in Threads, Get(w) PROVE TypeOK'
    BY <1>24, TailFacts DEF Get, Goto
<1>25. ASSUME NEW w \in Threads, GetEmpty(w) PROVE TypeOK'
    BY <1>25 DEF GetEmpty, Goto
<1>26. ASSUME NEW w \in Threads, Begin(w) PROVE TypeOK'
    BY <1>26 DEF Begin, Goto, HolderInv, Held
<1>27. ASSUME NEW w \in Threads, Target(w) PROVE TypeOK'
    BY <1>27 DEF Target, Goto, HolderInv, Held
<1>28. ASSUME NEW w \in Threads, Finish(w) PROVE TypeOK'
  <2>1. cur[w] \in Jobs
    BY <1>28 DEF Finish, Goto, HolderInv, Held
  <2>2. Cardinality(handlers[EventOf[cur[w]]]) \in 0..2
    BY <2>1, JobsAssumption, HandlersCard
  <2>3. QED
    BY <1>28, <2>1, <2>2 DEF Finish, Goto
<1>29. ASSUME NEW w \in Threads, NEW h \in Handlers, Invoke(w, h) PROVE TypeOK'
    BY <1>29 DEF Invoke, Goto, Handlers
<1>30. ASSUME NEW w \in Threads, InvokeError(w) PROVE TypeOK'
    BY <1>30 DEF InvokeError, Goto
<1>31. ASSUME NEW w \in Threads, InvokeEnd(w) PROVE TypeOK'
    BY <1>31 DEF InvokeEnd, Goto
<1>32. ASSUME NEW w \in Threads, TaskDone(w) PROVE TypeOK'
  <2>1. cur[w] \in put \ counted
    BY <1>32 DEF TaskDone, Goto, HolderInv, Held, CountInv
  <2>2. counted \subseteq put /\ unfinished = Cardinality(put \ counted)
    BY DEF CountInv, CountExact
  <2>3. Cardinality(put \ (counted \cup {cur[w]})) = unfinished - 1
    BY <2>1, <2>2, CountDone
  <2>4. unfinished - 1 \in Nat
    BY <2>3, SubsetFinite
  <2>5. QED
    BY <1>32, <2>1, <2>4 DEF TaskDone, Goto
<1>33. ASSUME NEW w \in Threads, CheckAllDone(w) PROVE TypeOK'
    BY <1>33 DEF CheckAllDone, Goto
<1>34. ASSUME NEW w \in Threads, SetAllDone(w) PROVE TypeOK'
    BY <1>34 DEF SetAllDone, Goto
<1>35. ASSUME NEW w \in Threads, SetAnyDone(w) PROVE TypeOK'
    BY <1>35 DEF SetAnyDone, Goto
<1>36. ASSUME NEW w \in Threads, Exit(w) PROVE TypeOK'
    BY <1>36 DEF Exit, Goto
<1>37. CASE UNCHANGED vars
    BY <1>37 DEF vars
<1>38. QED
    BY <1>1, <1>2, <1>3, <1>4, <1>5, <1>6, <1>7, <1>8, <1>9, <1>10, <1>11,
       <1>12, <1>13, <1>14, <1>15, <1>16, <1>17, <1>18, <1>19, <1>20, <1>21,
       <1>22, <1>23, <1>24, <1>25, <1>26, <1>27, <1>28, <1>29, <1>30, <1>31,
       <1>32, <1>33, <1>34, <1>35, <1>36, <1>37 DEF Next, ClientCall,
       ClientStep, Worker

(* The client's own part. *)
LEMMA ClientStepInv ==
    ASSUME IInv, [Next]_vars
    PROVE  ClientInv'
<1> USE DEF IInv, TypeOK, ClientInv, poolVars, jobVars, workerVars, clientVars, history
<1>1. ASSUME NEW j \in Jobs, NEW c \in {"add", "addnb"}, AddJobs(j, c) PROVE ClientInv'
    BY <1>1 DEF AddJobs, Enter, MayAdd
<1>2. CASE FillQueue
    BY <1>2 DEF FillQueue, Enter, MayAdd
<1>3. CASE CopyJob
    BY <1>3, JobsAssumption DEF CopyJob
<1>4. CASE Put
    BY <1>4 DEF Put
<1>5. CASE PutFull
    BY <1>5 DEF PutFull, Leave
<1>6. CASE AttachDone
    BY <1>6 DEF AttachDone
<1>7. CASE AttachAny
    BY <1>7 DEF AttachAny, Leave
<1>8. CASE Start
    BY <1>8 DEF Start, Enter
<1>9. CASE SizePool
    BY <1>9 DEF SizePool
<1>10. CASE ClearAllDone
    BY <1>10 DEF ClearAllDone
<1>11. CASE Spawn
    BY <1>11 DEF Spawn
<1>12. CASE Spawned
    BY <1>12 DEF Spawned, Leave
<1>13. ASSUME NEW c \in {"join", "joinT"}, Join(c) PROVE ClientInv'
    BY <1>13 DEF Join, Enter
<1>14. CASE QueueJoined
    BY <1>14 DEF QueueJoined
<1>15. CASE JoinTimeout
    BY <1>15 DEF JoinTimeout, Leave
<1>16. CASE StopWorker
    BY <1>16 DEF StopWorker
<1>17. CASE StoppedWorkers
    BY <1>17 DEF StoppedWorkers
<1>18. CASE JoinThread
    BY <1>18 DEF JoinThread
<1>19. CASE JoinReturn
    BY <1>19 DEF JoinReturn, Leave
<1>20. ASSUME NEW c \in {"waitAll", "waitAllT", "waitAny", "waitAnyT"}, Wait(c) PROVE ClientInv'
    BY <1>20 DEF Wait, Enter
<1>21. CASE WaitReturn
    BY <1>21 DEF WaitReturn, Leave
<1>22. ASSUME NEW w \in Threads, Boot(w) PROVE ClientInv'
    BY <1>22 DEF Boot, Goto
<1>23. ASSUME NEW w \in Threads, CheckState(w) PROVE ClientInv'
    BY <1>23 DEF CheckState, Goto
<1>24. ASSUME NEW w \in Threads, Get(w) PROVE ClientInv'
    BY <1>24 DEF Get, Goto
<1>25. ASSUME NEW w \in Threads, GetEmpty(w) PROVE ClientInv'
    BY <1>25 DEF GetEmpty, Goto
<1>26. ASSUME NEW w \in Threads, Begin(w) PROVE ClientInv'
    BY <1>26 DEF Begin, Goto
<1>27. ASSUME NEW w \in Threads, Target(w) PROVE ClientInv'
    BY <1>27 DEF Target, Goto
<1>28. ASSUME NEW w \in Threads, Finish(w) PROVE ClientInv'
    BY <1>28 DEF Finish, Goto
<1>29. ASSUME NEW w \in Threads, NEW h \in Handlers, Invoke(w, h) PROVE ClientInv'
    BY <1>29 DEF Invoke, Goto
<1>30. ASSUME NEW w \in Threads, InvokeError(w) PROVE ClientInv'
    BY <1>30 DEF InvokeError, Goto
<1>31. ASSUME NEW w \in Threads, InvokeEnd(w) PROVE ClientInv'
    BY <1>31 DEF InvokeEnd, Goto
<1>32. ASSUME NEW w \in Threads, TaskDone(w) PROVE ClientInv'
    BY <1>32 DEF TaskDone, Goto
<1>33. ASSUME NEW w \in Threads, CheckAllDone(w) PROVE ClientInv'
    BY <1>33 DEF CheckAllDone, Goto
<1>34. ASSUME NEW w \in Threads, SetAllDone(w) PROVE ClientInv'
  <2>1. nthreads > 0 /\ starts # 0
    BY <1>34, PoolAssumption DEF SetAllDone, Goto, HolderInv, Threads
  <2>2. QED
    BY <1>34, <2>1 DEF SetAllDone
<1>35. ASSUME NEW w \in Threads, SetAnyDone(w) PROVE ClientInv'
    BY <1>35 DEF SetAnyDone, Goto
<1>36. ASSUME NEW w \in Threads, Exit(w) PROVE ClientInv'
    BY <1>36 DEF Exit, Goto
<1>37. CASE UNCHANGED vars
    BY <1>37 DEF vars
<1>38. QED
    BY <1>1, <1>2, <1>3, <1>4, <1>5, <1>6, <1>7, <1>8, <1>9, <1>10, <1>11,
       <1>12, <1>13, <1>14, <1>15, <1>16, <1>17, <1>18, <1>19, <1>20, <1>21,
       <1>22, <1>23, <1>24, <1>25, <1>26, <1>27, <1>28, <1>29, <1>30, <1>31,
       <1>32, <1>33, <1>34, <1>35, <1>36, <1>37 DEF Next, ClientCall,
       ClientStep, Worker

(* A job moves from the queue to one worker. *)
LEMMA HolderStep ==
    ASSUME IInv, [Next]_vars
    PROVE  HolderInv'
<1> USE DEF IInv, TypeOK, HolderInv, OneHolder, Held, poolVars, jobVars, workerVars, clientVars, history,
           Threads
<1>1. ASSUME NEW j \in Jobs, NEW c \in {"add", "addnb"}, AddJobs(j, c) PROVE HolderInv'
    BY <1>1 DEF AddJobs, Enter
<1>2. CASE FillQueue
    BY <1>2 DEF FillQueue, Enter
<1>3. CASE CopyJob
    BY <1>3 DEF CopyJob
<1>4. CASE Put
  <2>1. arg \in Jobs /\ arg \notin put /\ queue' = Append(queue, arg) /\ put' = put \cup {arg}
    BY <1>4 DEF Put, ClientInv
  <2>2. \A w \in Threads : cur[w] # arg
    BY <2>1, JobsAssumption
  <2>3. \A i \in 1..Len(queue) : queue[i] # arg
    BY <2>1
  <2>4. \A i \in 1..Len(queue') :
          \/ (i \in 1..Len(queue) /\ queue'[i] = queue[i])
          \/ (i = Len(queue) + 1 /\ queue'[i] = arg)
    <3>1. /\ Len(queue) \in Nat /\ Len(queue') = Len(queue) + 1
          /\ \A i \in 1..Len(queue) : queue'[i] = queue[i]
          /\ queue'[Len(queue) + 1] = arg
      BY <2>1, AppendFacts
    <3>2. QED
      BY <3>1
  <2>5. OneHolder'
    BY <1>4, <2>2, <2>3, <2>4 DEF Put
  <2>6. QED
    BY <1>4, <2>1, <2>4, <2>5 DEF Put
<1>5. CASE PutFull
    BY <1>5 DEF PutFull, Leave
<1>6. CASE AttachDone
    BY <1>6 DEF AttachDone
<1>7. CASE AttachAny
    BY <1>7 DEF AttachAny, Leave
<1>8. CASE Start
    BY <1>8 DEF Start, Enter
<1>9. CASE SizePool
    BY <1>9 DEF SizePool
<1>10. CASE ClearAllDone
    BY <1>10 DEF ClearAllDone
<1>11. CASE Spawn
    BY <1>11 DEF Spawn
<1>12. CASE Spawned
    BY <1>12 DEF Spawned, Leave
<1>13. ASSUME NEW c \in {"join", "joinT"}, Join(c) PROVE HolderInv'
    BY <1>13 DEF Join, Enter
<1>14. CASE QueueJoined
    BY <1>14 DEF QueueJoined
<1>15. CASE JoinTimeout
    BY <1>15 DEF JoinTimeout, Leave
<1>16. CASE StopWorker
    BY <1>16 DEF StopWorker
<1>17. CASE StoppedWorkers
    BY <1>17 DEF StoppedWorkers
<1>18. CASE JoinThread
    BY <1>18 DEF JoinThread
<1>19. CASE JoinReturn
    BY <1>19 DEF JoinReturn, Leave
<1>20. ASSUME NEW c \in {"waitAll", "waitAllT", "waitAny", "waitAnyT"}, Wait(c) PROVE HolderInv'
    BY <1>20 DEF Wait, Enter
<1>21. CASE WaitReturn
    BY <1>21 DEF WaitReturn, Leave
<1>22. ASSUME NEW w \in Threads, Boot(w) PROVE HolderInv'
    BY <1>22 DEF Boot, Goto
<1>23. ASSUME NEW w \in Threads, CheckState(w) PROVE HolderInv'
    BY <1>23 DEF CheckState, Goto
<1>24. ASSUME NEW w \in Threads, Get(w) PROVE HolderInv'
    BY <1>24, TailFacts, JobsAssumption DEF Get, Goto
<1>25. ASSUME NEW w \in Threads, GetEmpty(w) PROVE HolderInv'
    BY <1>25 DEF GetEmpty, Goto
<1>26. ASSUME NEW w \in Threads, Begin(w) PROVE HolderInv'
    BY <1>26 DEF Begin, Goto
<1>27. ASSUME NEW w \in Threads, Target(w) PROVE HolderInv'
    BY <1>27 DEF Target, Goto
<1>28. ASSUME NEW w \in Threads, Finish(w) PROVE HolderInv'
    BY <1>28 DEF Finish, Goto
<1>29. ASSUME NEW w \in Threads, NEW h \in Handlers, Invoke(w, h) PROVE HolderInv'
    BY <1>29 DEF Invoke, Goto, Handlers
<1>30. ASSUME NEW w \in Threads, InvokeError(w) PROVE HolderInv'
    BY <1>30, JobsAssumption DEF InvokeError, Goto
<1>31. ASSUME NEW w \in Threads, InvokeEnd(w) PROVE HolderInv'
    BY <1>31, JobsAssumption DEF InvokeEnd, Goto
<1>32. ASSUME NEW w \in Threads, TaskDone(w) PROVE HolderInv'
    BY <1>32 DEF TaskDone, Goto
<1>33. ASSUME NEW w \in Threads, CheckAllDone(w) PROVE HolderInv'
    BY <1>33 DEF CheckAllDone, Goto
<1>34. ASSUME NEW w \in Threads, SetAllDone(w) PROVE HolderInv'
    BY <1>34 DEF SetAllDone, Goto
<1>35. ASSUME NEW w \in Threads, SetAnyDone(w) PROVE HolderInv'
    BY <1>35 DEF SetAnyDone, Goto
<1>36. ASSUME NEW w \in Threads, Exit(w) PROVE HolderInv'
    BY <1>36 DEF Exit, Goto
<1>37. CASE UNCHANGED vars
    BY <1>37 DEF vars
<1>38. QED
    BY <1>1, <1>2, <1>3, <1>4, <1>5, <1>6, <1>7, <1>8, <1>9, <1>10, <1>11,
       <1>12, <1>13, <1>14, <1>15, <1>16, <1>17, <1>18, <1>19, <1>20, <1>21,
       <1>22, <1>23, <1>24, <1>25, <1>26, <1>27, <1>28, <1>29, <1>30, <1>31,
       <1>32, <1>33, <1>34, <1>35, <1>36, <1>37 DEF Next, ClientCall,
       ClientStep, Worker

(* A job's state follows its place. *)
LEMMA StateStep ==
    ASSUME IInv, [Next]_vars
    PROVE  StateInv'
<1> USE DEF IInv, TypeOK, HolderInv, StateInv, poolVars, jobVars, workerVars, clientVars, history
<1>1. ASSUME NEW j \in Jobs, NEW c \in {"add", "addnb"}, AddJobs(j, c) PROVE StateInv'
    BY <1>1 DEF AddJobs, Enter
<1>2. CASE FillQueue
    BY <1>2 DEF FillQueue, Enter
<1>3. CASE CopyJob
    BY <1>3 DEF CopyJob
<1>4. CASE Put
    BY <1>4, AppendFacts DEF Put, ClientInv
<1>5. CASE PutFull
    BY <1>5 DEF PutFull, Leave
<1>6. CASE AttachDone
    BY <1>6 DEF AttachDone
<1>7. CASE AttachAny
    BY <1>7 DEF AttachAny, Leave
<1>8. CASE Start
    BY <1>8 DEF Start, Enter
<1>9. CASE SizePool
    BY <1>9 DEF SizePool
<1>10. CASE ClearAllDone
    BY <1>10 DEF ClearAllDone
<1>11. CASE Spawn
    BY <1>11 DEF Spawn
<1>12. CASE Spawned
    BY <1>12 DEF Spawned, Leave
<1>13. ASSUME NEW c \in {"join", "joinT"}, Join(c) PROVE StateInv'
    BY <1>13 DEF Join, Enter
<1>14. CASE QueueJoined
    BY <1>14 DEF QueueJoined
<1>15. CASE JoinTimeout
    BY <1>15 DEF JoinTimeout, Leave
<1>16. CASE StopWorker
    BY <1>16 DEF StopWorker
<1>17. CASE StoppedWorkers
    BY <1>17 DEF StoppedWorkers
<1>18. CASE JoinThread
    BY <1>18 DEF JoinThread
<1>19. CASE JoinReturn
    BY <1>19 DEF JoinReturn, Leave
<1>20. ASSUME NEW c \in {"waitAll", "waitAllT", "waitAny", "waitAnyT"}, Wait(c) PROVE StateInv'
    BY <1>20 DEF Wait, Enter
<1>21. CASE WaitReturn
    BY <1>21 DEF WaitReturn, Leave
<1>22. ASSUME NEW w \in Threads, Boot(w) PROVE StateInv'
    BY <1>22 DEF Boot, Goto
<1>23. ASSUME NEW w \in Threads, CheckState(w) PROVE StateInv'
    BY <1>23 DEF CheckState, Goto
<1>24. ASSUME NEW w \in Threads, Get(w) PROVE StateInv'
    BY <1>24, TailFacts DEF Get, Goto, Held
<1>25. ASSUME NEW w \in Threads, GetEmpty(w) PROVE StateInv'
    BY <1>25 DEF GetEmpty, Goto
<1>26. ASSUME NEW w \in Threads, Begin(w) PROVE StateInv'
    BY <1>26 DEF Begin, Goto, Held, OneHolder
<1>27. ASSUME NEW w \in Threads, Target(w) PROVE StateInv'
    BY <1>27 DEF Target, Goto, Held, OneHolder
<1>28. ASSUME NEW w \in Threads, Finish(w) PROVE StateInv'
    BY <1>28 DEF Finish, Goto, Held, OneHolder
<1>29. ASSUME NEW w \in Threads, NEW h \in Handlers, Invoke(w, h) PROVE StateInv'
    BY <1>29 DEF Invoke, Goto, Handlers
<1>30. ASSUME NEW w \in Threads, InvokeError(w) PROVE StateInv'
    BY <1>30 DEF InvokeError, Goto
<1>31. ASSUME NEW w \in Threads, InvokeEnd(w) PROVE StateInv'
    BY <1>31 DEF InvokeEnd, Goto
<1>32. ASSUME NEW w \in Threads, TaskDone(w) PROVE StateInv'
    BY <1>32 DEF TaskDone, Goto
<1>33. ASSUME NEW w \in Threads, CheckAllDone(w) PROVE StateInv'
    BY <1>33 DEF CheckAllDone, Goto
<1>34. ASSUME NEW w \in Threads, SetAllDone(w) PROVE StateInv'
    BY <1>34 DEF SetAllDone, Goto
<1>35. ASSUME NEW w \in Threads, SetAnyDone(w) PROVE StateInv'
    BY <1>35 DEF SetAnyDone, Goto
<1>36. ASSUME NEW w \in Threads, Exit(w) PROVE StateInv'
    BY <1>36 DEF Exit, Goto
<1>37. CASE UNCHANGED vars
    BY <1>37 DEF vars
<1>38. QED
    BY <1>1, <1>2, <1>3, <1>4, <1>5, <1>6, <1>7, <1>8, <1>9, <1>10, <1>11,
       <1>12, <1>13, <1>14, <1>15, <1>16, <1>17, <1>18, <1>19, <1>20, <1>21,
       <1>22, <1>23, <1>24, <1>25, <1>26, <1>27, <1>28, <1>29, <1>30, <1>31,
       <1>32, <1>33, <1>34, <1>35, <1>36, <1>37 DEF Next, ClientCall,
       ClientStep, Worker

(* A job put is counted once, when it is FINISHED. *)
LEMMA CountStep ==
    ASSUME IInv, [Next]_vars
    PROVE  CountInv'
<1> USE DEF IInv, TypeOK, CountInv, CountExact, poolVars, jobVars, workerVars, clientVars, history
<1>1. ASSUME NEW j \in Jobs, NEW c \in {"add", "addnb"}, AddJobs(j, c) PROVE CountInv'
    BY <1>1 DEF AddJobs, Enter
<1>2. CASE FillQueue
    BY <1>2 DEF FillQueue, Enter
<1>3. CASE CopyJob
    BY <1>3 DEF CopyJob
<1>4. CASE Put
  <2>1. unfinished' = Cardinality(put' \ counted')
    BY <1>4, CountPut DEF Put, ClientInv
  <2>2. counted' \subseteq put'
    BY <1>4 DEF Put
  <2>3. \A w \in Threads : cur'[w] = cur[w] /\ wpc'[w] = wpc[w] /\ seen'[w] = seen[w]
    BY <1>4 DEF Put
  <2>4. QED
    BY <1>4, <2>1, <2>2, <2>3 DEF Put
<1>5. CASE PutFull
    BY <1>5 DEF PutFull, Leave
<1>6. CASE AttachDone
    BY <1>6 DEF AttachDone
<1>7. CASE AttachAny
    BY <1>7 DEF AttachAny, Leave
<1>8. CASE Start
    BY <1>8 DEF Start, Enter
<1>9. CASE SizePool
    BY <1>9 DEF SizePool
<1>10. CASE ClearAllDone
    BY <1>10 DEF ClearAllDone
<1>11. CASE Spawn
    BY <1>11 DEF Spawn
<1>12. CASE Spawned
    BY <1>12 DEF Spawned, Leave
<1>13. ASSUME NEW c \in {"join", "joinT"}, Join(c) PROVE CountInv'
    BY <1>13 DEF Join, Enter
<1>14. CASE QueueJoined
    BY <1>14 DEF QueueJoined
<1>15. CASE JoinTimeout
    BY <1>15 DEF JoinTimeout, Leave
<1>16. CASE StopWorker
    BY <1>16 DEF StopWorker
<1>17. CASE StoppedWorkers
    BY <1>17 DEF StoppedWorkers
<1>18. CASE JoinThread
    BY <1>18 DEF JoinThread
<1>19. CASE JoinReturn
    BY <1>19 DEF JoinReturn, Leave
<1>20. ASSUME NEW c \in {"waitAll", "waitAllT", "waitAny", "waitAnyT"}, Wait(c) PROVE CountInv'
    BY <1>20 DEF Wait, Enter
<1>21. CASE WaitReturn
    BY <1>21 DEF WaitReturn, Leave
<1>22. ASSUME NEW w \in Threads, Boot(w) PROVE CountInv'
    BY <1>22 DEF Boot, Goto
<1>23. ASSUME NEW w \in Threads, CheckState(w) PROVE CountInv'
    BY <1>23 DEF CheckState, Goto
<1>24. ASSUME NEW w \in Threads, Get(w) PROVE CountInv'
    BY <1>24, TailFacts DEF Get, Goto, HolderInv, Held, StateInv
<1>25. ASSUME NEW w \in Threads, GetEmpty(w) PROVE CountInv'
    BY <1>25 DEF GetEmpty, Goto
<1>26. ASSUME NEW w \in Threads, Begin(w) PROVE CountInv'
    BY <1>26 DEF Begin, Goto, HolderInv, StateInv, Held, OneHolder
<1>27. ASSUME NEW w \in Threads, Target(w) PROVE CountInv'
    BY <1>27 DEF Target, Goto
<1>28. ASSUME NEW w \in Threads, Finish(w) PROVE CountInv'
    BY <1>28 DEF Finish, Goto, HolderInv, StateInv, Held, OneHolder
<1>29. ASSUME NEW w \in Threads, NEW h \in Handlers, Invoke(w, h) PROVE CountInv'
    BY <1>29 DEF Invoke, Goto, Handlers
<1>30. ASSUME NEW w \in Threads, InvokeError(w) PROVE CountInv'
    BY <1>30 DEF InvokeError, Goto
<1>31. ASSUME NEW w \in Threads, InvokeEnd(w) PROVE CountInv'
    BY <1>31 DEF InvokeEnd, Goto
<1>32. ASSUME NEW w \in Threads, TaskDone(w) PROVE CountInv'
  <2>1. cur[w] \in put \ counted /\ jobState[cur[w]] = "FINISHED"
    BY <1>32 DEF TaskDone, Goto, HolderInv, Held, StateInv
  <2>2. unfinished' = Cardinality(put' \ counted')
    BY <1>32, <2>1, CountDone DEF TaskDone
  <2>3. \A v \in Threads : v # w /\ cur[v] # NoJob => cur[v] # cur[w]
    BY <2>1 DEF HolderInv, OneHolder
  <2>4. \A v \in Threads :
          /\ wpc'[v] \in {"invoke", "any"} /\ "done" \notin seen'[v] => cur'[v] \notin counted'
          /\ wpc'[v] = "done" => cur'[v] \notin counted'
          /\ wpc'[v] \in {"done", "check", "set"} => "done" \in seen'[v]
    BY <1>32, <2>3 DEF TaskDone, Goto, HolderInv, Held
  <2>5. QED
    BY <1>32, <2>1, <2>2, <2>4 DEF TaskDone
<1>33. ASSUME NEW w \in Threads, CheckAllDone(w) PROVE CountInv'
    BY <1>33 DEF CheckAllDone, Goto
<1>34. ASSUME NEW w \in Threads, SetAllDone(w) PROVE CountInv'
    BY <1>34 DEF SetAllDone, Goto
<1>35. ASSUME NEW w \in Threads, SetAnyDone(w) PROVE CountInv'
    BY <1>35 DEF SetAnyDone, Goto
<1>36. ASSUME NEW w \in Threads, Exit(w) PROVE CountInv'
    BY <1>36 DEF Exit, Goto
<1>37. CASE UNCHANGED vars
    BY <1>37 DEF vars
<1>38. QED
    BY <1>1, <1>2, <1>3, <1>4, <1>5, <1>6, <1>7, <1>8, <1>9, <1>10, <1>11,
       <1>12, <1>13, <1>14, <1>15, <1>16, <1>17, <1>18, <1>19, <1>20, <1>21,
       <1>22, <1>23, <1>24, <1>25, <1>26, <1>27, <1>28, <1>29, <1>30, <1>31,
       <1>32, <1>33, <1>34, <1>35, <1>36, <1>37 DEF Next, ClientCall,
       ClientStep, Worker

(* Once join() saw no unfinished task, none appears. *)
LEMMA JoinStep ==
    ASSUME IInv, [Next]_vars
    PROVE  JoinInv'
<1> USE DEF IInv, TypeOK, ClientInv, JoinInv, poolVars, jobVars, workerVars, clientVars, history
<1>1. ASSUME NEW j \in Jobs, NEW c \in {"add", "addnb"}, AddJobs(j, c) PROVE JoinInv'
    BY <1>1 DEF AddJobs, Enter
<1>2. CASE FillQueue
    BY <1>2 DEF FillQueue, Enter
<1>3. CASE CopyJob
    BY <1>3 DEF CopyJob
<1>4. CASE Put
    BY <1>4 DEF Put
<1>5. CASE PutFull
    BY <1>5 DEF PutFull, Leave
<1>6. CASE AttachDone
    BY <1>6 DEF AttachDone
<1>7. CASE AttachAny
    BY <1>7 DEF AttachAny, Leave
<1>8. CASE Start
    BY <1>8 DEF Start, Enter
<1>9. CASE SizePool
    BY <1>9 DEF SizePool
<1>10. CASE ClearAllDone
    BY <1>10 DEF ClearAllDone
<1>11. CASE Spawn
    BY <1>11 DEF Spawn
<1>12. CASE Spawned
    BY <1>12 DEF Spawned, Leave
<1>13. ASSUME NEW c \in {"join", "joinT"}, Join(c) PROVE JoinInv'
    BY <1>13 DEF Join, Enter
<1>14. CASE QueueJoined
  <2>1. put \subseteq counted
    BY <1>14, SubsetFinite, FS_EmptySet DEF QueueJoined, CountInv, CountExact
  <2>2. QED
    BY <1>14, <2>1 DEF QueueJoined
<1>15. CASE JoinTimeout
    BY <1>15 DEF JoinTimeout, Leave
<1>16. CASE StopWorker
    BY <1>16 DEF StopWorker
<1>17. CASE StoppedWorkers
    BY <1>17 DEF StoppedWorkers, Threads
<1>18. CASE JoinThread
    BY <1>18, PoolAssumption DEF JoinThread, Threads
<1>19. CASE JoinReturn
    BY <1>19, PoolAssumption DEF JoinReturn, Leave, Threads, HolderInv
<1>20. ASSUME NEW c \in {"waitAll", "waitAllT", "waitAny", "waitAnyT"}, Wait(c) PROVE JoinInv'
    BY <1>20 DEF Wait, Enter
<1>21. CASE WaitReturn
    BY <1>21 DEF WaitReturn, Leave
<1>22. ASSUME NEW w \in Threads, Boot(w) PROVE JoinInv'
    BY <1>22 DEF Boot, Goto
<1>23. ASSUME NEW w \in Threads, CheckState(w) PROVE JoinInv'
    BY <1>23 DEF CheckState, Goto
<1>24. ASSUME NEW w \in Threads, Get(w) PROVE JoinInv'
    BY <1>24 DEF Get, Goto
<1>25. ASSUME NEW w \in Threads, GetEmpty(w) PROVE JoinInv'
    BY <1>25 DEF GetEmpty, Goto
<1>26. ASSUME NEW w \in Threads, Begin(w) PROVE JoinInv'
    BY <1>26 DEF Begin, Goto
<1>27. ASSUME NEW w \in Threads, Target(w) PROVE JoinInv'
    BY <1>27 DEF Target, Goto
<1>28. ASSUME NEW w \in Threads, Finish(w) PROVE JoinInv'
    BY <1>28 DEF Finish, Goto
<1>29. ASSUME NEW w \in Threads, NEW h \in Handlers, Invoke(w, h) PROVE JoinInv'
    BY <1>29 DEF Invoke, Goto
<1>30. ASSUME NEW w \in Threads, InvokeError(w) PROVE JoinInv'
    BY <1>30 DEF InvokeError, Goto
<1>31. ASSUME NEW w \in Threads, InvokeEnd(w) PROVE JoinInv'
    BY <1>31 DEF InvokeEnd, Goto
<1>32. ASSUME NEW w \in Threads, TaskDone(w) PROVE JoinInv'
    BY <1>32 DEF TaskDone, Goto
<1>33. ASSUME NEW w \in Threads, CheckAllDone(w) PROVE JoinInv'
    BY <1>33 DEF CheckAllDone, Goto
<1>34. ASSUME NEW w \in Threads, SetAllDone(w) PROVE JoinInv'
    BY <1>34 DEF SetAllDone, Goto
<1>35. ASSUME NEW w \in Threads, SetAnyDone(w) PROVE JoinInv'
    BY <1>35 DEF SetAnyDone, Goto
<1>36. ASSUME NEW w \in Threads, Exit(w) PROVE JoinInv'
    BY <1>36 DEF Exit, Goto
<1>37. CASE UNCHANGED vars
    BY <1>37 DEF vars
<1>38. QED
    BY <1>1, <1>2, <1>3, <1>4, <1>5, <1>6, <1>7, <1>8, <1>9, <1>10, <1>11,
       <1>12, <1>13, <1>14, <1>15, <1>16, <1>17, <1>18, <1>19, <1>20, <1>21,
       <1>22, <1>23, <1>24, <1>25, <1>26, <1>27, <1>28, <1>29, <1>30, <1>31,
       <1>32, <1>33, <1>34, <1>35, <1>36, <1>37 DEF Next, ClientCall,
       ClientStep, Worker

(* all_done waits for every job put before start(). *)
LEMMA AllDoneStep ==
    ASSUME IInv, [Next]_vars
    PROVE  AllDoneInv'
<1> USE DEF IInv, TypeOK, AllDoneInv, poolVars, jobVars, workerVars, clientVars, history
<1>1. ASSUME NEW j \in Jobs, NEW c \in {"add", "addnb"}, AddJobs(j, c) PROVE AllDoneInv'
    BY <1>1 DEF AddJobs, Enter
<1>2. CASE FillQueue
    BY <1>2 DEF FillQueue, Enter
<1>3. CASE CopyJob
    BY <1>3 DEF CopyJob
<1>4. CASE Put
  <2>1. ~LateAdds => starts = 0 /\ ~allDone
    BY <1>4 DEF Put, ClientInv
  <2>2. ~LateAdds => \A w \in Threads : wpc[w] = "unborn"
    BY <1>4, <2>1 DEF Put, ClientInv, HolderInv, Threads
  <2>3. QED
    BY <1>4, <2>1, <2>2 DEF Put
<1>5. CASE PutFull
    BY <1>5 DEF PutFull, Leave
<1>6. CASE AttachDone
    BY <1>6 DEF AttachDone
<1>7. CASE AttachAny
    BY <1>7 DEF AttachAny, Leave
<1>8. CASE Start
    BY <1>8 DEF Start, Enter
<1>9. CASE SizePool
    BY <1>9 DEF SizePool
<1>10. CASE ClearAllDone
    BY <1>10 DEF ClearAllDone
<1>11. CASE Spawn
    BY <1>11 DEF Spawn
<1>12. CASE Spawned
    BY <1>12 DEF Spawned, Leave
<1>13. ASSUME NEW c \in {"join", "joinT"}, Join(c) PROVE AllDoneInv'
    BY <1>13 DEF Join, Enter
<1>14. CASE QueueJoined
    BY <1>14 DEF QueueJoined
<1>15. CASE JoinTimeout
    BY <1>15 DEF JoinTimeout, Leave
<1>16. CASE StopWorker
    BY <1>16 DEF StopWorker
<1>17. CASE StoppedWorkers
    BY <1>17 DEF StoppedWorkers
<1>18. CASE JoinThread
    BY <1>18 DEF JoinThread
<1>19. CASE JoinReturn
    BY <1>19 DEF JoinReturn, Leave
<1>20. ASSUME NEW c \in {"waitAll", "waitAllT", "waitAny", "waitAnyT"}, Wait(c) PROVE AllDoneInv'
    BY <1>20 DEF Wait, Enter
<1>21. CASE WaitReturn
    BY <1>21 DEF WaitReturn, Leave
<1>22. ASSUME NEW w \in Threads, Boot(w) PROVE AllDoneInv'
    BY <1>22 DEF Boot, Goto
<1>23. ASSUME NEW w \in Threads, CheckState(w) PROVE AllDoneInv'
    BY <1>23 DEF CheckState, Goto
<1>24. ASSUME NEW w \in Threads, Get(w) PROVE AllDoneInv'
    BY <1>24 DEF Get, Goto
<1>25. ASSUME NEW w \in Threads, GetEmpty(w) PROVE AllDoneInv'
    BY <1>25 DEF GetEmpty, Goto
<1>26. ASSUME NEW w \in Threads, Begin(w) PROVE AllDoneInv'
    BY <1>26 DEF Begin, Goto
<1>27. ASSUME NEW w \in Threads, Target(w) PROVE AllDoneInv'
    BY <1>27 DEF Target, Goto
<1>28. ASSUME NEW w \in Threads, Finish(w) PROVE AllDoneInv'
    BY <1>28 DEF Finish, Goto
<1>29. ASSUME NEW w \in Threads, NEW h \in Handlers, Invoke(w, h) PROVE AllDoneInv'
    BY <1>29 DEF Invoke, Goto, Handlers
<1>30. ASSUME NEW w \in Threads, InvokeError(w) PROVE AllDoneInv'
    BY <1>30 DEF InvokeError, Goto
<1>31. ASSUME NEW w \in Threads, InvokeEnd(w) PROVE AllDoneInv'
    BY <1>31 DEF InvokeEnd, Goto
<1>32. ASSUME NEW w \in Threads, TaskDone(w) PROVE AllDoneInv'
    BY <1>32 DEF TaskDone, Goto
<1>33. ASSUME NEW w \in Threads, CheckAllDone(w) PROVE AllDoneInv'
  <2>1. unfinished = 0 => put \subseteq counted
    BY <1>33, SubsetFinite, FS_EmptySet DEF CountInv, CountExact
  <2>2. QED
    BY <1>33, <2>1 DEF CheckAllDone, Goto
<1>34. ASSUME NEW w \in Threads, SetAllDone(w) PROVE AllDoneInv'
    BY <1>34 DEF SetAllDone, Goto
<1>35. ASSUME NEW w \in Threads, SetAnyDone(w) PROVE AllDoneInv'
    BY <1>35 DEF SetAnyDone, Goto
<1>36. ASSUME NEW w \in Threads, Exit(w) PROVE AllDoneInv'
    BY <1>36 DEF Exit, Goto
<1>37. CASE UNCHANGED vars
    BY <1>37 DEF vars
<1>38. QED
    BY <1>1, <1>2, <1>3, <1>4, <1>5, <1>6, <1>7, <1>8, <1>9, <1>10, <1>11,
       <1>12, <1>13, <1>14, <1>15, <1>16, <1>17, <1>18, <1>19, <1>20, <1>21,
       <1>22, <1>23, <1>24, <1>25, <1>26, <1>27, <1>28, <1>29, <1>30, <1>31,
       <1>32, <1>33, <1>34, <1>35, <1>36, <1>37 DEF Next, ClientCall,
       ClientStep, Worker

(* Nobody attaches handlers while worker threads exist. *)
LEMMA NoThreadsYet ==
    ASSUME IInv, ~LateAdds, main \in {"put", "fill", "attach1", "attach2"}
    PROVE  \A w \in Threads : wpc[w] = "unborn" /\ cur[w] = NoJob
<1>1. nthreads = 0
  BY DEF IInv, ClientInv
<1>2. \A w \in Threads : w > 0
  BY DEF Threads
<1>3. QED
  BY <1>1, <1>2 DEF IInv, HolderInv, Held

(* A pass over the handlers of a job counts it, if they were attached      *)
(* before start().                                                         *)
LEMMA PassStep ==
    ASSUME IInv, [Next]_vars
    PROVE  PassInv'
<1> SUFFICES ASSUME ~LateAdds PROVE PassInv'
  BY DEF PassInv
<1> USE DEF Attached, NoLostCompletion, poolVars, jobVars, workerVars, clientVars, history
<1>a. PassInv
  BY DEF IInv
<1>b. /\ jobState \in [Jobs -> {"INITED", "RUNNING", "FINISHED"}]
      /\ handlers \in [Events -> SUBSET Handlers]
      /\ wpc \in [Threads -> WorkerPC] /\ cur \in [Threads -> Jobs \cup {NoJob}]
      /\ seen \in [Threads -> SUBSET Handlers] /\ size \in [Threads -> 0..2]
      /\ put \subseteq Jobs /\ counted \subseteq Jobs /\ queue \in Seq(Jobs)
  BY DEF IInv, TypeOK
<1>c. ASSUME NEW w \in Threads, wpc[w] \in Held
      PROVE  cur[w] \in put /\ cur[w] \in Jobs /\ cur[w] # NoJob
  BY <1>b, <1>c DEF IInv, HolderInv
<1>d. \A v, w \in Threads : cur[v] = cur[w] /\ cur[v] # NoJob => v = w
  BY DEF IInv, HolderInv, OneHolder
<1>e. EventOf \in [Jobs -> Events] /\ NoJob \notin Jobs
  BY JobsAssumption
<1>1. ASSUME NEW j \in Jobs, NEW c \in {"add", "addnb"}, AddJobs(j, c) PROVE PassInv'
  BY <1>a, <1>1 DEF PassInv, AddJobs, Enter
<1>2. CASE FillQueue
  BY <1>a, <1>2 DEF PassInv, FillQueue, Enter
<1>3. CASE CopyJob
  BY <1>a, <1>3 DEF PassInv, CopyJob
<1>4. CASE Put
  <2>1. /\ main' = "attach1" /\ put' = put \cup {arg} /\ main = "put"
        /\ UNCHANGED <<arg, handlers, cur, wpc, seen, size, jobState, counted>>
    BY <1>4 DEF Put
  <2>2. arg \in Jobs /\ jobState[arg] = "INITED"
    BY <2>1 DEF IInv, ClientInv, StateInv
  <2>3. QED
    BY <1>a, <2>1, <2>2 DEF PassInv
<1>5. CASE PutFull
  BY <1>a, <1>5 DEF PassInv, PutFull, Leave
<1>6. CASE AttachDone
  <2>1. /\ main = "attach1" /\ main' = "attach2"
        /\ handlers' = [handlers EXCEPT ![EventOf[arg]] = @ \cup {"done"}]
        /\ UNCHANGED <<put, arg, cur, wpc, seen, size, jobState, counted>>
    BY <1>6 DEF AttachDone
  <2>2. arg \in Jobs /\ EventOf[arg] \in Events
    BY <1>e, <2>1 DEF IInv, ClientInv
  <2>3. \A w \in Threads : wpc[w] = "unborn" /\ cur[w] = NoJob
    BY <2>1, NoThreadsYet
  <2>4. /\ "done" \in handlers'[EventOf[arg]]
        /\ \A e \in Events : handlers[e] \subseteq handlers'[e]
    BY <1>b, <2>1, <2>2
  <2>5. \A j \in put : arg # j => "done" \in handlers'[EventOf[j]]
    BY <1>a, <1>b, <1>e, <2>1, <2>4 DEF PassInv
  <2>6. QED
    BY <1>a, <2>1, <2>3, <2>4, <2>5 DEF PassInv
<1>7. CASE AttachAny
  <2>1. /\ main = "attach2" /\ main' \notin {"attach1", "attach2"}
        /\ handlers' = [handlers EXCEPT ![EventOf[arg]] = @ \cup {"any"}]
        /\ UNCHANGED <<put, cur, wpc, seen, size, jobState, counted>>
    BY <1>7 DEF AttachAny, Leave
  <2>2. arg \in Jobs /\ EventOf[arg] \in Events
    BY <1>e, <2>1 DEF IInv, ClientInv
  <2>3. \A w \in Threads : wpc[w] = "unborn" /\ cur[w] = NoJob
    BY <2>1, NoThreadsYet
  <2>4. \A e \in Events : handlers[e] \subseteq handlers'[e]
    BY <1>b, <2>1, <2>2
  <2>5. \A j \in put : "done" \in handlers[EventOf[j]]
    BY <1>a, <2>1 DEF PassInv
  <2>6. \A j \in put : "done" \in handlers'[EventOf[j]]
    BY <1>b, <1>e, <2>4, <2>5
  <2>7. QED
    BY <1>a, <2>1, <2>3, <2>6 DEF PassInv
<1>8. CASE Start
  BY <1>a, <1>8 DEF PassInv, Start, Enter
<1>9. CASE SizePool
  BY <1>a, <1>9 DEF PassInv, SizePool
<1>10. CASE ClearAllDone
  BY <1>a, <1>10 DEF PassInv, ClearAllDone
<1>11. CASE Spawn
  <2>1. UNCHANGED <<main, arg, put, handlers, cur, seen, size, jobState, counted>>
    BY <1>11 DEF Spawn
  <2>2. \A w \in Threads : wpc'[w] = wpc[w] \/ wpc'[w] = "boot"
    BY <1>b, <1>11 DEF Spawn
  <2>3. QED
    BY <1>a, <2>1, <2>2 DEF PassInv
<1>12. CASE Spawned
  BY <1>a, <1>12 DEF PassInv, Spawned, Leave
<1>13. ASSUME NEW c \in {"join", "joinT"}, Join(c) PROVE PassInv'
  BY <1>a, <1>13 DEF PassInv, Join, Enter
<1>14. CASE QueueJoined
  BY <1>a, <1>14 DEF PassInv, QueueJoined
<1>15. CASE JoinTimeout
  BY <1>a, <1>15 DEF PassInv, JoinTimeout, Leave
<1>16. CASE StopWorker
  BY <1>a, <1>16 DEF PassInv, StopWorker
<1>17. CASE StoppedWorkers
  BY <1>a, <1>17 DEF PassInv, StoppedWorkers
<1>18. CASE JoinThread
  BY <1>a, <1>18 DEF PassInv, JoinThread
<1>19. CASE JoinReturn
  BY <1>a, <1>19 DEF PassInv, JoinReturn, Leave
<1>20. ASSUME NEW c \in {"waitAll", "waitAllT", "waitAny", "waitAnyT"}, Wait(c)
       PROVE  PassInv'
  BY <1>a, <1>20 DEF PassInv, Wait, Enter
<1>21. CASE WaitReturn
  BY <1>a, <1>21 DEF PassInv, WaitReturn, Leave
<1>22. ASSUME NEW w \in Threads, Boot(w) PROVE PassInv'
  BY <1>a, <1>b, <1>22 DEF PassInv, Boot, Goto
<1>23. ASSUME NEW w \in Threads, CheckState(w) PROVE PassInv'
  BY <1>a, <1>b, <1>23 DEF PassInv, CheckState, Goto
<1>24. ASSUME NEW w \in Threads, Get(w) PROVE PassInv'
  <2>1. /\ wpc[w] = "get" /\ wpc'[w] \in {"exit", "begin"}
        /\ \A v \in Threads \ {w} : wpc'[v] = wpc[v] /\ cur'[v] = cur[v]
        /\ UNCHANGED <<main, arg, put, handlers, seen, size, jobState, counted>>
    BY <1>b, <1>24 DEF Get, Goto
  <2>2. cur[w] = NoJob
    BY <2>1, <1>b DEF IInv, HolderInv, Held
  <2>3. \A j \in put : (\A v \in Threads : cur'[v] # j) => \A v \in Threads : cur[v] # j
    BY <1>e, <1>b, <2>1, <2>2
  <2>4. QED
    BY <1>a, <2>1, <2>3 DEF PassInv
<1>25. ASSUME NEW w \in Threads, GetEmpty(w) PROVE PassInv'
  BY <1>a, <1>b, <1>25 DEF PassInv, GetEmpty, Goto
<1>26. ASSUME NEW w \in Threads, Begin(w) PROVE PassInv'
  <2>1. /\ wpc[w] = "begin" /\ wpc' = [wpc EXCEPT ![w] = "run"]
        /\ jobState' = [jobState EXCEPT ![cur[w]] = "RUNNING"]
        /\ UNCHANGED <<main, arg, put, handlers, cur, seen, size, counted>>
    BY <1>26 DEF Begin, Goto
  <2>2. \A j \in put : jobState'[j] = "FINISHED" => jobState[j] = "FINISHED"
    BY <1>b, <2>1
  <2>3. QED
    BY <1>a, <1>b, <2>1, <2>2 DEF PassInv
<1>27. ASSUME NEW w \in Threads, Target(w) PROVE PassInv'
  BY <1>a, <1>b, <1>27 DEF PassInv, Target, Goto
<1>28. ASSUME NEW w \in Threads, Finish(w) PROVE PassInv'
  <2>1. /\ wpc[w] = "finish" /\ wpc' = [wpc EXCEPT ![w] = "invoke"]
        /\ jobState' = [jobState EXCEPT ![cur[w]] = "FINISHED"]
        /\ seen' = [seen EXCEPT ![w] = {}]
        /\ size' = [size EXCEPT ![w] = Cardinality(handlers[EventOf[cur[w]]])]
        /\ UNCHANGED <<main, arg, put, handlers, cur, counted>>
    BY <1>28 DEF Finish, Goto
  <2>2. \A j \in put : j # cur[w] => jobState'[j] = jobState[j]
    BY <1>b, <2>1
  <2>3. /\ size'[w] = Cardinality(handlers[EventOf[cur[w]]])
        /\ seen'[w] = {} /\ wpc'[w] = "invoke"
        /\ \A v \in Threads \ {w} : size'[v] = size[v] /\ seen'[v] = seen[v]
                                    /\ wpc'[v] = wpc[v]
    BY <1>b, <2>1
  <2>4. QED
    BY <1>a, <2>1, <2>2, <2>3 DEF PassInv
<1>29. ASSUME NEW w \in Threads, NEW h \in Handlers, Invoke(w, h) PROVE PassInv'
  <2>1. /\ wpc[w] = "invoke" /\ wpc'[w] = h /\ h \in {"done", "any"}
        /\ seen'[w] = seen[w] \cup {h}
        /\ \A v \in Threads \ {w} : wpc'[v] = wpc[v] /\ seen'[v] = seen[v]
        /\ UNCHANGED <<main, arg, put, handlers, cur, size, jobState, counted>>
    BY <1>b, <1>29 DEF Invoke, Goto, Handlers
  <2>2. QED
    BY <1>a, <2>1 DEF PassInv
<1>30. ASSUME NEW w \in Threads, InvokeError(w) PROVE PassInv'
  BY <1>a, <1>30 DEF PassInv, InvokeError, Goto
<1>31. ASSUME NEW w \in Threads, InvokeEnd(w) PROVE PassInv'
  <2>1. /\ wpc[w] = "invoke" /\ wpc'[w] \in {"dead", "loop"}
        /\ handlers[EventOf[cur[w]]] \subseteq seen[w]
        /\ cur'[w] = NoJob
        /\ \A v \in Threads \ {w} : wpc'[v] = wpc[v] /\ cur'[v] = cur[v]
        /\ UNCHANGED <<main, arg, put, handlers, seen, size, jobState, counted>>
    BY <1>b, <1>31 DEF InvokeEnd, Goto
  <2>2. main \notin {"attach1", "attach2"}
    BY <2>1, NoThreadsYet
  <2>3. cur[w] \in put
    BY <1>c, <2>1 DEF Held
  <2>4. cur[w] \in counted
    BY <1>a, <2>1, <2>2, <2>3 DEF PassInv
  <2>5. \A j \in put : (\A v \in Threads : cur'[v] # j) =>
            j = cur[w] \/ \A v \in Threads : cur[v] # j
    BY <2>1
  <2>6. QED
    BY <1>a, <2>1, <2>4, <2>5 DEF PassInv
<1>32. ASSUME NEW w \in Threads, TaskDone(w) PROVE PassInv'
  <2>1. /\ wpc[w] = "done" /\ wpc'[w] = "check"
        /\ counted' = counted \cup {cur[w]}
        /\ \A v \in Threads \ {w} : wpc'[v] = wpc[v]
        /\ UNCHANGED <<main, arg, put, handlers, cur, seen, size, jobState>>
    BY <1>b, <1>32 DEF TaskDone, Goto
  <2>2. QED
    BY <1>a, <2>1 DEF PassInv
<1>33. ASSUME NEW w \in Threads, CheckAllDone(w) PROVE PassInv'
  <2>1. /\ wpc[w] = "check" /\ wpc'[w] \in {"set", "invoke"}
        /\ \A v \in Threads \ {w} : wpc'[v] = wpc[v]
        /\ UNCHANGED <<main, arg, put, handlers, cur, seen, size, jobState, counted>>
    BY <1>b, <1>33 DEF CheckAllDone, Goto
  <2>2. QED
    BY <1>a, <2>1 DEF PassInv
<1>34. ASSUME NEW w \in Threads, SetAllDone(w) PROVE PassInv'
  <2>1. /\ wpc[w] = "set" /\ wpc'[w] = "invoke"
        /\ \A v \in Threads \ {w} : wpc'[v] = wpc[v]
        /\ UNCHANGED <<main, arg, put, handlers, cur, seen, size, jobState, counted>>
    BY <1>b, <1>34 DEF SetAllDone, Goto
  <2>2. QED
    BY <1>a, <2>1 DEF PassInv
<1>35. ASSUME NEW w \in Threads, SetAnyDone(w) PROVE PassInv'
  <2>1. /\ wpc[w] = "any" /\ wpc'[w] = "invoke"
        /\ \A v \in Threads \ {w} : wpc'[v] = wpc[v]
        /\ UNCHANGED <<main, arg, put, handlers, cur, seen, size, jobState, counted>>
    BY <1>b, <1>35 DEF SetAnyDone, Goto
  <2>2. QED
    BY <1>a, <2>1 DEF PassInv
<1>36. ASSUME NEW w \in Threads, Exit(w) PROVE PassInv'
  BY <1>a, <1>b, <1>36 DEF PassInv, Exit, Goto
<1>37. CASE UNCHANGED vars
  BY <1>a, <1>37 DEF PassInv, vars
<1>38. QED
    BY <1>1, <1>2, <1>3, <1>4, <1>5, <1>6, <1>7, <1>8, <1>9, <1>10, <1>11,
       <1>12, <1>13, <1>14, <1>15, <1>16, <1>17, <1>18, <1>19, <1>20, <1>21,
       <1>22, <1>23, <1>24, <1>25, <1>26, <1>27, <1>28, <1>29, <1>30, <1>31,
       <1>32, <1>33, <1>34, <1>35, <1>36, <1>37 DEF Next, ClientCall,
       ClientStep, Worker

-----------------------------------------------------------------------------
(* The theorems.                                                           *)

(* Every behaviour of the pool satisfies the inductive invariant.          *)
THEOREM Invariance == Spec => []IInv
<1>1. Init => IInv
  BY InitIInv
<1>2. IInv /\ [Next]_vars => IInv'
  BY TypeStep, ClientStepInv, HolderStep, StateStep, CountStep, JoinStep, AllDoneStep,
     PassStep DEF IInv
<1>3. QED
  BY <1>1, <1>2, PTL DEF Spec

(* The pool's variables keep their types: unfinished_tasks never goes      *)
(* below zero, so task_done() never raises.                                *)
THEOREM TypeCorrect == Spec => []TypeOK
<1>1. IInv => TypeOK
  BY DEF IInv
<1>2. QED
  BY <1>1, Invariance, PTL

(* unfinished_tasks counts exactly the jobs put and not yet reported done. *)
THEOREM CountCorrect == Spec => []CountExact
<1>1. IInv => CountExact
  BY DEF IInv, CountInv
<1>2. QED
  BY <1>1, Invariance, PTL

(* When join() has returned every job put is FINISHED, the queue is empty  *)
(* and every worker thread has ended, whatever the client did before.      *)
THEOREM JoinCorrect == Spec => []JoinSound
<1>1. ASSUME IInv PROVE JoinSound
  <2> SUFFICES ASSUME ret = "join" PROVE JoinSound
    BY DEF JoinSound
  <2>1. put \subseteq counted /\ \A w \in Threads : wpc[w] \in {"unborn", "dead"}
    BY <1>1 DEF IInv, JoinInv
  <2>2. \A j \in put : jobState[j] = "FINISHED"
    BY <1>1, <2>1 DEF IInv, CountInv
  <2>3. \A i \in 1..Len(queue) : FALSE
    BY <1>1, <2>2 DEF IInv, HolderInv, StateInv
  <2>4. queue = <<>>
    <3>1. queue \in Seq(Jobs) /\ Len(queue) \in Nat
      BY <1>1, LenProperties DEF IInv, TypeOK
    <3>2. Len(queue) = 0
      BY <2>3, <3>1
    <3>3. QED
      BY <3>1, <3>2, EmptySeq
  <2>5. QED
    BY <2>1, <2>2, <2>4 DEF JoinSound
<1>2. QED
  BY <1>1, Invariance, PTL

(* For a client that adds its jobs before start(), all_done is set only    *)
(* when all of them are FINISHED.                                          *)
THEOREM AllDoneCorrect == ASSUME ~LateAdds PROVE Spec => []AllDoneSound
<1>1. IInv => AllDoneSound
  BY DEF IInv, AllDoneInv, CountInv, AllDoneSound
<1>2. QED
  BY <1>1, Invariance, PTL

(* For a client that adds its jobs before start(), a job that is FINISHED  *)
(* and that no worker holds any more has been counted: task_done() was     *)
(* called for it, also when its target ended the thread.                   *)
THEOREM CompletionCorrect == ASSUME ~LateAdds PROVE Spec => []NoLostCompletion
<1>1. IInv => NoLostCompletion
  BY DEF IInv, PassInv
<1>2. QED
  BY <1>1, Invariance, PTL

-----------------------------------------------------------------------------
(* Refinement.                                                             *)

(* What a worker or the client may do to the abstract state of one job.    *)
LEMMA PoolStutter ==
    ASSUME jobState' = jobState, put' = put, (ret' = "join") = (ret = "join")
    PROVE  UNCHANGED Abstract!poolVars
BY DEF Abstract!poolVars, poolState

(* A new call forgets that the last one was a join().                      *)
LEMMA PoolEnter ==
    ASSUME jobState' = jobState, put' = put, ret' = "none"
    PROVE  [Abstract!Next]_(Abstract!poolVars)
<1>1. poolState' = poolState
  BY DEF poolState
<1>2. CASE ret = "join"
  BY <1>1, <1>2 DEF Abstract!Next, Abstract!NextCall
<1>3. CASE ret # "join"
  BY <1>3, PoolStutter
<1>4. QED
  BY <1>2, <1>3

(* Every step of JobsSet is a step of JobPool or leaves it unchanged.        *)
LEMMA RefinementStep ==
    ASSUME IInv, [Next]_vars
    PROVE  [Abstract!Next]_(Abstract!poolVars)
<1> USE DEF poolVars, jobVars, workerVars, clientVars, history
<1>1. ASSUME NEW j \in Jobs, NEW c \in {"add", "addnb"}, AddJobs(j, c)
      PROVE  [Abstract!Next]_(Abstract!poolVars)
    BY <1>1, PoolEnter DEF AddJobs, Enter
<1>2. CASE FillQueue
    BY <1>2, PoolEnter DEF FillQueue, Enter
<1>3. CASE CopyJob
    BY <1>3, PoolStutter DEF CopyJob
<1>4. CASE Put
  <2>1. arg \in Jobs \ put /\ jobState[arg] = "INITED" /\ ret # "join"
    BY <1>4 DEF Put, IInv, ClientInv, StateInv
  <2>2. poolState[arg] = "new" /\ poolState' = [poolState EXCEPT ![arg] = "queued"]
    <3>1. /\ jobState' = jobState /\ put' = put \cup {arg}
          /\ jobState \in [Jobs -> {"INITED", "RUNNING", "FINISHED"}]
      BY <1>4 DEF Put, IInv, TypeOK
    <3>2. \A j \in Jobs : poolState'[j] = IF j = arg THEN "queued" ELSE poolState[j]
      BY <2>1, <3>1 DEF poolState
    <3>3. QED
      BY <2>1, <3>1, <3>2 DEF poolState
  <2>3. (ret' = "join") = (ret = "join")
    BY <1>4 DEF Put
  <2>4. Abstract!Submit(arg)
    BY <2>1, <2>2, <2>3 DEF Abstract!Submit
  <2>5. QED
    BY <2>1, <2>4 DEF Abstract!Next
<1>5. CASE PutFull
    BY <1>5, PoolStutter DEF PutFull, Leave, IInv, ClientInv
<1>6. CASE AttachDone
    BY <1>6, PoolStutter DEF AttachDone
<1>7. CASE AttachAny
    BY <1>7, PoolStutter DEF AttachAny, Leave, IInv, ClientInv
<1>8. CASE Start
    BY <1>8, PoolEnter DEF Start, Enter
<1>9. CASE SizePool
    BY <1>9, PoolStutter DEF SizePool
<1>10. CASE ClearAllDone
    BY <1>10, PoolStutter DEF ClearAllDone
<1>11. CASE Spawn
    BY <1>11, PoolStutter DEF Spawn
<1>12. CASE Spawned
    BY <1>12, PoolStutter DEF Spawned, Leave, IInv, ClientInv
<1>13. ASSUME NEW c \in {"join", "joinT"}, Join(c)
      PROVE  [Abstract!Next]_(Abstract!poolVars)
    BY <1>13, PoolEnter DEF Join, Enter
<1>14. CASE QueueJoined
    BY <1>14, PoolStutter DEF QueueJoined
<1>15. CASE JoinTimeout
    BY <1>15, PoolStutter DEF JoinTimeout, Leave, IInv, ClientInv
<1>16. CASE StopWorker
    BY <1>16, PoolStutter DEF StopWorker
<1>17. CASE StoppedWorkers
    BY <1>17, PoolStutter DEF StoppedWorkers
<1>18. CASE JoinThread
    BY <1>18, PoolStutter DEF JoinThread
<1>19. CASE JoinReturn
  <2>1. put \subseteq counted /\ ret # "join" /\ ret' = "join"
    BY <1>19 DEF JoinReturn, Leave, IInv, ClientInv, JoinInv
  <2>2. poolState' = poolState
    BY <1>19 DEF JoinReturn, poolState
  <2>3. \A j \in Jobs : poolState[j] \in {"new", "finished"}
    BY <2>1 DEF IInv, CountInv, StateInv, poolState
  <2>4. Abstract!Join
    BY <2>1, <2>2, <2>3 DEF Abstract!Join
  <2>5. QED
    BY <2>4 DEF Abstract!Next
<1>20. ASSUME NEW c \in {"waitAll", "waitAllT", "waitAny", "waitAnyT"}, Wait(c)
      PROVE  [Abstract!Next]_(Abstract!poolVars)
    BY <1>20, PoolEnter DEF Wait, Enter
<1>21. CASE WaitReturn
    BY <1>21, PoolStutter DEF WaitReturn, Leave, IInv, ClientInv
<1>22. ASSUME NEW w \in Threads, Boot(w)
      PROVE  [Abstract!Next]_(Abstract!poolVars)
    BY <1>22, PoolStutter DEF Boot
<1>23. ASSUME NEW w \in Threads, CheckState(w)
      PROVE  [Abstract!Next]_(Abstract!poolVars)
    BY <1>23, PoolStutter DEF CheckState
<1>24. ASSUME NEW w \in Threads, Get(w)
      PROVE  [Abstract!Next]_(Abstract!poolVars)
    BY <1>24, PoolStutter DEF Get
<1>25. ASSUME NEW w \in Threads, GetEmpty(w)
      PROVE  [Abstract!Next]_(Abstract!poolVars)
    BY <1>25, PoolStutter DEF GetEmpty
<1>26. ASSUME NEW w \in Threads, Begin(w)
      PROVE  [Abstract!Next]_(Abstract!poolVars)
  <2>1. cur[w] \in Jobs /\ cur[w] \in put /\ jobState[cur[w]] = "INITED" /\ ret # "join"
    BY <1>26 DEF Begin, Goto, IInv, TypeOK, HolderInv, Held, StateInv, JoinInv
  <2>2. poolState[cur[w]] = "queued" /\ poolState' = [poolState EXCEPT ![cur[w]] = "running"]
    BY <1>26, <2>1 DEF Begin, IInv, TypeOK, poolState
  <2>3. (ret' = "join") = (ret = "join")
    BY <1>26 DEF Begin
  <2>4. Abstract!Run(cur[w])
    BY <2>1, <2>2, <2>3 DEF Abstract!Run
  <2>5. QED
    BY <2>1, <2>4 DEF Abstract!Next
<1>27. ASSUME NEW w \in Threads, Target(w)
      PROVE  [Abstract!Next]_(Abstract!poolVars)
    BY <1>27, PoolStutter DEF Target
<1>28. ASSUME NEW w \in Threads, Finish(w)
      PROVE  [Abstract!Next]_(Abstract!poolVars)
  <2>1. cur[w] \in Jobs /\ jobState[cur[w]] = "RUNNING" /\ ret # "join"
    BY <1>28 DEF Finish, Goto, IInv, TypeOK, HolderInv, Held, StateInv, JoinInv
  <2>2. poolState[cur[w]] = "running" /\ poolState' = [poolState EXCEPT ![cur[w]] = "finished"]
    BY <1>28, <2>1 DEF Finish, IInv, TypeOK, poolState
  <2>3. (ret' = "join") = (ret = "join")
    BY <1>28 DEF Finish
  <2>4. Abstract!Finish(cur[w])
    BY <2>1, <2>2, <2>3 DEF Abstract!Finish
  <2>5. QED
    BY <2>1, <2>4 DEF Abstract!Next
<1>29. ASSUME NEW w \in Threads, NEW h \in Handlers, Invoke(w, h)
      PROVE  [Abstract!Next]_(Abstract!poolVars)
    BY <1>29, PoolStutter DEF Invoke
<1>30. ASSUME NEW w \in Threads, InvokeError(w)
      PROVE  [Abstract!Next]_(Abstract!poolVars)
    BY <1>30, PoolStutter DEF InvokeError
<1>31. ASSUME NEW w \in Threads, InvokeEnd(w)
      PROVE  [Abstract!Next]_(Abstract!poolVars)
    BY <1>31, PoolStutter DEF InvokeEnd
<1>32. ASSUME NEW w \in Threads, TaskDone(w)
      PROVE  [Abstract!Next]_(Abstract!poolVars)
    BY <1>32, PoolStutter DEF TaskDone
<1>33. ASSUME NEW w \in Threads, CheckAllDone(w)
      PROVE  [Abstract!Next]_(Abstract!poolVars)
    BY <1>33, PoolStutter DEF CheckAllDone
<1>34. ASSUME NEW w \in Threads, SetAllDone(w)
      PROVE  [Abstract!Next]_(Abstract!poolVars)
    BY <1>34, PoolStutter DEF SetAllDone
<1>35. ASSUME NEW w \in Threads, SetAnyDone(w)
      PROVE  [Abstract!Next]_(Abstract!poolVars)
    BY <1>35, PoolStutter DEF SetAnyDone
<1>36. ASSUME NEW w \in Threads, Exit(w)
      PROVE  [Abstract!Next]_(Abstract!poolVars)
    BY <1>36, PoolStutter DEF Exit
<1>37. CASE UNCHANGED vars
    BY <1>37, PoolStutter DEF vars
<1>38. QED
    BY <1>1, <1>2, <1>3, <1>4, <1>5, <1>6, <1>7, <1>8, <1>9, <1>10, <1>11,
       <1>12, <1>13, <1>14, <1>15, <1>16, <1>17, <1>18, <1>19, <1>20, <1>21,
       <1>22, <1>23, <1>24, <1>25, <1>26, <1>27, <1>28, <1>29, <1>30, <1>31,
       <1>32, <1>33, <1>34, <1>35, <1>36, <1>37 DEF Next, ClientCall,
       ClientStep, Worker

(* JobsSet implements JobPool: whatever the interleaving, a job is run at  *)
(* most once, and nothing runs after a join() until the client's next call. *)
THEOREM Refinement == Spec => ImplementsJobPool
<1>1. Init => Abstract!Init
  BY DEF Init, Abstract!Init, poolState
<1>2. IInv /\ [Next]_vars => [Abstract!Next]_(Abstract!poolVars)
  BY RefinementStep
<1>3. QED
  BY <1>1, <1>2, Invariance, PTL DEF Spec, ImplementsJobPool, Abstract!Spec

=============================================================================
