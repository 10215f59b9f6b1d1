--------------------------- MODULE RestOpsProofs ---------------------------
(***************************************************************************)
(* Proofs about RestOps for any threads, entities and operations: every    *)
(* modification carries its own Correlation-Id, and a verdict is true.     *)
(***************************************************************************)
EXTENDS RestOps, TLAPS

(* The invariant holds initially.                                          *)
LEMMA InitOpsInv == Init => OpsInv
<1> SUFFICES ASSUME Init PROVE OpsInv
  OBVIOUS
<1> USE OpsAssumption DEF Init
<1>1. TypeOK
  BY DEF TypeOK, Locations, Codes
<1>2. LockInv /\ JudgeInv
  BY DEF LockInv, JudgeInv, Inside
<1>3. CorrelationOwn /\ VerdictTrue
  BY DEF CorrelationOwn, VerdictTrue, Sent, Finished
<1>4. HeaderInv
  BY DEF HeaderInv
<1>5. QED
  BY <1>1, <1>2, <1>3, <1>4 DEF OpsInv

(* Removing a header adds none.                                            *)
LEMMA RemoveSubset == ASSUME NEW S, NEW x PROVE S \ {x} \subseteq S
  OBVIOUS

(* What the engine does when it executes a request stays in the collection. *)
LEMMA ExecutionsType ==
    ASSUME TypeOK, NEW o \in Modify, NEW i \in Ids, NEW e \in Executions(o, i)
    PROVE  /\ e[1] \in Done
           /\ e[2] \subseteq Ids /\ e[3] \subseteq Ids
<1> USE DEF TypeOK, Done
<1>1. CASE o = "create"
  <2>1. \/ e = <<201, exists \cup {i}, coming>>
        \/ e = <<202, exists, coming \cup {i}>>
    BY <1>1 DEF Executions
  <2>2. QED
    BY <2>1
<1>2. CASE o = "update"
  <2>1. e = <<200, exists, coming>>
    BY <1>2 DEF Executions
  <2>2. QED
    BY <2>1
<1>3. CASE o = "delete"
  <2>1. \E c \in {200, 204} : e = <<c, exists \ {i}, coming>>
    BY <1>3 DEF Executions
  <2>2. QED
    BY <2>1
<1>4. CASE o = "syncAction"
  <2>1. \E c \in {200, 202} : e = <<c, exists, coming>>
    BY <1>4 DEF Executions
  <2>2. QED
    BY <2>1
<1>5. QED
  BY <1>1, <1>2, <1>3, <1>4 DEF Modify

(* The answers of the engine: a code of success says that the request was  *)
(* executed; if it was executed, the code says so or is 500 (the external  *)
(* part of RestOps).                                                       *)
LEMMA AnswersCode ==
    ASSUME TypeOK, NEW o \in Modify \cup Read \cup {None},
           NEW i \in Ids \cup {None}, o # None, i # None,
           NEW a \in Answers(o, i)
    PROVE  /\ a[1] \in Done \cup {404, 409, 500}
           /\ a[2] \subseteq Ids /\ a[3] \subseteq Ids
           /\ a[4] \in BOOLEAN
           /\ a[1] \in Done => a[4]
           /\ a[4] => a[1] \in Done \cup {500}
<1> USE DEF Done
<1>1. CASE a \in Refusals
  <2>1. \E c \in {409, 500} : a = <<c, exists, coming, FALSE>>
    BY <1>1 DEF Refusals
  <2>2. QED
    BY <2>1 DEF TypeOK
<1>2. CASE a = <<404, exists, coming, FALSE>>
  BY <1>2 DEF TypeOK
<1>3. CASE a = <<200, exists, coming, TRUE>>
  BY <1>3 DEF TypeOK
<1>4. CASE o \in Modify /\ \E e \in Executions(o, i) :
            a = <<e[1], e[2], e[3], TRUE>> \/ a = <<500, e[2], e[3], TRUE>>
  <2>1. PICK e \in Executions(o, i) :
            a = <<e[1], e[2], e[3], TRUE>> \/ a = <<500, e[2], e[3], TRUE>>
    BY <1>4
  <2>2. /\ e[1] \in Done
        /\ e[2] \subseteq Ids /\ e[3] \subseteq Ids
    BY <1>4, ExecutionsType
  <2>3. CASE a = <<e[1], e[2], e[3], TRUE>>
    <3>1. a[1] = e[1] /\ a[2] = e[2] /\ a[3] = e[3] /\ a[4] = TRUE
      BY <2>3
    <3>2. QED
      BY <2>2, <3>1
  <2>4. CASE a = <<500, e[2], e[3], TRUE>>
    <3>1. a[1] = 500 /\ a[2] = e[2] /\ a[3] = e[3] /\ a[4] = TRUE
      BY <2>4
    <3>2. QED
      BY <2>2, <3>1
  <2>5. QED
    BY <2>1, <2>3, <2>4
<1>5. CASE a \notin Refusals
  <2>1. CASE o \in Read
    BY <1>3, <1>5, <2>1 DEF Answers
  <2>2. CASE o \in Modify
    <3>1. o \notin Read
      BY <2>2 DEF Modify, Read
    <3>2. \/ a = <<404, exists, coming, FALSE>>
          \/ \E e \in Executions(o, i) :
                a = <<e[1], e[2], e[3], TRUE>> \/ a = <<500, e[2], e[3], TRUE>>
      BY <1>5, <3>1 DEF Answers
    <3>3. QED
      BY <1>2, <1>4, <2>2, <3>2
  <2>3. QED
    BY <2>1, <2>2
<1>6. QED
  BY <1>1, <1>5

(* Where an operation goes when its request has ended.                     *)
LEMMA AfterPlace ==
    ASSUME NEW t \in Threads, NEW l, op[t] \in Modify \cup Read,
           AfterRequest(t, l)
    PROVE  \/ op[t] \in Modify /\ pc' = [pc EXCEPT ![t] = "uncorrelate"]
           \/ /\ op[t] \in Read /\ op[t] \notin Modify
              /\ \/ pc' = [pc EXCEPT ![t] = "pop"]
                 \/ pc' = [pc EXCEPT ![t] = l]
<1>1. CASE op[t] \in Modify
  <2>1. ~ Removes(t)
    BY <1>1 DEF Removes, Removing, Modify
  <2>2. QED
    BY <1>1, <2>1 DEF AfterRequest, Goto
<1>2. CASE op[t] \in Read
  <2>1. op[t] \notin Modify
    BY <1>2 DEF Modify, Read
  <2>2. QED
    BY <1>2, <2>1 DEF AfterRequest, Goto
<1>3. QED
  BY <1>1, <1>2


(* The variables keep their types. *)
LEMMA TypeStep ==
    ASSUME OpsInv, [Next]_vars
    PROVE  TypeOK'
<1> USE DEF OpsInv, TypeOK, Locations, Codes, Done, shared, server, call
<1>1. ASSUME NEW t \in Threads, NEW o \in Operations, NEW i \in Ids,
           NEW p \in BOOLEAN, NEW f \in BOOLEAN, Call(t, o, i, p, f) PROVE TypeOK'
    BY <1>1, OpsAssumption DEF Call, Goto
<1>2. ASSUME NEW i \in Ids, Appear(i) PROVE TypeOK'
    BY <1>2 DEF Appear
<1>3. ASSUME NEW t \in Threads, SetHeader(t) PROVE TypeOK'
    BY <1>3 DEF SetHeader, Goto, Header, Touches
<1>4. ASSUME NEW t \in Threads, EnterContext(t) PROVE TypeOK'
    BY <1>4 DEF EnterContext, Goto
<1>5. ASSUME NEW t \in Threads, SetCorrelationId(t) PROVE TypeOK'
    BY <1>5 DEF SetCorrelationId, CorrelationId, Goto
<1>6. ASSUME NEW t \in Threads, Send(t) PROVE TypeOK'
  <2>1. /\ op[t] \in Modify \cup Read /\ id[t] \in Ids
        /\ op[t] \in Modify \cup Read \cup {None} /\ id[t] \in Ids \cup {None}
        /\ op[t] # None /\ id[t] # None
    BY <1>6, OpsAssumption DEF Send, LockInv
  <2>2. \/ op[t] \in Modify /\ pc' = [pc EXCEPT ![t] = "uncorrelate"]
        \/ /\ op[t] \in Read /\ op[t] \notin Modify
           /\ \/ pc' = [pc EXCEPT ![t] = "pop"]
              \/ pc' = [pc EXCEPT ![t] = "judge"]
    BY <1>6, <2>1, AfterPlace DEF Send
  <2>3. PICK a \in Answers(op[t], id[t]) :
            /\ status' = [status EXCEPT ![t] = a[1]]
            /\ exists' = a[2]
            /\ coming' = a[3]
            /\ did' = [did EXCEPT ![t] = a[4] /\ op[t] \in Modify]
            /\ unsure' = [unsure EXCEPT ![t] = a[4] /\ a[1] = 500]
    BY <1>6 DEF Send
  <2>4. /\ a[1] \in Done \cup {404, 409, 500}
        /\ a[2] \subseteq Ids /\ a[3] \subseteq Ids
        /\ a[4] \in BOOLEAN
        /\ a[1] \in Done => a[4]
        /\ a[4] => a[1] \in Done \cup {500}
    BY <2>1, AnswersCode
  <2>5. CASE op[t] \in Modify
    BY <1>6, <2>3, <2>4, <2>2, <2>5 DEF Send, Record
  <2>6. CASE op[t] \notin Modify
    <3>1. sentWith' = [sentWith EXCEPT ![t] = "All-content" \in headers]
      BY <1>6, <2>6 DEF Send, Record
    <3>2. sentWith' \in [Threads -> BOOLEAN]
      BY <3>1
    <3>3. sentCorr' = sentCorr
      BY <1>6, <2>6 DEF Send, Record
    <3>4. pc' \in [Threads -> Locations]
      BY <2>2
    <3>5. did' \in [Threads -> BOOLEAN] /\ unsure' \in [Threads -> BOOLEAN]
      BY <2>3, <2>4
    <3>6. status' \in [Threads -> Codes]
      BY <2>3, <2>4
    <3>7. QED
      BY <1>6, <2>3, <2>4, <3>2, <3>3, <3>4, <3>5, <3>6 DEF Send
  <2>7. QED
    BY <2>5, <2>6
<1>7. ASSUME NEW t \in Threads, SendRaises(t) PROVE TypeOK'
  <2>1. /\ op[t] \in Modify \cup Read /\ id[t] \in Ids
        /\ op[t] \in Modify \cup Read \cup {None} /\ id[t] \in Ids \cup {None}
        /\ op[t] # None /\ id[t] # None
    BY <1>7, OpsAssumption DEF SendRaises, LockInv
  <2>2. \/ op[t] \in Modify /\ pc' = [pc EXCEPT ![t] = "uncorrelate"]
        \/ /\ op[t] \in Read /\ op[t] \notin Modify
           /\ \/ pc' = [pc EXCEPT ![t] = "pop"]
              \/ pc' = [pc EXCEPT ![t] = "idle"]
    BY <1>7, <2>1, AfterPlace DEF SendRaises
  <2>3. PICK a \in Answers(op[t], id[t]) : exists' = a[2] /\ coming' = a[3]
    BY <1>7 DEF SendRaises
  <2>4. a[2] \subseteq Ids /\ a[3] \subseteq Ids
    BY <2>1, AnswersCode
  <2>5. CASE op[t] \in Modify
    BY <1>7, <2>3, <2>4, <2>2, <2>5 DEF SendRaises, Record
  <2>6. CASE op[t] \notin Modify
    <3>1. sentWith' = [sentWith EXCEPT ![t] = "All-content" \in headers]
      BY <1>7, <2>6 DEF SendRaises, Record
    <3>2. sentWith' \in [Threads -> BOOLEAN]
      BY <3>1
    <3>3. sentCorr' = sentCorr
      BY <1>7, <2>6 DEF SendRaises, Record
    <3>4. pc' \in [Threads -> Locations]
      BY <2>2
    <3>5. result' \in [Threads -> {"none", "True", "False", "KeyError",
                                  "EntityNotFound", "raised", "unsent"}]
      BY <1>7 DEF SendRaises
    <3>6. QED
      BY <1>7, <2>3, <2>4, <3>2, <3>3, <3>4, <3>5 DEF SendRaises
  <2>7. QED
    BY <2>5, <2>6
<1>8. ASSUME NEW t \in Threads, NoLink(t) PROVE TypeOK'
  <2>1. /\ op[t] \in Modify \cup Read /\ id[t] \in Ids
        /\ op[t] \in Modify \cup Read \cup {None} /\ id[t] \in Ids \cup {None}
        /\ op[t] # None /\ id[t] # None
    BY <1>8, OpsAssumption DEF NoLink, LockInv
  <2>2. \/ op[t] \in Modify /\ pc' = [pc EXCEPT ![t] = "uncorrelate"]
        \/ /\ op[t] \in Read /\ op[t] \notin Modify
           /\ \/ pc' = [pc EXCEPT ![t] = "pop"]
              \/ pc' = [pc EXCEPT ![t] = "idle"]
    BY <1>8, <2>1, AfterPlace DEF NoLink
  <2>3. QED
    BY <1>8, <2>1, <2>2 DEF NoLink
<1>9. ASSUME NEW t \in Threads, PopHeader(t) PROVE TypeOK'
  <2>1. headers' \subseteq {"All-content", "custom"}
    <3>1. headers' = headers \/ headers' = headers \ {"All-content"}
      BY <1>9 DEF PopHeader
    <3>2. headers \subseteq {"All-content", "custom"}
      OBVIOUS
    <3>3. headers \ {"All-content"} \subseteq headers
      BY RemoveSubset
    <3> HIDE DEF OpsInv, TypeOK
    <3>4. QED
      BY <3>1, <3>2, <3>3
  <2>2. pc' \in [Threads -> Locations]
    BY <1>9 DEF PopHeader, Goto
  <2>3. result' \in [Threads -> {"none", "True", "False", "KeyError",
                                "EntityNotFound", "raised", "unsent"}]
    BY <1>9 DEF PopHeader
  <2>4. QED
    BY <1>9, <2>1, <2>2, <2>3 DEF PopHeader, Touches
<1>10. ASSUME NEW t \in Threads, PopCorrelationId(t) PROVE TypeOK'
    BY <1>10 DEF PopCorrelationId, Goto
<1>11. ASSUME NEW t \in Threads, ExitContext(t) PROVE TypeOK'
    BY <1>11 DEF ExitContext, Goto
<1>12. ASSUME NEW t \in Threads, Judge(t) PROVE TypeOK'
    BY <1>12 DEF Judge, Goto, Return, Mismatch
<1>13. ASSUME NEW t \in Threads, List(t) PROVE TypeOK'
    BY <1>13 DEF List, Goto, Return, FindCreated
<1>14. CASE UNCHANGED vars
    BY <1>14 DEF vars
<1>15. QED
    BY <1>1, <1>2, <1>3, <1>4, <1>5, <1>6, <1>7, <1>8, <1>9, <1>10, <1>11,
       <1>12, <1>13, <1>14 DEF Next, Step

(* The lock and the Correlation-Id belong to one thread. *)
LEMMA LockStep ==
    ASSUME OpsInv, [Next]_vars
    PROVE  LockInv'
<1> USE DEF OpsInv, TypeOK, LockInv, Inside, shared, server,
         call
<1> USE OpsAssumption
<1>1. ASSUME NEW t \in Threads, NEW o \in Operations, NEW i \in Ids,
           NEW p \in BOOLEAN, NEW f \in BOOLEAN, Call(t, o, i, p, f) PROVE LockInv'
    BY <1>1, OpsAssumption DEF Call, Goto, Modify, Read
<1>2. ASSUME NEW i \in Ids, Appear(i) PROVE LockInv'
    BY <1>2 DEF Appear
<1>3. ASSUME NEW t \in Threads, SetHeader(t) PROVE LockInv'
    BY <1>3 DEF SetHeader, Goto, Header, Modify, Read
<1>4. ASSUME NEW t \in Threads, EnterContext(t) PROVE LockInv'
    BY <1>4 DEF EnterContext, Goto
<1>5. ASSUME NEW t \in Threads, SetCorrelationId(t) PROVE LockInv'
    BY <1>5 DEF SetCorrelationId, Goto
<1>6. ASSUME NEW t \in Threads, Send(t) PROVE LockInv'
  <2>1. /\ op[t] \in Modify \cup Read /\ id[t] \in Ids
        /\ op[t] \in Modify \cup Read \cup {None} /\ id[t] \in Ids \cup {None}
        /\ op[t] # None /\ id[t] # None
    BY <1>6, OpsAssumption DEF Send, LockInv
  <2>2. \/ op[t] \in Modify /\ pc' = [pc EXCEPT ![t] = "uncorrelate"]
        \/ /\ op[t] \in Read /\ op[t] \notin Modify
           /\ \/ pc' = [pc EXCEPT ![t] = "pop"]
              \/ pc' = [pc EXCEPT ![t] = "judge"]
    BY <1>6, <2>1, AfterPlace DEF Send
  <2>3. QED
    BY <1>6, <2>1, <2>2 DEF Send, Record
<1>7. ASSUME NEW t \in Threads, SendRaises(t) PROVE LockInv'
  <2>1. /\ op[t] \in Modify \cup Read /\ id[t] \in Ids
        /\ op[t] \in Modify \cup Read \cup {None} /\ id[t] \in Ids \cup {None}
        /\ op[t] # None /\ id[t] # None
    BY <1>7, OpsAssumption DEF SendRaises, LockInv
  <2>2. \/ op[t] \in Modify /\ pc' = [pc EXCEPT ![t] = "uncorrelate"]
        \/ /\ op[t] \in Read /\ op[t] \notin Modify
           /\ \/ pc' = [pc EXCEPT ![t] = "pop"]
              \/ pc' = [pc EXCEPT ![t] = "idle"]
    BY <1>7, <2>1, AfterPlace DEF SendRaises
  <2>3. QED
    BY <1>7, <2>1, <2>2 DEF SendRaises, Record
<1>8. ASSUME NEW t \in Threads, NoLink(t) PROVE LockInv'
  <2>1. /\ op[t] \in Modify \cup Read /\ id[t] \in Ids
        /\ op[t] \in Modify \cup Read \cup {None} /\ id[t] \in Ids \cup {None}
        /\ op[t] # None /\ id[t] # None
    BY <1>8, OpsAssumption DEF NoLink, LockInv
  <2>2. \/ op[t] \in Modify /\ pc' = [pc EXCEPT ![t] = "uncorrelate"]
        \/ /\ op[t] \in Read /\ op[t] \notin Modify
           /\ \/ pc' = [pc EXCEPT ![t] = "pop"]
              \/ pc' = [pc EXCEPT ![t] = "idle"]
    BY <1>8, <2>1, AfterPlace DEF NoLink
  <2>3. QED
    BY <1>8, <2>1, <2>2 DEF NoLink
<1>9. ASSUME NEW t \in Threads, PopHeader(t) PROVE LockInv'
    BY <1>9 DEF PopHeader, Goto
<1>10. ASSUME NEW t \in Threads, PopCorrelationId(t) PROVE LockInv'
    BY <1>10 DEF PopCorrelationId, Goto
<1>11. ASSUME NEW t \in Threads, ExitContext(t) PROVE LockInv'
    BY <1>11 DEF ExitContext, Goto
<1>12. ASSUME NEW t \in Threads, Judge(t) PROVE LockInv'
    BY <1>12 DEF Judge, Goto, Return, Mismatch
<1>13. ASSUME NEW t \in Threads, List(t) PROVE LockInv'
    BY <1>13 DEF List, Goto, Return, FindCreated
<1>14. CASE UNCHANGED vars
    BY <1>14 DEF vars
<1>15. QED
    BY <1>1, <1>2, <1>3, <1>4, <1>5, <1>6, <1>7, <1>8, <1>9, <1>10, <1>11,
       <1>12, <1>13, <1>14 DEF Next, Step

(* What an operation knows of its request is true. *)
LEMMA JudgeStep ==
    ASSUME OpsInv, [Next]_vars
    PROVE  JudgeInv'
<1> USE DEF OpsInv, TypeOK, JudgeInv, Told, Done, Codes, shared, server, call
<1> USE OpsAssumption
<1>1. ASSUME NEW t \in Threads, NEW o \in Operations, NEW i \in Ids,
           NEW p \in BOOLEAN, NEW f \in BOOLEAN, Call(t, o, i, p, f) PROVE JudgeInv'
    BY <1>1 DEF Call, Goto
<1>2. ASSUME NEW i \in Ids, Appear(i) PROVE JudgeInv'
    BY <1>2 DEF Appear
<1>3. ASSUME NEW t \in Threads, SetHeader(t) PROVE JudgeInv'
    BY <1>3 DEF SetHeader, Goto, Header, LockInv, Modify, Read
<1>4. ASSUME NEW t \in Threads, EnterContext(t) PROVE JudgeInv'
    BY <1>4 DEF EnterContext, Goto
<1>5. ASSUME NEW t \in Threads, SetCorrelationId(t) PROVE JudgeInv'
    BY <1>5 DEF SetCorrelationId, Goto
<1>6. ASSUME NEW t \in Threads, Send(t) PROVE JudgeInv'
  <2>1. /\ op[t] \in Modify \cup Read /\ id[t] \in Ids
        /\ op[t] \in Modify \cup Read \cup {None} /\ id[t] \in Ids \cup {None}
        /\ op[t] # None /\ id[t] # None
    BY <1>6, OpsAssumption DEF Send, LockInv
  <2>2. \/ op[t] \in Modify /\ pc' = [pc EXCEPT ![t] = "uncorrelate"]
        \/ /\ op[t] \in Read /\ op[t] \notin Modify
           /\ \/ pc' = [pc EXCEPT ![t] = "pop"]
              \/ pc' = [pc EXCEPT ![t] = "judge"]
    BY <1>6, <2>1, AfterPlace DEF Send
  <2>3. PICK a \in Answers(op[t], id[t]) :
            /\ status' = [status EXCEPT ![t] = a[1]]
            /\ exists' = a[2]
            /\ coming' = a[3]
            /\ did' = [did EXCEPT ![t] = a[4] /\ op[t] \in Modify]
            /\ unsure' = [unsure EXCEPT ![t] = a[4] /\ a[1] = 500]
    BY <1>6 DEF Send
  <2>4. /\ a[1] \in Done \cup {404, 409, 500}
        /\ a[2] \subseteq Ids /\ a[3] \subseteq Ids
        /\ a[4] \in BOOLEAN
        /\ a[1] \in Done => a[4]
        /\ a[4] => a[1] \in Done \cup {500}
    BY <2>1, AnswersCode
  <2>5. CASE op[t] \in Modify
    <3>1. /\ pc'[t] = "uncorrelate" /\ result'[t] = "none"
          /\ status'[t] = a[1]
          /\ did'[t] = a[4]
          /\ unsure'[t] = (a[4] /\ a[1] = 500)
      BY <1>6, <2>2, <2>3, <2>4, <2>5 DEF Send, Modify, Read
    <3>2. Told(t)'
      <4>1. status'[t] \in Done => did'[t]
        BY <2>4, <3>1
      <4>2. unsure'[t] => status'[t] = 500
        BY <3>1, Zenon
      <4>3. did'[t] => status'[t] \in Done \/ unsure'[t]
        <5>1. a[4] /\ a[1] \notin Done => a[1] = 500
          BY <2>4
        <5>2. QED
          BY <3>1, <5>1, Zenon
      <4>4. QED
        BY <4>1, <4>2, <4>3
    <3>3. ASSUME NEW u \in Threads, u # t
          PROVE  /\ pc'[u] = pc[u] /\ status'[u] = status[u]
                 /\ did'[u] = did[u] /\ unsure'[u] = unsure[u]
      BY <1>6, <2>3, <2>2, <3>3 DEF Send
    <3>4. UNCHANGED <<op, positive, result>>
      BY <1>6 DEF Send
    <3>5. QED
      BY <3>1, <3>2, <3>3, <3>4
  <2>6. CASE op[t] \notin Modify
    <3>1. ASSUME NEW u \in Threads, u # t
          PROVE  /\ pc'[u] = pc[u] /\ status'[u] = status[u]
                 /\ did'[u] = did[u] /\ unsure'[u] = unsure[u]
      BY <1>6, <2>3, <2>2, <3>1 DEF Send
    <3>2. UNCHANGED <<op, positive, result>>
      BY <1>6 DEF Send
    <3>3. QED
      BY <2>6, <3>1, <3>2
  <2>7. QED
    BY <2>5, <2>6
<1>7. ASSUME NEW t \in Threads, SendRaises(t) PROVE JudgeInv'
  <2>1. /\ op[t] \in Modify \cup Read /\ id[t] \in Ids
        /\ op[t] \in Modify \cup Read \cup {None} /\ id[t] \in Ids \cup {None}
        /\ op[t] # None /\ id[t] # None
    BY <1>7, OpsAssumption DEF SendRaises, LockInv
  <2>2. \/ op[t] \in Modify /\ pc' = [pc EXCEPT ![t] = "uncorrelate"]
        \/ /\ op[t] \in Read /\ op[t] \notin Modify
           /\ \/ pc' = [pc EXCEPT ![t] = "pop"]
              \/ pc' = [pc EXCEPT ![t] = "idle"]
    BY <1>7, <2>1, AfterPlace DEF SendRaises
  <2>3. QED
    BY <1>7, <2>1, <2>2 DEF SendRaises, Record
<1>8. ASSUME NEW t \in Threads, NoLink(t) PROVE JudgeInv'
  <2>1. /\ op[t] \in Modify \cup Read /\ id[t] \in Ids
        /\ op[t] \in Modify \cup Read \cup {None} /\ id[t] \in Ids \cup {None}
        /\ op[t] # None /\ id[t] # None
    BY <1>8, OpsAssumption DEF NoLink, LockInv
  <2>2. \/ op[t] \in Modify /\ pc' = [pc EXCEPT ![t] = "uncorrelate"]
        \/ /\ op[t] \in Read /\ op[t] \notin Modify
           /\ \/ pc' = [pc EXCEPT ![t] = "pop"]
              \/ pc' = [pc EXCEPT ![t] = "idle"]
    BY <1>8, <2>1, AfterPlace DEF NoLink
  <2>3. QED
    BY <1>8, <2>1, <2>2 DEF NoLink, Modify
<1>9. ASSUME NEW t \in Threads, PopHeader(t) PROVE JudgeInv'
    BY <1>9 DEF PopHeader, Goto, LockInv, Modify, Read
<1>10. ASSUME NEW t \in Threads, PopCorrelationId(t) PROVE JudgeInv'
    BY <1>10 DEF PopCorrelationId, CorrelationId, Goto, LockInv, Inside
<1>11. ASSUME NEW t \in Threads, ExitContext(t) PROVE JudgeInv'
    BY <1>11 DEF ExitContext, Goto
<1>12. ASSUME NEW t \in Threads, Judge(t) PROVE JudgeInv'
    BY <1>12 DEF Judge, Goto, Return, Mismatch, responseCodesMatch,
         ExpectedPositive, ExpectedNegative, POSITIVE_CODES,
         NEGATIVE_CODES, Modify, Read
<1>13. ASSUME NEW t \in Threads, List(t) PROVE JudgeInv'
    BY <1>13 DEF List, Goto, Return, FindCreated
<1>14. CASE UNCHANGED vars
    BY <1>14 DEF vars
<1>15. QED
    BY <1>1, <1>2, <1>3, <1>4, <1>5, <1>6, <1>7, <1>8, <1>9, <1>10, <1>11,
       <1>12, <1>13, <1>14 DEF Next, Step

(* The Correlation-Id sent is that of the thread. *)
LEMMA CorrelationStep ==
    ASSUME OpsInv, [Next]_vars
    PROVE  CorrelationOwn'
<1> USE DEF OpsInv, TypeOK, CorrelationOwn, Sent, Finished,
         shared, server, call
<1> USE OpsAssumption
<1>1. ASSUME NEW t \in Threads, NEW o \in Operations, NEW i \in Ids,
           NEW p \in BOOLEAN, NEW f \in BOOLEAN, Call(t, o, i, p, f) PROVE CorrelationOwn'
    BY <1>1 DEF Call, Goto, Modify, Read
<1>2. ASSUME NEW i \in Ids, Appear(i) PROVE CorrelationOwn'
    BY <1>2 DEF Appear
<1>3. ASSUME NEW t \in Threads, SetHeader(t) PROVE CorrelationOwn'
    BY <1>3 DEF SetHeader, Goto, Header, LockInv
<1>4. ASSUME NEW t \in Threads, EnterContext(t) PROVE CorrelationOwn'
    BY <1>4 DEF EnterContext, Goto
<1>5. ASSUME NEW t \in Threads, SetCorrelationId(t) PROVE CorrelationOwn'
    BY <1>5 DEF SetCorrelationId, Goto
<1>6. ASSUME NEW t \in Threads, Send(t) PROVE CorrelationOwn'
  <2>1. /\ op[t] \in Modify \cup Read /\ id[t] \in Ids
        /\ op[t] \in Modify \cup Read \cup {None} /\ id[t] \in Ids \cup {None}
        /\ op[t] # None /\ id[t] # None
    BY <1>6, OpsAssumption DEF Send, LockInv
  <2>2. \/ op[t] \in Modify /\ pc' = [pc EXCEPT ![t] = "uncorrelate"]
        \/ /\ op[t] \in Read /\ op[t] \notin Modify
           /\ \/ pc' = [pc EXCEPT ![t] = "pop"]
              \/ pc' = [pc EXCEPT ![t] = "judge"]
    BY <1>6, <2>1, AfterPlace DEF Send
  <2>3. QED
    BY <1>6, <2>1, <2>2 DEF Send, Record, LockInv, Inside, Modify
<1>7. ASSUME NEW t \in Threads, SendRaises(t) PROVE CorrelationOwn'
  <2>1. /\ op[t] \in Modify \cup Read /\ id[t] \in Ids
        /\ op[t] \in Modify \cup Read \cup {None} /\ id[t] \in Ids \cup {None}
        /\ op[t] # None /\ id[t] # None
    BY <1>7, OpsAssumption DEF SendRaises, LockInv
  <2>2. \/ op[t] \in Modify /\ pc' = [pc EXCEPT ![t] = "uncorrelate"]
        \/ /\ op[t] \in Read /\ op[t] \notin Modify
           /\ \/ pc' = [pc EXCEPT ![t] = "pop"]
              \/ pc' = [pc EXCEPT ![t] = "idle"]
    BY <1>7, <2>1, AfterPlace DEF SendRaises
  <2>3. QED
    BY <1>7, <2>1, <2>2 DEF SendRaises, Record, LockInv, Inside, Modify
<1>8. ASSUME NEW t \in Threads, NoLink(t) PROVE CorrelationOwn'
  <2>1. /\ op[t] \in Modify \cup Read /\ id[t] \in Ids
        /\ op[t] \in Modify \cup Read \cup {None} /\ id[t] \in Ids \cup {None}
        /\ op[t] # None /\ id[t] # None
    BY <1>8, OpsAssumption DEF NoLink, LockInv
  <2>2. \/ op[t] \in Modify /\ pc' = [pc EXCEPT ![t] = "uncorrelate"]
        \/ /\ op[t] \in Read /\ op[t] \notin Modify
           /\ \/ pc' = [pc EXCEPT ![t] = "pop"]
              \/ pc' = [pc EXCEPT ![t] = "idle"]
    BY <1>8, <2>1, AfterPlace DEF NoLink
  <2>3. QED
    BY <1>8, <2>1, <2>2 DEF NoLink, LockInv, Inside, Modify
<1>9. ASSUME NEW t \in Threads, PopHeader(t) PROVE CorrelationOwn'
    BY <1>9 DEF PopHeader, Goto, LockInv
<1>10. ASSUME NEW t \in Threads, PopCorrelationId(t) PROVE CorrelationOwn'
    BY <1>10 DEF PopCorrelationId, Goto
<1>11. ASSUME NEW t \in Threads, ExitContext(t) PROVE CorrelationOwn'
    BY <1>11 DEF ExitContext, Goto
<1>12. ASSUME NEW t \in Threads, Judge(t) PROVE CorrelationOwn'
    BY <1>12 DEF Judge, Goto, Return, Mismatch
<1>13. ASSUME NEW t \in Threads, List(t) PROVE CorrelationOwn'
    BY <1>13 DEF List, Goto, Return, FindCreated
<1>14. CASE UNCHANGED vars
    BY <1>14 DEF vars
<1>15. QED
    BY <1>1, <1>2, <1>3, <1>4, <1>5, <1>6, <1>7, <1>8, <1>9, <1>10, <1>11,
       <1>12, <1>13, <1>14 DEF Next, Step

(* A verdict is true. *)
LEMMA VerdictStep ==
    ASSUME OpsInv, [Next]_vars
    PROVE  VerdictTrue'
<1> USE DEF OpsInv, TypeOK, VerdictTrue, Finished, shared,
         server, call
<1> USE OpsAssumption
<1>1. ASSUME NEW t \in Threads, NEW o \in Operations, NEW i \in Ids,
           NEW p \in BOOLEAN, NEW f \in BOOLEAN, Call(t, o, i, p, f) PROVE VerdictTrue'
  <2>1. pc'[t] # "idle"
    BY <1>1 DEF Call, Goto
  <2>2. ASSUME NEW u \in Threads, u # t
        PROVE  /\ pc'[u] = pc[u] /\ op'[u] = op[u] /\ result'[u] = result[u]
               /\ did'[u] = did[u] /\ positive'[u] = positive[u]
               /\ unsure'[u] = unsure[u]
    BY <1>1, <2>2 DEF Call, Goto
  <2>3. QED
    BY <2>1, <2>2
<1>2. ASSUME NEW i \in Ids, Appear(i) PROVE VerdictTrue'
    BY <1>2 DEF Appear
<1>3. ASSUME NEW t \in Threads, SetHeader(t) PROVE VerdictTrue'
    BY <1>3 DEF SetHeader, Goto, Header
<1>4. ASSUME NEW t \in Threads, EnterContext(t) PROVE VerdictTrue'
    BY <1>4 DEF EnterContext, Goto
<1>5. ASSUME NEW t \in Threads, SetCorrelationId(t) PROVE VerdictTrue'
    BY <1>5 DEF SetCorrelationId, Goto
<1>6. ASSUME NEW t \in Threads, Send(t) PROVE VerdictTrue'
  <2>1. /\ op[t] \in Modify \cup Read /\ id[t] \in Ids
        /\ op[t] \in Modify \cup Read \cup {None} /\ id[t] \in Ids \cup {None}
        /\ op[t] # None /\ id[t] # None
    BY <1>6, OpsAssumption DEF Send, LockInv
  <2>2. \/ op[t] \in Modify /\ pc' = [pc EXCEPT ![t] = "uncorrelate"]
        \/ /\ op[t] \in Read /\ op[t] \notin Modify
           /\ \/ pc' = [pc EXCEPT ![t] = "pop"]
              \/ pc' = [pc EXCEPT ![t] = "judge"]
    BY <1>6, <2>1, AfterPlace DEF Send
  <2>3. QED
    BY <1>6, <2>1, <2>2 DEF Send, Record
<1>7. ASSUME NEW t \in Threads, SendRaises(t) PROVE VerdictTrue'
  <2>1. /\ op[t] \in Modify \cup Read /\ id[t] \in Ids
        /\ op[t] \in Modify \cup Read \cup {None} /\ id[t] \in Ids \cup {None}
        /\ op[t] # None /\ id[t] # None
    BY <1>7, OpsAssumption DEF SendRaises, LockInv
  <2>2. \/ op[t] \in Modify /\ pc' = [pc EXCEPT ![t] = "uncorrelate"]
        \/ /\ op[t] \in Read /\ op[t] \notin Modify
           /\ \/ pc' = [pc EXCEPT ![t] = "pop"]
              \/ pc' = [pc EXCEPT ![t] = "idle"]
    BY <1>7, <2>1, AfterPlace DEF SendRaises
  <2>3. QED
    BY <1>7, <2>1, <2>2 DEF SendRaises, Record
<1>8. ASSUME NEW t \in Threads, NoLink(t) PROVE VerdictTrue'
  <2>1. /\ op[t] \in Modify \cup Read /\ id[t] \in Ids
        /\ op[t] \in Modify \cup Read \cup {None} /\ id[t] \in Ids \cup {None}
        /\ op[t] # None /\ id[t] # None
    BY <1>8, OpsAssumption DEF NoLink, LockInv
  <2>2. \/ op[t] \in Modify /\ pc' = [pc EXCEPT ![t] = "uncorrelate"]
        \/ /\ op[t] \in Read /\ op[t] \notin Modify
           /\ \/ pc' = [pc EXCEPT ![t] = "pop"]
              \/ pc' = [pc EXCEPT ![t] = "idle"]
    BY <1>8, <2>1, AfterPlace DEF NoLink
  <2>3. QED
    BY <1>8, <2>1, <2>2 DEF NoLink
<1>9. ASSUME NEW t \in Threads, PopHeader(t) PROVE VerdictTrue'
    BY <1>9 DEF PopHeader, Goto, LockInv, Modify, Read
<1>10. ASSUME NEW t \in Threads, PopCorrelationId(t) PROVE VerdictTrue'
    BY <1>10 DEF PopCorrelationId, Goto
<1>11. ASSUME NEW t \in Threads, ExitContext(t) PROVE VerdictTrue'
    BY <1>11 DEF ExitContext, Goto, JudgeInv
<1>12. ASSUME NEW t \in Threads, Judge(t) PROVE VerdictTrue'
    BY <1>12 DEF Judge, Goto, Return, Mismatch, JudgeInv,
         responseCodesMatch, ExpectedPositive,
         ExpectedNegative, POSITIVE_CODES, NEGATIVE_CODES,
         Modify, Read, Told, Done
<1>13. ASSUME NEW t \in Threads, List(t) PROVE VerdictTrue'
    BY <1>13 DEF List, Goto, Return, FindCreated, JudgeInv
<1>14. CASE UNCHANGED vars
    BY <1>14 DEF vars
<1>15. QED
    BY <1>1, <1>2, <1>3, <1>4, <1>5, <1>6, <1>7, <1>8, <1>9, <1>10, <1>11,
       <1>12, <1>13, <1>14 DEF Next, Step

(* While nobody else uses the headers, 'All-content' is there when the      *)
(* request is sent and when it is removed.                                  *)
LEMMA HeaderStep ==
    ASSUME OpsInv, [Next]_vars
    PROVE  HeaderInv'
<1> USE DEF OpsInv, TypeOK, HeaderInv, Removes, shared, server, call
<1> USE OpsAssumption
<1>1. ASSUME NEW t \in Threads, NEW o \in Operations, NEW i \in Ids,
           NEW p \in BOOLEAN, NEW f \in BOOLEAN, Call(t, o, i, p, f)
      PROVE  HeaderInv'
  <2>1. f /\ o \in Removing => pc'[t] = "set"
    BY <1>1 DEF Call, Goto, Removing, Modify, Read
  <2>2. /\ flag'[t] = f /\ op'[t] = o /\ result'[t] = "none"
    BY <1>1 DEF Call
  <2>3. ASSUME NEW u \in Threads, u # t
        PROVE  /\ pc'[u] = pc[u] /\ op'[u] = op[u] /\ result'[u] = result[u]
               /\ flag'[u] = flag[u] /\ alone'[u] = alone[u]
               /\ sentWith'[u] = sentWith[u]
    BY <1>1, <2>3 DEF Call, Goto
  <2>4. headers' = headers
    BY <1>1 DEF Call
  <2>5. QED
    BY <2>1, <2>2, <2>3, <2>4
<1>2. ASSUME NEW i \in Ids, Appear(i) PROVE HeaderInv'
    BY <1>2 DEF Appear
<1>3. ASSUME NEW t \in Threads, SetHeader(t) PROVE HeaderInv'
  <2>1. /\ alone' = [u \in Threads |-> alone[u] /\ u = t]
        /\ pc' = [pc EXCEPT ![t] = "send"]
        /\ UNCHANGED <<op, flag, result>>
    BY <1>3 DEF SetHeader, Goto, Touches
  <2>2. op[t] \in Removing => "All-content" \in headers'
    BY <1>3 DEF SetHeader, Header, Removing
  <2>3. pc[t] = "set"
    BY <1>3 DEF SetHeader
  <2>4. \A u \in Threads : alone'[u] => u = t /\ alone[t]
    BY <2>1
  <2>5. pc'[t] = "send" /\ pc[t] = "set"
    BY <2>1, <2>3
  <2>6. QED
    BY <2>1, <2>2, <2>4, <2>5
<1>4. ASSUME NEW t \in Threads, EnterContext(t) PROVE HeaderInv'
    BY <1>4 DEF EnterContext, Goto, LockInv, Removing, Modify
<1>5. ASSUME NEW t \in Threads, SetCorrelationId(t) PROVE HeaderInv'
    BY <1>5 DEF SetCorrelationId, Goto, LockInv, Inside, Removing, Modify
<1>6. ASSUME NEW t \in Threads, Send(t) PROVE HeaderInv'
  <2>1. /\ op[t] \in Modify \cup Read
        /\ pc[t] = "send"
        /\ UNCHANGED <<headers, op, flag, result, alone>>
    BY <1>6, OpsAssumption DEF Send, LockInv
  <2>2. pc'[t] \in {"uncorrelate", "pop", "judge"}
    BY <1>6, <2>1, AfterPlace DEF Send
  <2>3. op[t] \in Removing => sentWith'[t] = ("All-content" \in headers)
    BY <1>6 DEF Send, Record, Removing, Modify
  <2>4. ASSUME NEW u \in Threads, u # t
        PROVE  sentWith'[u] = sentWith[u] /\ pc'[u] = pc[u]
    BY <1>6, <2>4 DEF Send, Record, AfterRequest, Goto
  <2>5. QED
    BY <2>1, <2>2, <2>3, <2>4
<1>7. ASSUME NEW t \in Threads, SendRaises(t) PROVE HeaderInv'
  <2>1. /\ op[t] \in Modify \cup Read
        /\ pc[t] = "send"
        /\ UNCHANGED <<headers, op, flag, alone>>
        /\ result' = [result EXCEPT ![t] = "raised"]
    BY <1>7, OpsAssumption DEF SendRaises, LockInv
  <2>2. pc'[t] \in {"uncorrelate", "pop", "idle"}
    BY <1>7, <2>1, AfterPlace DEF SendRaises
  <2>3. op[t] \in Removing => sentWith'[t] = ("All-content" \in headers)
    BY <1>7 DEF SendRaises, Record, Removing, Modify
  <2>4. ASSUME NEW u \in Threads, u # t
        PROVE  sentWith'[u] = sentWith[u] /\ pc'[u] = pc[u]
    BY <1>7, <2>4 DEF SendRaises, Record, AfterRequest, Goto
  <2>5. QED
    BY <2>1, <2>2, <2>3, <2>4
<1>8. ASSUME NEW t \in Threads, NoLink(t) PROVE HeaderInv'
  <2>1. /\ op[t] \in Modify \cup Read
        /\ pc[t] = "send"
        /\ UNCHANGED <<headers, op, flag, alone, sentWith>>
        /\ result' = [result EXCEPT ![t] = "unsent"]
    BY <1>8 DEF NoLink, LockInv
  <2>2. pc'[t] \in {"uncorrelate", "pop", "idle"}
    BY <1>8, <2>1, AfterPlace DEF NoLink
  <2>3. ASSUME NEW u \in Threads, u # t
        PROVE  pc'[u] = pc[u]
    BY <1>8, <2>3 DEF NoLink, AfterRequest, Goto
  <2>4. QED
    BY <2>1, <2>2, <2>3
<1>9. ASSUME NEW t \in Threads, PopHeader(t) PROVE HeaderInv'
  <2>1. \A u \in Threads : alone'[u] => u = t /\ alone[t]
    BY <1>9 DEF PopHeader, Touches
  <2>2. pc[t] = "pop" /\ UNCHANGED <<op, flag, sentWith>>
    BY <1>9 DEF PopHeader
  <2>3. /\ pc'[t] \in {"judge", "idle"}
        /\ "All-content" \in headers /\ pc'[t] = "judge" => result[t] = "none"
    BY <1>9 DEF PopHeader, Goto
  <2>4. "All-content" \in headers => result' = result
    BY <1>9 DEF PopHeader
  <2>5. QED
    BY <2>1, <2>2, <2>3, <2>4
<1>10. ASSUME NEW t \in Threads, PopCorrelationId(t) PROVE HeaderInv'
    BY <1>10 DEF PopCorrelationId, Goto, LockInv, Inside, Removing, Modify
<1>11. ASSUME NEW t \in Threads, ExitContext(t) PROVE HeaderInv'
    BY <1>11 DEF ExitContext, Goto, LockInv, Inside, Removing, Modify
<1>12. ASSUME NEW t \in Threads, Judge(t) PROVE HeaderInv'
  <2>1. pc[t] = "judge" /\ UNCHANGED <<headers, op, flag, alone, sentWith>>
    BY <1>12 DEF Judge
  <2>2. /\ pc'[t] \notin {"set", "send", "pop"}
        /\ result'[t] \in {"True", "False", result[t]}
    BY <1>12 DEF Judge, Return, Goto
  <2>3. ASSUME NEW u \in Threads, u # t
        PROVE  pc'[u] = pc[u] /\ result'[u] = result[u]
    BY <1>12, <2>3 DEF Judge, Return, Goto
  <2>4. op[t] \in Removing =>
            pc'[t] = "idle" /\ result'[t] \in {"True", "False"}
    BY <1>12 DEF Judge, Return, Goto, Removing, Read
  <2>5. QED
    BY <2>1, <2>2, <2>3, <2>4
<1>13. ASSUME NEW t \in Threads, List(t) PROVE HeaderInv'
  <2>1. pc[t] = "list" /\ UNCHANGED <<headers, op, flag, alone, sentWith>>
    BY <1>13 DEF List
  <2>2. /\ pc'[t] = "idle"
        /\ result'[t] \in {"True", "False", "EntityNotFound", "raised"}
    BY <1>13 DEF List, Return, Goto, FindCreated
  <2>3. ASSUME NEW u \in Threads, u # t
        PROVE  pc'[u] = pc[u] /\ result'[u] = result[u]
    BY <1>13, <2>3 DEF List, Return, Goto
  <2>4. QED
    BY <2>1, <2>2, <2>3
<1>14. CASE UNCHANGED vars
    BY <1>14 DEF vars
<1>15. QED
    BY <1>1, <1>2, <1>3, <1>4, <1>5, <1>6, <1>7, <1>8, <1>9, <1>10, <1>11,
       <1>12, <1>13, <1>14 DEF Next, Step

(* OpsInv is an invariant for every set of threads: who holds context_lock, *)
(* which Correlation-Id is set and what each call has done are tied.        *)
THEOREM OpsInvariance == Spec => []OpsInv
<1>1. Init => OpsInv
  BY InitOpsInv
<1>2. OpsInv /\ [Next]_vars => OpsInv'
  BY TypeStep, LockStep, JudgeStep, CorrelationStep, VerdictStep,
     HeaderStep DEF OpsInv
<1>3. QED
  BY <1>1, <1>2, PTL DEF Spec

(* correlationIdContext: every request that modifies the engine carries the *)
(* Correlation-Id of its own call, however many threads share the header.   *)
THEOREM CorrelationCorrect == Spec => []CorrelationOwn
<1>1. OpsInv => CorrelationOwn
  BY DEF OpsInv
<1>2. QED
  BY <1>1, OpsInvariance, PTL

(* create, update, delete and syncAction report success only if the engine  *)
(* did what was asked, or did nothing where a refusal was expected; the one *)
(* exception is a 500 after the execution, which NEGATIVE_CODES takes for a *)
(* refusal.                                                                 *)
THEOREM VerdictCorrect == Spec => []VerdictTrue
<1>1. OpsInv => VerdictTrue
  BY DEF OpsInv
<1>2. QED
  BY <1>1, OpsInvariance, PTL

(* query and getElemFromLink: a call with all_content that no other thread  *)
(* disturbs sends the header and removes it without a KeyError, whatever    *)
(* earlier calls left in the headers.                                       *)
THEOREM AllContentCorrect == Spec => []AllContentAlone
<1>1. OpsInv => AllContentAlone
  BY DEF OpsInv, HeaderInv, AllContentAlone, Finished
<1>2. QED
  BY <1>1, OpsInvariance, PTL

=============================================================================
