-------------------------- MODULE NameCacheProofs --------------------------
(***************************************************************************)
(* The safety of NameCache for any threads, names, addresses and any       *)
(* cache_exp: CacheInv is inductive, and what an answer promises follows.  *)
(***************************************************************************)
EXTENDS NameCache, SequenceTheorems, TLAPS

\* None and the words for "no address" are no addresses.
LEMMA Distinct ==
    /\ None \notin Ips /\ None \notin Threads
    /\ "unreported" \notin Ips /\ "absent" \notin Ips /\ "raised" \notin Ips
    /\ Exp \in Nat
BY NameCacheAssumption

\* The first states: nothing is cached and nobody looks anything up.
LEMMA InitInv == Init => CacheInv
<1> SUFFICES ASSUME Init PROVE CacheInv
  OBVIOUS
<1> USE DEF Init
<1>1. held = [k \in Keys |-> [i \in Ips |->
                IF addr[k] = i THEN 1 ELSE [j \in Ips |-> 0][i]]]
  BY DEF HeldAt
<1>2. held = [k \in Keys |-> [i \in Ips |-> IF addr[k] = i THEN 1 ELSE 0]]
  BY <1>1
<1>3. held \in [Keys -> [Ips -> Nat]]
  BY <1>2
<1>4. \A k \in Keys, i \in Ips : held[k][i] = IF addr[k] = i THEN 1 ELSE 0
  BY <1>2
<1>5. ASSUME NEW k \in Keys, NEW i \in Ips
      PROVE  (addr[k] = i => held[k][i] = 1) /\ held[k][i] <= 1
  <2> HIDE DEF Init
  <2>1. held[k][i] = IF addr[k] = i THEN 1 ELSE 0
    BY <1>4
  <2>2. CASE addr[k] = i
    BY <2>1, <2>2
  <2>3. CASE addr[k] # i
    BY <2>1, <2>3
  <2> QED BY <2>2, <2>3
<1>6. TypeOK
  <2>1. since \in [Keys -> SUBSET (Ips \cup Nowhere)]
    OBVIOUS
  <2>2. cache \in [Keys -> [ip : Ips \cup {None}, exp : Nat]]
    BY DEF NoRecord
  <2>3. todo \in [Threads -> Seq(Keys)]
    OBVIOUS
  <2>4. clock = 1 /\ moves = 0 /\ lock = None
    OBVIOUS
  <2>5. addr \in [Keys -> Ips \cup Nowhere]
    OBVIOUS
  <2>6. /\ pc \in [Threads -> {"idle", "look_up", "get_ip", "got", "done"}]
        /\ answer \in [Threads -> Ips \cup Nowhere \cup {None, "raised"}]
    OBVIOUS
  <2>7. stamp \in [Threads -> Nat] /\ fresh \in [Threads -> BOOLEAN]
    OBVIOUS
  <2> HIDE DEF Init
  <2>8. clock \in Nat \ {0} /\ moves \in Nat /\ lock \in Threads \cup {None}
    BY <2>4
  <2> QED
    BY <1>3, <2>1, <2>2, <2>3, <2>5, <2>6, <2>7, <2>8 DEF TypeOK
<1>7. LockInv /\ TodoInv /\ FetchInv /\ ResetForgets
  BY DEF LockInv, TodoInv, FetchInv, ResetForgets
<1>8. HeldInv
  BY <1>5 DEF HeldInv
<1>9. RecordInv
  BY DEF RecordInv, NoRecord
<1> QED
  BY <1>6, <1>7, <1>8, <1>9 DEF CacheInv

-----------------------------------------------------------------------------
(* One lemma for each action *)

\* A VM or host that moves: the old address keeps the time it was true.
LEMMA MoveInv ==
    ASSUME CacheInv, NEW k \in Keys, move(k)
    PROVE  CacheInv'
<1> USE DEF CacheInv
<1>1. PICK a \in Places(k) \ {addr[k]} :
        /\ addr' = [addr EXCEPT ![k] = a]
        /\ since' = [since EXCEPT ![k] = @ \cup {a}]
        /\ held' = HeldAt(held, addr', clock)
  BY DEF move
<1>2. a \in Ips \cup Nowhere
  BY DEF Places, Nowhere
<1>3. /\ UNCHANGED <<clock, cache, lock, pc, todo, stamp, answer, fresh>>
      /\ moves' = moves + 1
  BY DEF move
<1>4. /\ addr' \in [Keys -> Ips \cup Nowhere]
      /\ since' \in [Keys -> SUBSET (Ips \cup Nowhere)]
      /\ clock \in Nat
  BY <1>1, <1>2 DEF TypeOK
<1>5. /\ held' \in [Keys -> [Ips -> Nat]]
      /\ \A x \in Keys, i \in Ips :
            /\ addr'[x] = i => held'[x][i] = clock
            /\ held[x][i] <= held'[x][i] /\ held'[x][i] <= clock
  <2>1. held' = [x \in Keys |-> [i \in Ips |->
                    IF addr'[x] = i THEN clock ELSE held[x][i]]]
    BY <1>1 DEF HeldAt
  <2>2. \A x \in Keys, i \in Ips : held[x][i] \in Nat /\ held[x][i] <= clock
    BY <1>4 DEF TypeOK, HeldInv
  <2>3. clock \in Nat
    BY <1>4
  <2> HIDE DEF CacheInv
  <2>4. held' \in [Keys -> [Ips -> Nat]]
    BY <2>1, <2>2, <2>3
  <2>5. ASSUME NEW x \in Keys, NEW i \in Ips
        PROVE  /\ addr'[x] = i => held'[x][i] = clock
               /\ held[x][i] <= held'[x][i] /\ held'[x][i] <= clock
    <3>1. held'[x][i] = IF addr'[x] = i THEN clock ELSE held[x][i]
      BY <2>1
    <3>2. CASE addr'[x] = i
      BY <2>2, <2>3, <3>1, <3>2
    <3>3. CASE addr'[x] # i
      BY <2>2, <3>1, <3>3
    <3> QED BY <3>2, <3>3
  <2> QED BY <2>4, <2>5
<1>6. \A x \in Keys : since[x] \subseteq since'[x]
  BY <1>1 DEF TypeOK
<1>7. TypeOK'
  BY <1>3, <1>4, <1>5 DEF TypeOK
<1>8. LockInv' /\ TodoInv'
  BY <1>3 DEF LockInv, TodoInv
<1>9. HeldInv'
  <2> SUFFICES ASSUME NEW x \in Keys
               PROVE  /\ addr'[x] \in since'[x]
                      /\ addr'[x] \in Ips => held'[x][addr'[x]] = clock'
                      /\ \A i \in Ips : held'[x][i] <= clock'
    BY DEF HeldInv
  <2>1. addr'[x] \in since'[x]
    BY <1>1 DEF TypeOK, HeldInv
  <2>2. addr'[x] \in Ips => held'[x][addr'[x]] = clock'
    BY <1>3, <1>5
  <2>3. \A i \in Ips : held'[x][i] <= clock'
    BY <1>3, <1>5
  <2> QED BY <2>1, <2>2, <2>3
<1>10. \A t \in Threads : todo[t] # <<>> => Head(todo[t]) \in Keys
  BY DEF TypeOK
<1>11. FetchInv'
  BY <1>3, <1>5, <1>6, <1>10 DEF TypeOK, FetchInv, TodoInv
<1>12. RecordInv'
  BY <1>3, <1>5, <1>6, Distinct DEF TypeOK, RecordInv
<1>13. ResetForgets'
  BY <1>3, <1>6, <1>10 DEF ResetForgets, TodoInv
<1> QED
  BY <1>7, <1>8, <1>9, <1>11, <1>12, <1>13

\* The clock: the present addresses are true a little longer.
LEMMA TickInv ==
    ASSUME CacheInv, tick
    PROVE  CacheInv'
<1> USE DEF CacheInv
<1>1. /\ clock' = clock + 1 /\ clock' \in Nat \ {0}
      /\ held' = HeldAt(held, addr, clock')
      /\ UNCHANGED <<addr, moves, cache, lock, pc, todo, stamp, answer,
                     since, fresh>>
  BY DEF tick, TypeOK
<1>2. clock <= clock'
  BY <1>1 DEF TypeOK
<1>3. /\ held' \in [Keys -> [Ips -> Nat]]
      /\ \A x \in Keys, i \in Ips :
            /\ addr[x] = i => held'[x][i] = clock'
            /\ held[x][i] <= held'[x][i] /\ held'[x][i] <= clock'
  <2>1. held' = [x \in Keys |-> [i \in Ips |->
                    IF addr[x] = i THEN clock' ELSE held[x][i]]]
    BY <1>1 DEF HeldAt
  <2>2. \A x \in Keys, i \in Ips : held[x][i] \in Nat /\ held[x][i] <= clock'
    BY <1>1 DEF TypeOK, HeldInv
  <2>3. clock' \in Nat
    BY <1>1
  <2> HIDE DEF CacheInv
  <2>4. held' \in [Keys -> [Ips -> Nat]]
    BY <2>1, <2>2, <2>3
  <2>5. ASSUME NEW x \in Keys, NEW i \in Ips
        PROVE  /\ addr[x] = i => held'[x][i] = clock'
               /\ held[x][i] <= held'[x][i] /\ held'[x][i] <= clock'
    <3>1. held'[x][i] = IF addr[x] = i THEN clock' ELSE held[x][i]
      BY <2>1
    <3>2. CASE addr[x] = i
      BY <2>2, <2>3, <3>1, <3>2
    <3>3. CASE addr[x] # i
      BY <2>2, <3>1, <3>3
    <3> QED BY <3>2, <3>3
  <2> QED BY <2>4, <2>5
<1>4. TypeOK'
  BY <1>1, <1>3 DEF TypeOK
<1>5. LockInv' /\ TodoInv' /\ ResetForgets'
  BY <1>1 DEF LockInv, TodoInv, ResetForgets
<1>6. HeldInv'
  BY <1>1, <1>3 DEF TypeOK, HeldInv
<1>7. \A t \in Threads : todo[t] # <<>> => Head(todo[t]) \in Keys
  BY DEF TypeOK
<1>8. FetchInv'
  BY <1>1, <1>3, <1>7 DEF TypeOK, FetchInv, TodoInv
<1>9. RecordInv'
  BY <1>1, <1>3, Distinct DEF TypeOK, RecordInv
<1> QED
  BY <1>4, <1>5, <1>6, <1>8, <1>9

\* A call begins, with one key or two.
LEMMA WrapperInv ==
    ASSUME CacheInv, NEW t \in Threads, wrapper(t)
    PROVE  CacheInv'
<1> USE DEF CacheInv
<1>1. PICK s \in Seq(Keys) : s # <<>> /\ todo' = [todo EXCEPT ![t] = s]
  <2>1. PICK n \in Names :
            \E s \in {<< <<"vms", n>> >>, << <<"hosts", n>> >>,
                      << <<"hosts", n>>, <<"vms", n>> >>} :
                todo' = [todo EXCEPT ![t] = s]
    BY DEF wrapper
  <2>2. <<"vms", n>> \in Keys /\ <<"hosts", n>> \in Keys
    BY DEF Keys, Entities
  <2>3. << <<"vms", n>> >> \in Seq(Keys) /\ << <<"hosts", n>> >> \in Seq(Keys)
    BY <2>2
  <2>4. << <<"hosts", n>>, <<"vms", n>> >> \in Seq(Keys)
    BY <2>2
  <2>5. /\ << <<"vms", n>> >> # <<>> /\ << <<"hosts", n>> >> # <<>>
        /\ << <<"hosts", n>>, <<"vms", n>> >> # <<>>
    OBVIOUS
  <2> QED BY <2>1, <2>3, <2>4, <2>5, Zenon
<1>2. /\ pc[t] = "idle" /\ pc' = [pc EXCEPT ![t] = "look_up"]
      /\ fresh' = [fresh EXCEPT ![t] = TRUE]
      /\ UNCHANGED <<clock, addr, moves, cache, lock, stamp, answer, held,
                     since>>
  BY DEF wrapper
<1>3. TypeOK'
  BY <1>1, <1>2 DEF TypeOK
<1>4. LockInv'
  BY <1>2 DEF TypeOK, LockInv
<1>5. TodoInv'
  BY <1>1, <1>2 DEF TypeOK, TodoInv
<1>6. HeldInv' /\ RecordInv'
  BY <1>2 DEF HeldInv, RecordInv
<1>7. FetchInv'
  BY <1>1, <1>2 DEF TypeOK, FetchInv
<1>8. ResetForgets'
  BY <1>1, <1>2 DEF TypeOK, ResetForgets
<1> QED
  BY <1>3, <1>4, <1>5, <1>6, <1>7, <1>8

\* The record is used, or the lock is kept for get_ip.
LEMMA LookUpInv ==
    ASSUME CacheInv, NEW t \in Threads, look_up(t)
    PROVE  CacheInv'
<1> USE DEF CacheInv
<1> DEFINE k == Head(todo[t])
<1>1. /\ pc[t] = "look_up" /\ lock = None
      /\ UNCHANGED <<clock, addr, moves, cache, todo, held, since, fresh>>
  BY DEF look_up
<1>2. k \in Keys /\ todo[t] # <<>>
  BY <1>1 DEF TypeOK, TodoInv
<1>3. HeldInv' /\ RecordInv'
  BY <1>1 DEF HeldInv, RecordInv
<1>4. CASE cache[k].exp < clock
  <2>1. /\ lock' = t
        /\ stamp' = [stamp EXCEPT ![t] = clock]
        /\ pc' = [pc EXCEPT ![t] = "get_ip"]
        /\ UNCHANGED answer
    BY <1>4 DEF look_up
  <2>2. TypeOK'
    BY <1>1, <2>1 DEF TypeOK
  <2>3. LockInv'
    BY <1>1, <2>1, Distinct DEF TypeOK, LockInv
  <2>4. TodoInv'
    BY <1>1, <1>2, <2>1 DEF TypeOK, TodoInv
  <2>5. FetchInv'
    BY <1>1, <2>1 DEF TypeOK, FetchInv
  <2>6. ResetForgets'
    BY <1>1, <2>1 DEF TypeOK, ResetForgets
  <2> QED BY <1>3, <2>2, <2>3, <2>4, <2>5, <2>6
<1>5. CASE ~(cache[k].exp < clock)
  <2>1. /\ answer' = [answer EXCEPT ![t] = cache[k].ip]
        /\ pc' = [pc EXCEPT ![t] = "done"]
        /\ UNCHANGED <<lock, stamp>>
    BY <1>5 DEF look_up
  <2>2. cache[k].exp > 0
    BY <1>2, <1>5 DEF TypeOK
  <2>3. cache[k].ip \in Ips /\ cache[k].ip \in since[k]
    BY <1>2, <2>2 DEF RecordInv
  <2>4. TypeOK'
    BY <1>1, <2>1, <2>3 DEF TypeOK
  <2>5. LockInv'
    BY <1>1, <2>1 DEF TypeOK, LockInv
  <2>6. TodoInv'
    BY <1>1, <1>2, <2>1 DEF TypeOK, TodoInv
  <2>7. FetchInv'
    BY <1>1, <2>1 DEF TypeOK, FetchInv
  <2>8. ResetForgets'
    BY <1>1, <2>1, <2>3 DEF TypeOK, ResetForgets
  <2> QED BY <1>3, <2>4, <2>5, <2>6, <2>7, <2>8
<1> QED
  BY <1>4, <1>5

\* The address is the present one: of now, and of the time since the reset.
LEMMA GetIpInv ==
    ASSUME CacheInv, NEW t \in Threads, get_ip(t)
    PROVE  CacheInv'
<1> USE DEF CacheInv
<1> DEFINE k == Head(todo[t])
<1>1. /\ pc[t] = "get_ip"
      /\ answer' = [answer EXCEPT ![t] = addr[k]]
      /\ pc' = [pc EXCEPT ![t] = "got"]
      /\ UNCHANGED <<clock, addr, moves, cache, lock, todo, stamp,
                     held, since, fresh>>
  BY DEF get_ip
<1>2. k \in Keys /\ todo[t] # <<>> /\ addr[k] \in Ips \cup Nowhere
  BY <1>1 DEF TypeOK, TodoInv
<1>3. TypeOK'
  BY <1>1, <1>2 DEF TypeOK
<1>4. LockInv'
  BY <1>1 DEF TypeOK, LockInv
<1>5. TodoInv'
  BY <1>1, <1>2 DEF TypeOK, TodoInv
<1>6. HeldInv' /\ RecordInv'
  BY <1>1 DEF HeldInv, RecordInv
<1>7. FetchInv'
  BY <1>1, <1>2 DEF TypeOK, FetchInv, HeldInv
<1>8. ResetForgets'
  BY <1>1 DEF TypeOK, ResetForgets
<1> QED
  BY <1>3, <1>4, <1>5, <1>6, <1>7, <1>8

\* The record expires by the time stamp, before which the address was not
\* asked for.
LEMMA StoreInv ==
    ASSUME CacheInv, NEW t \in Threads, store(t)
    PROVE  CacheInv'
<1> USE DEF CacheInv
<1> DEFINE k == Head(todo[t])
<1>1. /\ pc[t] = "got" /\ answer[t] \in Ips
      /\ cache' = [cache EXCEPT ![k] =
                    [ip |-> answer[t], exp |-> stamp[t] + Exp]]
      /\ lock' = None
      /\ stamp' = [stamp EXCEPT ![t] = 0]
      /\ pc' = [pc EXCEPT ![t] = "done"]
      /\ UNCHANGED <<clock, addr, moves, todo, answer, held, since, fresh>>
  BY DEF store
<1>2. k \in Keys /\ todo[t] # <<>>
  BY <1>1 DEF TypeOK, TodoInv
<1>3. /\ answer[t] \in since[k] /\ held[k][answer[t]] >= stamp[t]
      /\ held[k][answer[t]] \in Nat /\ stamp[t] \in Nat
  BY <1>1, <1>2 DEF TypeOK, FetchInv
<1>4. \A u \in Threads \ {t} : pc[u] \notin {"get_ip", "got"}
  BY <1>1 DEF LockInv
<1>5. TypeOK'
  <2>1. [ip |-> answer[t], exp |-> stamp[t] + Exp]
            \in [ip : Ips \cup {None}, exp : Nat]
    BY <1>1, <1>3, Distinct
  <2>2. cache' \in [Keys -> [ip : Ips \cup {None}, exp : Nat]]
    BY <1>1, <1>2, <2>1 DEF TypeOK
  <2> QED BY <1>1, <2>2 DEF TypeOK
<1>6. LockInv' /\ FetchInv'
  BY <1>1, <1>4 DEF TypeOK, LockInv, FetchInv
<1>7. TodoInv'
  BY <1>1, <1>2 DEF TypeOK, TodoInv
<1>8. HeldInv'
  BY <1>1 DEF HeldInv
<1>9. RecordInv'
  <2> SUFFICES ASSUME NEW x \in Keys, cache'[x].exp > 0
               PROVE  /\ cache'[x].ip \in Ips \cap since[x]
                      /\ held[x][cache'[x].ip] + Exp >= cache'[x].exp
    BY <1>1 DEF RecordInv
  <2>1. CASE x = k
    <3>1. cache'[x] = [ip |-> answer[t], exp |-> stamp[t] + Exp]
      BY <1>1, <2>1 DEF TypeOK
    <3> QED BY <1>1, <1>3, <2>1, <3>1, Distinct
  <2>2. CASE x # k
    <3>1. cache'[x] = cache[x]
      BY <1>1, <2>2 DEF TypeOK
    <3> QED BY <3>1 DEF RecordInv
  <2> QED BY <2>1, <2>2
<1>10. ResetForgets'
  BY <1>1, <1>3 DEF TypeOK, ResetForgets
<1> QED
  BY <1>5, <1>6, <1>7, <1>8, <1>9, <1>10

\* The exception gives the lock back and leaves nothing in the cache.
LEMMA LookUpFailsInv ==
    ASSUME CacheInv, NEW t \in Threads, lookUpFails(t)
    PROVE  CacheInv'
<1> USE DEF CacheInv
<1>1. /\ pc[t] = "got" /\ lock' = None
      /\ stamp' = [stamp EXCEPT ![t] = 0]
      /\ todo' = [todo EXCEPT ![t] = Tail(@)]
      /\ UNCHANGED <<clock, addr, moves, cache, held, since, fresh>>
  BY DEF lookUpFails
<1>2. todo[t] # <<>> /\ todo[t] \in Seq(Keys) /\ Tail(todo[t]) \in Seq(Keys)
  BY <1>1 DEF TypeOK, TodoInv
<1>3. \A u \in Threads \ {t} : pc[u] \notin {"get_ip", "got"}
  BY <1>1 DEF LockInv
<1>4. HeldInv' /\ RecordInv'
  BY <1>1 DEF HeldInv, RecordInv
<1>5. CASE answer[t] = "absent" /\ Len(todo[t]) > 1
  <2>1. /\ pc' = [pc EXCEPT ![t] = "look_up"]
        /\ answer' = [answer EXCEPT ![t] = None]
    BY <1>5 DEF lookUpFails
  <2>2. Tail(todo[t]) # <<>>
    <3> DEFINE tl == Tail(todo[t])
    <3>1. Len(tl) = Len(todo[t]) - 1
      BY <1>2, HeadTailProperties
    <3>2. Len(todo[t]) > 1 /\ Len(todo[t]) \in Nat
      BY <1>2, <1>5, LenProperties
    <3> DEFINE m == Len(todo[t])
    <3> HIDE DEF CacheInv, tl, m
    <3>3. Len(tl) = m - 1 /\ m > 1 /\ m \in Nat
      BY <3>1, <3>2 DEF m
    <3>6. Len(tl) # 0
      BY <3>3, SMT
    <3>4. Len(<<>>) = 0
      BY EmptySeq
    <3>5. tl # <<>>
      BY <3>6, <3>4, Zenon
    <3> QED BY <3>5 DEF tl
  <2>3. TypeOK'
    BY <1>1, <1>2, <2>1 DEF TypeOK
  <2>4. LockInv' /\ FetchInv'
    BY <1>1, <1>3, <2>1 DEF TypeOK, LockInv, FetchInv
  <2>5. TodoInv'
    BY <1>1, <2>1, <2>2 DEF TypeOK, TodoInv
  <2>6. ResetForgets'
    BY <1>1, <2>1 DEF TypeOK, ResetForgets
  <2> QED BY <1>4, <2>3, <2>4, <2>5, <2>6
<1>6. CASE ~(answer[t] = "absent" /\ Len(todo[t]) > 1)
  <2>1. /\ pc' = [pc EXCEPT ![t] = "done"]
        /\ answer' = [answer EXCEPT ![t] = "raised"]
    BY <1>6 DEF lookUpFails
  <2>2. TypeOK'
    BY <1>1, <1>2, <2>1 DEF TypeOK
  <2>3. LockInv' /\ FetchInv'
    BY <1>1, <1>3, <2>1 DEF TypeOK, LockInv, FetchInv
  <2>4. TodoInv'
    BY <1>1, <2>1, Distinct DEF TypeOK, TodoInv
  <2>5. ResetForgets'
    BY <1>1, <2>1, Distinct DEF TypeOK, ResetForgets
  <2> QED BY <1>4, <2>2, <2>3, <2>4, <2>5
<1> QED
  BY <1>5, <1>6

\* The call returns.
LEMMA FuncReturnsInv ==
    ASSUME CacheInv, NEW t \in Threads, funcReturns(t)
    PROVE  CacheInv'
<1> USE DEF CacheInv
<1>1. /\ pc[t] = "done" /\ pc' = [pc EXCEPT ![t] = "idle"]
      /\ todo' = [todo EXCEPT ![t] = <<>>]
      /\ answer' = [answer EXCEPT ![t] = None]
      /\ fresh' = [fresh EXCEPT ![t] = FALSE]
      /\ UNCHANGED <<clock, addr, moves, cache, lock, stamp, held, since>>
  BY DEF funcReturns
<1>2. TypeOK'
  BY <1>1 DEF TypeOK
<1>3. LockInv' /\ TodoInv'
  BY <1>1 DEF TypeOK, LockInv, TodoInv
<1>4. HeldInv' /\ RecordInv'
  BY <1>1 DEF HeldInv, RecordInv
<1>5. FetchInv' /\ ResetForgets'
  BY <1>1 DEF TypeOK, FetchInv, ResetForgets
<1> QED
  BY <1>2, <1>3, <1>4, <1>5

\* A reset waits for the lock, so nobody brings an address of before it.
LEMMA ResetInv ==
    ASSUME CacheInv, NEW t \in Threads, reset_cache(t)
    PROVE  CacheInv'
<1> USE DEF CacheInv
<1>1. PICK ks \in {Keys, {"vms"} \X Names, {"hosts"} \X Names} :
        /\ cache' = [k \in Keys |-> IF k \in ks THEN NoRecord ELSE cache[k]]
        /\ since' = [k \in Keys |-> IF k \in ks THEN {addr[k]} ELSE since[k]]
  BY DEF reset_cache
<1>2. /\ lock = None
      /\ fresh' = [u \in Threads |-> FALSE]
      /\ UNCHANGED <<clock, addr, moves, lock, pc, todo, stamp, answer, held>>
  BY DEF reset_cache
<1>3. \A u \in Threads : pc[u] \notin {"get_ip", "got"}
  BY <1>2, Distinct DEF LockInv
<1>4. NoRecord \in [ip : Ips \cup {None}, exp : Nat] /\ NoRecord.exp = 0
  BY DEF NoRecord
<1>5. TypeOK'
  BY <1>1, <1>2, <1>4 DEF TypeOK
<1>6. LockInv' /\ TodoInv'
  BY <1>2 DEF LockInv, TodoInv
<1>7. HeldInv'
  BY <1>1, <1>2 DEF HeldInv
<1>8. FetchInv'
  BY <1>2, <1>3 DEF FetchInv
<1>9. RecordInv'
  BY <1>1, <1>2, <1>4 DEF RecordInv
<1>10. ResetForgets'
  BY <1>2 DEF ResetForgets
<1> QED
  BY <1>5, <1>6, <1>7, <1>8, <1>9, <1>10

\* Every step keeps the invariant.
LEMMA NextInv == CacheInv /\ [Next]_vars => CacheInv'
<1> SUFFICES ASSUME CacheInv, [Next]_vars PROVE CacheInv'
  OBVIOUS
<1>1. CASE UNCHANGED vars
  BY <1>1 DEF vars, CacheInv, TypeOK, LockInv, TodoInv, HeldInv, FetchInv,
              RecordInv, ResetForgets
<1>2. ASSUME NEW t \in Threads, wrapper(t) \/ Step(t) \/ reset_cache(t)
      PROVE  CacheInv'
  BY <1>2, WrapperInv, LookUpInv, GetIpInv, StoreInv, LookUpFailsInv,
     FuncReturnsInv, ResetInv DEF Step
<1>3. ASSUME NEW k \in Keys, move(k) PROVE CacheInv'
  BY <1>3, MoveInv
<1>4. CASE tick
  BY <1>4, TickInv
<1> QED
  BY <1>1, <1>2, <1>3, <1>4 DEF Next

\* The cache, its lock and the threads in look_up agree in every state.
THEOREM CacheInvariance == Spec => []CacheInv
BY InitInv, NextInv, PTL DEF Spec

\* After resetName2IpCache no call that begins later answers an address that
\* the entity had lost before the reset, for any number of threads.
THEOREM ResetCorrect == Spec => []ResetForgets
<1>1. CacheInv => ResetForgets
  BY DEF CacheInv
<1> QED
  BY <1>1, CacheInvariance, PTL

\* An address that is taken from the cache was true no longer than cache_exp
\* ago, for any cache_exp and however long get_ip took.
THEOREM AgeCorrect == Spec => NotTooOld
<1>1. ASSUME CacheInv, [Next]_vars, NEW t \in Threads,
             pc[t] = "look_up", pc'[t] = "done"
      PROVE  held[Head(todo[t])][answer'[t]] + Exp >= clock
  <2> DEFINE k == Head(todo[t])
  <2>1. k \in Keys
    BY <1>1 DEF CacheInv, TypeOK, TodoInv
  <2>2. look_up(t)
    <3>1. pc'[t] # pc[t]
      BY <1>1
    <3>2. pc \in [Threads -> {"idle", "look_up", "get_ip", "got", "done"}]
      BY <1>1 DEF CacheInv, TypeOK
    <3>3. ASSUME NEW u \in Threads,
                 wrapper(u) \/ Step(u) \/ reset_cache(u)
          PROVE  look_up(t)
      BY <1>1, <3>1, <3>2, <3>3 DEF wrapper, Step, look_up, get_ip, store,
         lookUpFails, funcReturns, reset_cache
    <3>4. \A x \in Keys : ~move(x)
      BY <3>1 DEF move
    <3>5. ~tick /\ ~UNCHANGED vars
      BY <3>1 DEF tick, vars
    <3> QED BY <1>1, <3>3, <3>4, <3>5 DEF Next
  <2>3. ~(cache[k].exp < clock) /\ answer' = [answer EXCEPT ![t] = cache[k].ip]
    BY <1>1, <2>2 DEF look_up, CacheInv, TypeOK
  <2>4. /\ cache[k].exp \in Nat /\ clock \in Nat \ {0}
        /\ answer'[t] = cache[k].ip
    BY <1>1, <2>1, <2>3 DEF CacheInv, TypeOK
  <2>5. /\ cache[k].ip \in Ips
        /\ held[k][cache[k].ip] + Exp >= cache[k].exp
    BY <1>1, <2>1, <2>3, <2>4 DEF CacheInv, RecordInv
  <2>6. held[k][cache[k].ip] \in Nat
    BY <1>1, <2>1, <2>5 DEF CacheInv, TypeOK
  <2> QED BY <2>3, <2>4, <2>5, <2>6, Distinct
<1>2. CacheInv /\ [Next]_vars =>
        [\A t \in Threads :
            pc[t] = "look_up" /\ pc'[t] = "done" =>
                held[Head(todo[t])][answer'[t]] + Exp >= clock]_vars
  BY <1>1
<1> QED
  BY <1>2, CacheInvariance, PTL DEF Spec, NotTooOld
=============================================================================
