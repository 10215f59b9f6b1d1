----------------------------- MODULE NameCache -----------------------------
(***************************************************************************)
(* name2ip.py: functions that take an address accept the name of a VM or   *)
(* of a host instead.  The decorators LookUpVMIpByName, LookUpHostIpByName *)
(* and name2ip look the address up, in one cache (a ThreadSafeDict with    *)
(* its lock) that all decorated functions of all threads share.            *)
(*                                                                         *)
(* A key is <<entity, name>>.  The engine (external) says of each key its  *)
(* address, "unreported" for a VM whose guest agent has reported none and  *)
(* whose lease was not caught, or "absent" when there is no such entity or *)
(* it has no NIC.                                                          *)
(***************************************************************************)
EXTENDS Naturals, Sequences

CONSTANTS
    Threads,
    Names,
    Ips,
    None,       \* Python's None; the lock is free
    Exp,        \* cache_exp
    MaxTime,    \* bound: the clock
    MaxMoves    \* bound: changes of addresses

ASSUME NameCacheAssumption ==
    /\ None \notin Threads \cup Ips
    /\ {"unreported", "absent", "raised"} \cap Ips = {}
    /\ Exp \in Nat
    /\ MaxTime \in Nat
    /\ MaxMoves \in Nat

Entities == {"vms", "hosts"}
Keys == Entities \X Names
Nowhere == {"unreported", "absent"}
Places(k) == Ips \cup (IF k[1] = "vms" THEN Nowhere ELSE {"absent"})

VARIABLES
    clock,
    addr,       \* engine: the address of each key
    moves,      \* changes of addr so far
    cache,      \* LookUpIpByEntityName.cache: its records
    lock,       \* holder of ThreadSafeDict._lock
    pc,
    todo,       \* keys of the resolvers that are left to try
    stamp,      \* time_stmp of look_up
    answer,     \* the address, or "raised"
    \* history
    held,       \* when each key had each address last (0: never yet)
    since,      \* the addresses each key had since the last reset_cache
    fresh       \* no reset_cache has ended since the call began

vars == <<clock, addr, moves, cache, lock, pc, todo, stamp, answer,
          held, since, fresh>>

NoRecord == [ip |-> None, exp |-> 0]

\* The addresses and when they were last true, at time t.
HeldAt(h, a, t) ==
    [k \in Keys |-> [i \in Ips |-> IF a[k] = i THEN t ELSE h[k][i]]]

Init ==
    /\ clock = 1
    /\ addr \in [Keys -> Ips \cup Nowhere]
    /\ \A k \in Keys : addr[k] \in Places(k)
    /\ moves = 0
    /\ cache = [k \in Keys |-> NoRecord]
    /\ lock = None
    /\ pc = [t \in Threads |-> "idle"]
    /\ todo = [t \in Threads |-> <<>>]
    /\ stamp = [t \in Threads |-> 0]
    /\ answer = [t \in Threads |-> None]
    /\ held = HeldAt([k \in Keys |-> [i \in Ips |-> 0]], addr, 1)
    /\ since = [k \in Keys |-> {addr[k]}]
    /\ fresh = [t \in Threads |-> FALSE]

-----------------------------------------------------------------------------
(* The engine and the time (external) *)

\* A VM is started again with another address, a host is removed...
move(k) ==
    /\ moves < MaxMoves
    /\ \E a \in Places(k) \ {addr[k]} :
        /\ addr' = [addr EXCEPT ![k] = a]
        /\ since' = [since EXCEPT ![k] = @ \cup {a}]
        /\ held' = HeldAt(held, addr', clock)
    /\ moves' = moves + 1
    /\ UNCHANGED <<clock, cache, lock, pc, todo, stamp, answer, fresh>>

tick ==
    /\ clock < MaxTime
    /\ clock' = clock + 1
    /\ held' = HeldAt(held, addr, clock')
    /\ UNCHANGED <<addr, moves, cache, lock, pc, todo, stamp, answer,
                   since, fresh>>

-----------------------------------------------------------------------------
(* wrapper and name2ip.look_up: the resolvers to try, in the order of the  *)
(* dictionary ENTITY (hosts first, by the hashes of Python 2); a name with *)
(* a prefix, and the classes that know their entity, try one.              *)

wrapper(t) ==
    /\ pc[t] = "idle"
    /\ \E n \in Names :
        \E s \in {<< <<"vms", n>> >>, << <<"hosts", n>> >>,
                  << <<"hosts", n>>, <<"vms", n>> >>} :
            todo' = [todo EXCEPT ![t] = s]
    /\ pc' = [pc EXCEPT ![t] = "look_up"]
    /\ fresh' = [fresh EXCEPT ![t] = TRUE]
    /\ UNCHANGED <<clock, addr, moves, cache, lock, stamp, answer, held, since>>

\* look_up as far as `if cache_rec['exp'] < time_stmp`; the lock is taken.
look_up(t) ==
    /\ pc[t] = "look_up"
    /\ lock = None
    /\ LET rec == cache[Head(todo[t])]
       IN IF rec.exp < clock
          THEN /\ lock' = t
               /\ stamp' = [stamp EXCEPT ![t] = clock]
               /\ pc' = [pc EXCEPT ![t] = "get_ip"]
               /\ UNCHANGED answer
          ELSE /\ answer' = [answer EXCEPT ![t] = rec.ip]
               /\ pc' = [pc EXCEPT ![t] = "done"]
               /\ UNCHANGED <<lock, stamp>>
    /\ UNCHANGED <<clock, addr, moves, cache, todo, held, since, fresh>>

\* get_ip: the request, then (VM without address) the wait for a lease.  The
\* address is the engine's of this moment.
get_ip(t) ==
    /\ pc[t] = "get_ip"
    /\ answer' = [answer EXCEPT ![t] = addr[Head(todo[t])]]
    /\ pc' = [pc EXCEPT ![t] = "got"]
    /\ UNCHANGED <<clock, addr, moves, cache, lock, todo, stamp,
                   held, since, fresh>>

\* Mutant: a failed look up is stored too.
storeAny(t) ==
    /\ pc[t] = "got"
    /\ cache' = [cache EXCEPT ![Head(todo[t])] =
                    [ip |-> answer[t], exp |-> stamp[t] + Exp]]
    /\ lock' = None
    /\ stamp' = [stamp EXCEPT ![t] = 0]
    /\ pc' = [pc EXCEPT ![t] = "done"]
    /\ UNCHANGED <<clock, addr, moves, todo, answer, held, since, fresh>>

\* Mutant: the record expires cache_exp after it is stored.
storeLate(t) ==
    /\ pc[t] = "got"
    /\ answer[t] \in Ips
    /\ cache' = [cache EXCEPT ![Head(todo[t])] =
                    [ip |-> answer[t], exp |-> clock + Exp]]
    /\ lock' = None
    /\ stamp' = [stamp EXCEPT ![t] = 0]
    /\ pc' = [pc EXCEPT ![t] = "done"]
    /\ UNCHANGED <<clock, addr, moves, todo, answer, held, since, fresh>>

\* The record is stored, and __exit__ releases the lock.
store(t) ==
    /\ pc[t] = "got"
    /\ answer[t] \in Ips
    /\ cache' = [cache EXCEPT ![Head(todo[t])] =
                    [ip |-> answer[t], exp |-> stamp[t] + Exp]]
    /\ lock' = None
    /\ stamp' = [stamp EXCEPT ![t] = 0]
    /\ pc' = [pc EXCEPT ![t] = "done"]
    /\ UNCHANGED <<clock, addr, moves, todo, answer, held, since, fresh>>

\* Mutant: the exception leaves with the lock held.
lookUpFailsHeld(t) ==
    /\ pc[t] = "got"
    /\ answer[t] \in Nowhere
    /\ pc' = [pc EXCEPT ![t] = "done"]
    /\ answer' = [answer EXCEPT ![t] = "raised"]
    /\ UNCHANGED <<clock, addr, moves, cache, lock, todo, stamp, held, since,
                   fresh>>

\* IpLookUpError or EntityNotFound: the lock is released and the next resolver
\* is tried; without a next one, or when it is CanNotFindIP (no lease), the
\* exception leaves the wrapper.
lookUpFails(t) ==
    /\ pc[t] = "got"
    /\ answer[t] \in Nowhere
    /\ lock' = None
    /\ stamp' = [stamp EXCEPT ![t] = 0]
    /\ todo' = [todo EXCEPT ![t] = Tail(@)]
    /\ IF answer[t] = "absent" /\ Len(todo[t]) > 1
       THEN /\ pc' = [pc EXCEPT ![t] = "look_up"]
            /\ answer' = [answer EXCEPT ![t] = None]
       ELSE /\ pc' = [pc EXCEPT ![t] = "done"]
            /\ answer' = [answer EXCEPT ![t] = "raised"]
    /\ UNCHANGED <<clock, addr, moves, cache, held, since, fresh>>

\* The decorated function runs with the address.
funcReturns(t) ==
    /\ pc[t] = "done"
    /\ pc' = [pc EXCEPT ![t] = "idle"]
    /\ todo' = [todo EXCEPT ![t] = <<>>]
    /\ answer' = [answer EXCEPT ![t] = None]
    /\ fresh' = [fresh EXCEPT ![t] = FALSE]
    /\ UNCHANGED <<clock, addr, moves, cache, lock, stamp, held, since>>

\* Mutant: the records are dropped without the lock.
reset_cacheUnlocked(t) ==
    /\ pc[t] = "idle"
    /\ cache' = [k \in Keys |-> NoRecord]
    /\ since' = [k \in Keys |-> {addr[k]}]
    /\ fresh' = [u \in Threads |-> FALSE]
    /\ UNCHANGED <<clock, addr, moves, lock, pc, todo, stamp, answer, held>>

\* resetName2IpCache: the records that match, under the lock.
reset_cache(t) ==
    /\ pc[t] = "idle"
    /\ lock = None
    /\ \E ks \in {Keys, {"vms"} \X Names, {"hosts"} \X Names} :
        /\ cache' = [k \in Keys |-> IF k \in ks THEN NoRecord ELSE cache[k]]
        /\ since' = [k \in Keys |-> IF k \in ks THEN {addr[k]} ELSE since[k]]
    /\ fresh' = [u \in Threads |-> FALSE]
    /\ UNCHANGED <<clock, addr, moves, lock, pc, todo, stamp, answer, held>>

-----------------------------------------------------------------------------

Step(t) ==
    \/ look_up(t) \/ get_ip(t) \/ store(t) \/ lookUpFails(t) \/ funcReturns(t)

Next ==
    \/ \E t \in Threads : wrapper(t) \/ Step(t) \/ reset_cache(t)
    \/ \E k \in Keys : move(k)
    \/ tick

\* Requests are answered and waits for leases end; a thread that waits for
\* the lock gets it if it is free again and again.
Fairness ==
    \A t \in Threads :
        /\ WF_vars(get_ip(t) \/ store(t) \/ lookUpFails(t) \/ funcReturns(t))
        /\ SF_vars(look_up(t))

Spec == Init /\ [][Next]_vars /\ Fairness

-----------------------------------------------------------------------------
(* Properties *)

TypeOK ==
    /\ clock \in Nat \ {0}
    /\ addr \in [Keys -> Ips \cup Nowhere]
    /\ moves \in Nat
    /\ cache \in [Keys -> [ip : Ips \cup {None}, exp : Nat]]
    /\ lock \in Threads \cup {None}
    /\ pc \in [Threads -> {"idle", "look_up", "get_ip", "got", "done"}]
    /\ todo \in [Threads -> Seq(Keys)]
    /\ stamp \in [Threads -> Nat]
    /\ answer \in [Threads -> Ips \cup Nowhere \cup {None, "raised"}]
    /\ held \in [Keys -> [Ips -> Nat]]
    /\ since \in [Keys -> SUBSET (Ips \cup Nowhere)]
    /\ fresh \in [Threads -> BOOLEAN]

\* An address that look_up takes from the cache was the address of the entity
\* at a moment that is no longer ago than cache_exp: a slow get_ip does not
\* make the record live longer, whatever other threads do meanwhile.
NotTooOld ==
    [][\A t \in Threads :
        pc[t] = "look_up" /\ pc'[t] = "done" =>
            held[Head(todo[t])][answer'[t]] + Exp >= clock]_vars

\* After resetName2IpCache a call never answers an address that the entity
\* had lost before the reset, although another thread may have been in the
\* middle of its get_ip when the reset was asked for.
ResetForgets ==
    \A t \in Threads :
        pc[t] = "done" /\ fresh[t] /\ answer[t] \in Ips =>
            answer[t] \in since[Head(todo[t])]

\* The lock is held during requests and waits, and is released when they
\* fail: every call ends.
LookUpsReturn ==
    \A t \in Threads : (pc[t] # "idle") ~> (pc[t] = "idle")

-----------------------------------------------------------------------------
(* The inductive invariant *)

\* A thread between look_up and the end of `with self.cache` has the lock.
LockInv ==
    \A t \in Threads : pc[t] \in {"get_ip", "got"} => lock = t

\* A thread that looks up, or has found an address, knows for which key.
TodoInv ==
    \A t \in Threads :
        \/ pc[t] \in {"look_up", "get_ip", "got"}
        \/ pc[t] = "done" /\ answer[t] \in Ips
        => todo[t] # <<>>

\* The engine: what an address was last is not in the future, and the present
\* address is of now and of the time since the reset.
HeldInv ==
    \A k \in Keys :
        /\ addr[k] \in since[k]
        /\ addr[k] \in Ips => held[k][addr[k]] = clock
        /\ \A i \in Ips : held[k][i] <= clock

\* What get_ip brought was true after the time stamp and after the reset.
FetchInv ==
    \A t \in Threads :
        /\ pc[t] \in {"get_ip", "got"} => stamp[t] <= clock
        /\ pc[t] = "got" /\ answer[t] \in Ips =>
            /\ answer[t] \in since[Head(todo[t])]
            /\ held[Head(todo[t])][answer[t]] >= stamp[t]

\* So is a record of the cache, which expires cache_exp after a moment at
\* which it was true.
RecordInv ==
    \A k \in Keys : cache[k].exp > 0 =>
        /\ cache[k].ip \in Ips \cap since[k]
        /\ held[k][cache[k].ip] + Exp >= cache[k].exp

\* All that the cache, the lock and the threads in look_up know of each
\* other, also when get_ip raises: from it follow ResetForgets and NotTooOld.
CacheInv ==
    /\ TypeOK /\ LockInv /\ TodoInv /\ HeldInv /\ FetchInv /\ RecordInv
    /\ ResetForgets
=============================================================================
