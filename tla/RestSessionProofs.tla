------------------------- MODULE RestSessionProofs -------------------------
(***************************************************************************)
(* Proofs about RestSession for any threads, users, elements, proxies and  *)
(* sessions: who a call is executed as, how often, and whether it is       *)
(* refused.                                                                *)
(***************************************************************************)
EXTENDS RestSession, TLAPS

(* The invariant holds initially.                                          *)
LEMMA InitSessionInv == Init => SessionInv
<1> SUFFICES ASSUME Init PROVE SessionInv
  OBVIOUS
<1> USE SessionAssumption DEF Init
<1>1. TypeOK
  BY DEF TypeOK, PC, NoHeader
<1>2. PlaceInv /\ OnceInv /\ DoneInv
  BY DEF PlaceInv, OnceInv, DoneInv, NoHeader
<1>3. ConfigInv /\ OwnInv /\ RightUser
  BY DEF ConfigInv, OwnInv, RightUser, NoHeader
<1>4. AloneInv
  BY DEF AloneInv
<1>5. QED
  BY <1>1, <1>2, <1>3, <1>4 DEF SessionInv

(* A thread that has a request under way has a proxy.                      *)
LEMMA HeldProxy ==
    ASSUME SessionInv, NEW t \in Threads, pc[t] \notin {"idle", "lock"}
    PROVE  /\ api[t] \in Proxies
           /\ cookie[api[t]] \in Sessions \cup {None}
           /\ pfilter[api[t]] \in Users \cup {None}
<1>1. api[t] \in Proxies
  BY DEF SessionInv, PlaceInv
<1>2. QED
  BY <1>1 DEF SessionInv, TypeOK

(* The variables keep their types. *)
LEMMA TypeStep ==
    ASSUME SessionInv, [Next]_vars
    PROVE  TypeOK'
<1> USE DEF SessionInv, TypeOK, PC, NoHeader, cfgVars, utilVars, proxyVars, engineVars, swVars, reqVars,
           callHistory
<1>1. ASSUME NEW t \in Threads, NEW e \in Elements, Call(t, e) PROVE TypeOK'
    BY <1>1 DEF Call
<1>2. ASSUME NEW t \in Threads, CacheHit(t) PROVE TypeOK'
    BY <1>2 DEF CacheHit, Request, Forget, PlaceInv
<1>3. ASSUME NEW t \in Threads, LoginShared(t) PROVE TypeOK'
    BY <1>3 DEF LoginShared, Request, Forget
<1>4. ASSUME NEW t \in Threads, LoginNew(t) PROVE TypeOK'
    BY <1>4 DEF LoginNew, Request, Forget
<1>5. ASSUME NEW t \in Threads, TestCookie(t) PROVE TypeOK'
    BY <1>5 DEF TestCookie
<1>6. ASSUME NEW t \in Threads, BuildHeader(t) PROVE TypeOK'
  <2>1. cookie[api[t]] \in Sessions \cup {None} /\ user \in Users
    BY <1>6, HeldProxy DEF BuildHeader
  <2>2. hdr' \in [Threads -> [kind : {"none", "cookie", "auth"},
                            val : Sessions \cup Users \cup {None}]]
    <3>1. CASE useCookie[t]
      BY <1>6, <2>1, <3>1 DEF BuildHeader
    <3>2. CASE ~useCookie[t]
      BY <1>6, <2>1, <3>2 DEF BuildHeader
    <3>3. QED
      BY <3>1, <3>2
  <2>3. QED
    BY <1>6, <2>2 DEF BuildHeader
<1>7. ASSUME NEW t \in Threads, Answer(t) PROVE TypeOK'
  <2>1. /\ pc' \in [Threads -> PC] /\ status' \in [Threads -> {0, 200, 401, 500}]
        /\ hdr[t].val \in Sessions \cup Users \cup {None}
    BY <1>7 DEF Answer
  <2>2. /\ ident' \in [Threads -> Users \cup {None}]
        /\ hfilter' \in [Threads -> Users \cup {None}]
        /\ execs' \in [Threads -> 0..2]
    <3>1. Identity(hdr[t]) \in Users \cup {None}
      BY <1>7 DEF Answer, Accepted, Identity, PlaceInv
    <3>2. pfilter[api[t]] \in Users \cup {None}
      BY <1>7, HeldProxy DEF Answer
    <3>3. CASE UNCHANGED <<ident, hfilter, execs>>
      BY <3>3
    <3>4. CASE /\ ident' = [ident EXCEPT ![t] = Identity(hdr[t])]
               /\ hfilter' = [hfilter EXCEPT ![t] = pfilter[api[t]]]
               /\ execs' = [execs EXCEPT ![t] = IF @ < 2 THEN @ + 1 ELSE @]
      BY <3>1, <3>2, <3>4
    <3>5. QED
      BY <1>7, <3>3, <3>4 DEF Answer
  <2>3. /\ live' \subseteq Sessions
        /\ owner' \in [Sessions -> Users \cup {None}]
        /\ setc' \in [Threads -> Sessions \cup {None}]
    <3>1. CASE hdr[t].kind = "auth"
      <4>1. PICK s \in Sessions : /\ live' = live \cup {s}
                                 /\ owner' = [owner EXCEPT ![s] = hdr[t].val]
                                 /\ setc' = [setc EXCEPT ![t] = s]
        BY <1>7, <3>1 DEF Answer
      <4>2. hdr[t].val \in Users
        BY <3>1 DEF PlaceInv
      <4>3. QED
        BY <4>1, <4>2
    <3>2. CASE hdr[t].kind # "auth"
      <4>1. /\ live' = live /\ owner' = owner
            /\ setc' = [setc EXCEPT ![t] = None]
        BY <1>7, <3>2 DEF Answer, engineVars
      <4>2. QED
        BY <4>1
    <3>3. QED
      BY <3>1, <3>2
  <2>4. QED
    BY <1>7, <2>1, <2>2, <2>3 DEF Answer
<1>8. ASSUME NEW t \in Threads, Refuse(t) PROVE TypeOK'
    BY <1>8 DEF Refuse
<1>9. ASSUME NEW t \in Threads, StoreCookie(t) PROVE TypeOK'
  <2>1. setc[t] \in Sessions \cup {None}
    OBVIOUS
  <2>2. cookie' \in [Proxies -> Sessions \cup {None}]
    BY <1>9, <2>1 DEF StoreCookie
  <2>3. pc' \in [Threads -> PC]
    BY <1>9 DEF StoreCookie
  <2>4. QED
    BY <1>9, <2>2, <2>3 DEF StoreCookie
<1>10. ASSUME NEW t \in Threads, StoreUser(t) PROVE TypeOK'
    BY <1>10 DEF StoreUser
<1>11. ASSUME NEW t \in Threads, Reconnect(t) PROVE TypeOK'
    BY <1>11 DEF Reconnect, Forget
<1>12. ASSUME NEW t \in Threads, ConnectCookie(t) PROVE TypeOK'
    BY <1>12 DEF ConnectCookie
<1>13. ASSUME NEW t \in Threads, ConnectUser(t) PROVE TypeOK'
  <2>1. /\ lastUser' \in [Proxies -> Users \cup {None}]
        /\ api[t] \in Proxies
    BY <1>13, HeldProxy DEF ConnectUser
  <2>2. op' \in [Threads -> {"none", "connect", "links", "call"}]
    BY <1>13 DEF ConnectUser, Request, Forget
  <2>3. repeat' \in [Threads -> BOOLEAN] /\ nested' \in [Threads -> BOOLEAN]
    <3>1. repeat' = [repeat EXCEPT ![t] = ~nested[t]] /\ (~nested[t]) \in BOOLEAN
      BY <1>13 DEF ConnectUser, Request, Forget
    <3>2. QED
      BY <1>13, <3>1 DEF ConnectUser, Request, Forget
  <2>4. QED
    BY <1>13, <2>1, <2>2, <2>3 DEF ConnectUser, Request, Forget
<1>14. ASSUME NEW t \in Threads, LoggedIn(t) PROVE TypeOK'
    BY <1>14 DEF LoggedIn, Last, Request, Forget, PlaceInv
<1>15. ASSUME NEW t \in Threads, LoginError(t) PROVE TypeOK'
    BY <1>15 DEF LoginError, Last, Return, Forget
<1>16. ASSUME NEW t \in Threads, CallReturn(t) PROVE TypeOK'
    BY <1>16 DEF CallReturn, Last, Return, Forget
<1>23. ASSUME NEW t \in Threads, RequestRaises(t) PROVE TypeOK'
    BY <1>23 DEF RequestRaises, Return, Forget
<1>17. ASSUME NEW u \in Users, SwitchLogoff(u) PROVE TypeOK'
    BY <1>17 DEF SwitchLogoff
<1>18. CASE SwitchFilter
    BY <1>18 DEF SwitchFilter, PlaceInv
<1>19. CASE SwitchUser
    BY <1>19 DEF SwitchUser, PlaceInv
<1>20. ASSUME NEW s \in Sessions, Expire(s) PROVE TypeOK'
    BY <1>20 DEF Expire
<1>21. CASE UNCHANGED vars
    BY <1>21 DEF vars
<1>22. QED
    BY <1>1, <1>2, <1>3, <1>4, <1>5, <1>6, <1>7, <1>8, <1>9, <1>10, <1>11,
       <1>12, <1>13, <1>14, <1>15, <1>16, <1>17, <1>18, <1>19, <1>20, <1>21, <1>23
       DEF Next, Step

(* A thread keeps hold of what its call needs. *)
LEMMA PlaceStep ==
    ASSUME SessionInv, [Next]_vars
    PROVE  PlaceInv'
<1> USE DEF SessionInv, TypeOK, PlaceInv, NoHeader, cfgVars, utilVars, proxyVars, engineVars, swVars, reqVars,
           callHistory
<1>1. ASSUME NEW t \in Threads, NEW e \in Elements, Call(t, e) PROVE PlaceInv'
    BY <1>1 DEF Call
<1>2. ASSUME NEW t \in Threads, CacheHit(t) PROVE PlaceInv'
    BY <1>2, SessionAssumption DEF CacheHit, Request, Forget, PC
<1>3. ASSUME NEW t \in Threads, LoginShared(t) PROVE PlaceInv'
    BY <1>3, SessionAssumption DEF LoginShared, Request, Forget, PC
<1>4. ASSUME NEW t \in Threads, LoginNew(t) PROVE PlaceInv'
    BY <1>4, SessionAssumption DEF LoginNew, Request, Forget, PC
<1>5. ASSUME NEW t \in Threads, TestCookie(t) PROVE PlaceInv'
    BY <1>5 DEF TestCookie
<1>6. ASSUME NEW t \in Threads, BuildHeader(t) PROVE PlaceInv'
  <2>1. cookie[api[t]] \in Sessions \cup {None} /\ user \in Users
    BY <1>6, HeldProxy DEF BuildHeader
  <2>2. /\ hdr'[t].kind = "auth" => hdr'[t].val \in Users
        /\ hdr'[t].kind = "cookie" => hdr'[t].val \in Sessions \cup {None}
    BY <1>6, <2>1 DEF BuildHeader
  <2>3. \A v \in Threads : v # t => hdr'[v] = hdr[v]
    BY <1>6 DEF BuildHeader
  <2>4. QED
    BY <1>6, <2>2, <2>3 DEF BuildHeader
<1>7. ASSUME NEW t \in Threads, Answer(t) PROVE PlaceInv'
    BY <1>7 DEF Answer
<1>8. ASSUME NEW t \in Threads, Refuse(t) PROVE PlaceInv'
    BY <1>8 DEF Refuse
<1>9. ASSUME NEW t \in Threads, StoreCookie(t) PROVE PlaceInv'
    BY <1>9 DEF StoreCookie
<1>10. ASSUME NEW t \in Threads, StoreUser(t) PROVE PlaceInv'
    BY <1>10 DEF StoreUser
<1>11. ASSUME NEW t \in Threads, Reconnect(t) PROVE PlaceInv'
    BY <1>11 DEF Reconnect, Forget
<1>12. ASSUME NEW t \in Threads, ConnectCookie(t) PROVE PlaceInv'
    BY <1>12 DEF ConnectCookie
<1>13. ASSUME NEW t \in Threads, ConnectUser(t) PROVE PlaceInv'
    BY <1>13, SessionAssumption DEF ConnectUser, Request, Forget, PC
<1>14. ASSUME NEW t \in Threads, LoggedIn(t) PROVE PlaceInv'
    BY <1>14 DEF LoggedIn, Last, Request, Forget
<1>15. ASSUME NEW t \in Threads, LoginError(t) PROVE PlaceInv'
    BY <1>15 DEF LoginError, Last, Return, Forget
<1>16. ASSUME NEW t \in Threads, CallReturn(t) PROVE PlaceInv'
    BY <1>16 DEF CallReturn, Last, Return, Forget
<1>23. ASSUME NEW t \in Threads, RequestRaises(t) PROVE PlaceInv'
    BY <1>23 DEF RequestRaises, Return, Forget
<1>17. ASSUME NEW u \in Users, SwitchLogoff(u) PROVE PlaceInv'
    BY <1>17 DEF SwitchLogoff
<1>18. CASE SwitchFilter
    BY <1>18 DEF SwitchFilter
<1>19. CASE SwitchUser
    BY <1>19 DEF SwitchUser
<1>20. ASSUME NEW s \in Sessions, Expire(s) PROVE PlaceInv'
    BY <1>20 DEF Expire
<1>21. CASE UNCHANGED vars
    BY <1>21 DEF vars
<1>22. QED
    BY <1>1, <1>2, <1>3, <1>4, <1>5, <1>6, <1>7, <1>8, <1>9, <1>10, <1>11,
       <1>12, <1>13, <1>14, <1>15, <1>16, <1>17, <1>18, <1>19, <1>20, <1>21, <1>23
       DEF Next, Step

(* An executed call is answered and not sent again. *)
LEMMA OnceStep ==
    ASSUME SessionInv, [Next]_vars
    PROVE  OnceInv'
<1> USE DEF SessionInv, TypeOK, OnceInv, cfgVars, utilVars, proxyVars, engineVars, swVars, reqVars,
           callHistory
<1>1. ASSUME NEW t \in Threads, NEW e \in Elements, Call(t, e) PROVE OnceInv'
    BY <1>1 DEF Call
<1>2. ASSUME NEW t \in Threads, CacheHit(t) PROVE OnceInv'
    BY <1>2 DEF CacheHit, Request, Forget
<1>3. ASSUME NEW t \in Threads, LoginShared(t) PROVE OnceInv'
    BY <1>3 DEF LoginShared, Request, Forget
<1>4. ASSUME NEW t \in Threads, LoginNew(t) PROVE OnceInv'
    BY <1>4 DEF LoginNew, Request, Forget
<1>5. ASSUME NEW t \in Threads, TestCookie(t) PROVE OnceInv'
    BY <1>5 DEF TestCookie
<1>6. ASSUME NEW t \in Threads, BuildHeader(t) PROVE OnceInv'
    BY <1>6 DEF BuildHeader
<1>7. ASSUME NEW t \in Threads, Answer(t) PROVE OnceInv'
    BY <1>7 DEF Answer
<1>8. ASSUME NEW t \in Threads, Refuse(t) PROVE OnceInv'
    BY <1>8 DEF Refuse
<1>9. ASSUME NEW t \in Threads, StoreCookie(t) PROVE OnceInv'
    BY <1>9 DEF StoreCookie
<1>10. ASSUME NEW t \in Threads, StoreUser(t) PROVE OnceInv'
    BY <1>10 DEF StoreUser
<1>11. ASSUME NEW t \in Threads, Reconnect(t) PROVE OnceInv'
    BY <1>11 DEF Reconnect, Forget, MayRepeat
<1>12. ASSUME NEW t \in Threads, ConnectCookie(t) PROVE OnceInv'
    BY <1>12 DEF ConnectCookie
<1>13. ASSUME NEW t \in Threads, ConnectUser(t) PROVE OnceInv'
    BY <1>13 DEF ConnectUser, Request, Forget
<1>14. ASSUME NEW t \in Threads, LoggedIn(t) PROVE OnceInv'
    BY <1>14 DEF LoggedIn, Last, Request, Forget
<1>15. ASSUME NEW t \in Threads, LoginError(t) PROVE OnceInv'
    BY <1>15 DEF LoginError, Last, Return, Forget
<1>16. ASSUME NEW t \in Threads, CallReturn(t) PROVE OnceInv'
    BY <1>16 DEF CallReturn, Last, Return, Forget
<1>23. ASSUME NEW t \in Threads, RequestRaises(t) PROVE OnceInv'
    BY <1>23 DEF RequestRaises, Return, Forget
<1>17. ASSUME NEW u \in Users, SwitchLogoff(u) PROVE OnceInv'
    BY <1>17 DEF SwitchLogoff
<1>18. CASE SwitchFilter
    BY <1>18 DEF SwitchFilter
<1>19. CASE SwitchUser
    BY <1>19 DEF SwitchUser
<1>20. ASSUME NEW s \in Sessions, Expire(s) PROVE OnceInv'
    BY <1>20 DEF Expire
<1>21. CASE UNCHANGED vars
    BY <1>21 DEF vars
<1>22. QED
    BY <1>1, <1>2, <1>3, <1>4, <1>5, <1>6, <1>7, <1>8, <1>9, <1>10, <1>11,
       <1>12, <1>13, <1>14, <1>15, <1>16, <1>17, <1>18, <1>19, <1>20, <1>21, <1>23
       DEF Next, Step

(* What a thread has of an answer tells whether its call was executed. *)
LEMMA DoneStep ==
    ASSUME SessionInv, [Next]_vars
    PROVE  DoneInv'
<1> USE DEF SessionInv, TypeOK, OnceInv, DoneInv, cfgVars, utilVars, proxyVars, engineVars, swVars, reqVars,
           callHistory
<1>1. ASSUME NEW t \in Threads, NEW e \in Elements, Call(t, e) PROVE DoneInv'
    BY <1>1 DEF Call
<1>2. ASSUME NEW t \in Threads, CacheHit(t) PROVE DoneInv'
    BY <1>2 DEF CacheHit, Request, Forget
<1>3. ASSUME NEW t \in Threads, LoginShared(t) PROVE DoneInv'
    BY <1>3 DEF LoginShared, Request, Forget
<1>4. ASSUME NEW t \in Threads, LoginNew(t) PROVE DoneInv'
    BY <1>4 DEF LoginNew, Request, Forget
<1>5. ASSUME NEW t \in Threads, TestCookie(t) PROVE DoneInv'
    BY <1>5 DEF TestCookie
<1>6. ASSUME NEW t \in Threads, BuildHeader(t) PROVE DoneInv'
    BY <1>6 DEF BuildHeader
<1>7. ASSUME NEW t \in Threads, Answer(t) PROVE DoneInv'
    BY <1>7 DEF Answer
<1>8. ASSUME NEW t \in Threads, Refuse(t) PROVE DoneInv'
    BY <1>8 DEF Refuse
<1>9. ASSUME NEW t \in Threads, StoreCookie(t) PROVE DoneInv'
    BY <1>9 DEF StoreCookie
<1>10. ASSUME NEW t \in Threads, StoreUser(t) PROVE DoneInv'
    BY <1>10 DEF StoreUser
<1>11. ASSUME NEW t \in Threads, Reconnect(t) PROVE DoneInv'
    BY <1>11 DEF Reconnect, Forget, MayRepeat
<1>12. ASSUME NEW t \in Threads, ConnectCookie(t) PROVE DoneInv'
    BY <1>12 DEF ConnectCookie
<1>13. ASSUME NEW t \in Threads, ConnectUser(t) PROVE DoneInv'
    BY <1>13 DEF ConnectUser, Request, Forget
<1>14. ASSUME NEW t \in Threads, LoggedIn(t) PROVE DoneInv'
    BY <1>14 DEF LoggedIn, Last, Request, Forget
<1>15. ASSUME NEW t \in Threads, LoginError(t) PROVE DoneInv'
    BY <1>15 DEF LoginError, Last, Return, Forget
<1>16. ASSUME NEW t \in Threads, CallReturn(t) PROVE DoneInv'
    BY <1>16 DEF CallReturn, Last, Return, Forget
<1>23. ASSUME NEW t \in Threads, RequestRaises(t) PROVE DoneInv'
    BY <1>23 DEF RequestRaises, Return, Forget
<1>17. ASSUME NEW u \in Users, SwitchLogoff(u) PROVE DoneInv'
    BY <1>17 DEF SwitchLogoff
<1>18. CASE SwitchFilter
    BY <1>18 DEF SwitchFilter
<1>19. CASE SwitchUser
    BY <1>19 DEF SwitchUser
<1>20. ASSUME NEW s \in Sessions, Expire(s) PROVE DoneInv'
    BY <1>20 DEF Expire
<1>21. CASE UNCHANGED vars
    BY <1>21 DEF vars
<1>22. QED
    BY <1>1, <1>2, <1>3, <1>4, <1>5, <1>6, <1>7, <1>8, <1>9, <1>10, <1>11,
       <1>12, <1>13, <1>14, <1>15, <1>16, <1>17, <1>18, <1>19, <1>20, <1>21, <1>23
       DEF Next, Step

(* The configuration and the caches change together. *)
LEMMA ConfigStep ==
    ASSUME ~Overlap, SessionInv, [Next]_vars
    PROVE  ConfigInv'
<1> USE DEF SessionInv, TypeOK, ConfigInv, cfgVars, utilVars, proxyVars, engineVars, swVars, reqVars,
           callHistory
<1>1. ASSUME NEW t \in Threads, NEW e \in Elements, Call(t, e) PROVE ConfigInv'
    BY <1>1 DEF Call
<1>2. ASSUME NEW t \in Threads, CacheHit(t) PROVE ConfigInv'
    BY <1>2 DEF CacheHit, Request, Forget
<1>3. ASSUME NEW t \in Threads, LoginShared(t) PROVE ConfigInv'
    BY <1>3 DEF LoginShared, Request, Forget
<1>4. ASSUME NEW t \in Threads, LoginNew(t) PROVE ConfigInv'
    BY <1>4 DEF LoginNew, Request, Forget
<1>5. ASSUME NEW t \in Threads, TestCookie(t) PROVE ConfigInv'
    BY <1>5 DEF TestCookie
<1>6. ASSUME NEW t \in Threads, BuildHeader(t) PROVE ConfigInv'
    BY <1>6 DEF BuildHeader
<1>7. ASSUME NEW t \in Threads, Answer(t) PROVE ConfigInv'
    BY <1>7 DEF Answer
<1>8. ASSUME NEW t \in Threads, Refuse(t) PROVE ConfigInv'
    BY <1>8 DEF Refuse
<1>9. ASSUME NEW t \in Threads, StoreCookie(t) PROVE ConfigInv'
    BY <1>9 DEF StoreCookie
<1>10. ASSUME NEW t \in Threads, StoreUser(t) PROVE ConfigInv'
    BY <1>10 DEF StoreUser
<1>11. ASSUME NEW t \in Threads, Reconnect(t) PROVE ConfigInv'
    BY <1>11 DEF Reconnect, Forget
<1>12. ASSUME NEW t \in Threads, ConnectCookie(t) PROVE ConfigInv'
    BY <1>12 DEF ConnectCookie
<1>13. ASSUME NEW t \in Threads, ConnectUser(t) PROVE ConfigInv'
    BY <1>13 DEF ConnectUser, Request, Forget
<1>14. ASSUME NEW t \in Threads, LoggedIn(t) PROVE ConfigInv'
    BY <1>14, SessionAssumption DEF LoggedIn, Last, Request, Forget, PlaceInv
<1>15. ASSUME NEW t \in Threads, LoginError(t) PROVE ConfigInv'
    BY <1>15 DEF LoginError, Last, Return, Forget
<1>16. ASSUME NEW t \in Threads, CallReturn(t) PROVE ConfigInv'
    BY <1>16 DEF CallReturn, Last, Return, Forget
<1>23. ASSUME NEW t \in Threads, RequestRaises(t) PROVE ConfigInv'
    BY <1>23 DEF RequestRaises, Return, Forget
<1>17. ASSUME NEW u \in Users, SwitchLogoff(u) PROVE ConfigInv'
    BY <1>17 DEF SwitchLogoff
<1>18. CASE SwitchFilter
    BY <1>18 DEF SwitchFilter
<1>19. CASE SwitchUser
    BY <1>19 DEF SwitchUser
<1>20. ASSUME NEW s \in Sessions, Expire(s) PROVE ConfigInv'
    BY <1>20 DEF Expire
<1>21. CASE UNCHANGED vars
    BY <1>21 DEF vars
<1>22. QED
    BY <1>1, <1>2, <1>3, <1>4, <1>5, <1>6, <1>7, <1>8, <1>9, <1>10, <1>11,
       <1>12, <1>13, <1>14, <1>15, <1>16, <1>17, <1>18, <1>19, <1>20, <1>21, <1>23
       DEF Next, Step

(* What calls can get hold of belongs to the configured user. *)
LEMMA OwnStep ==
    ASSUME ~Overlap, SessionInv, [Next]_vars
    PROVE  OwnInv'
<1> USE DEF SessionInv, TypeOK, PlaceInv, ConfigInv, OwnInv, Theirs, NoHeader, cfgVars, utilVars, proxyVars, engineVars, swVars, reqVars,
           callHistory
<1>1. ASSUME NEW t \in Threads, NEW e \in Elements, Call(t, e) PROVE OwnInv'
    BY <1>1 DEF Call
<1>2. ASSUME NEW t \in Threads, CacheHit(t) PROVE OwnInv'
    BY <1>2 DEF CacheHit, Request, Forget
<1>3. ASSUME NEW t \in Threads, LoginShared(t) PROVE OwnInv'
    BY <1>3 DEF LoginShared, Request, Forget
<1>4. ASSUME NEW t \in Threads, LoginNew(t) PROVE OwnInv'
    BY <1>4 DEF LoginNew, Request, Forget
<1>5. ASSUME NEW t \in Threads, TestCookie(t) PROVE OwnInv'
    BY <1>5 DEF TestCookie
<1>6. ASSUME NEW t \in Threads, BuildHeader(t) PROVE OwnInv'
  <2>1. api[t] \in Proxies /\ Theirs(api[t])
    BY <1>6, HeldProxy, SessionAssumption DEF BuildHeader
  <2>2. /\ hdr'[t].kind = "auth" => hdr'[t].val = user
        /\ hdr'[t].kind = "cookie" /\ hdr'[t].val # None => owner[hdr'[t].val] = user
    BY <1>6, <2>1 DEF BuildHeader
  <2>3. \A v \in Threads : v # t => hdr'[v] = hdr[v]
    BY <1>6 DEF BuildHeader
  <2>4. UNCHANGED <<user, owner, cookie, pfilter, setc, cache, restInit, api>>
    BY <1>6 DEF BuildHeader
  <2>5. QED
    BY <2>2, <2>3, <2>4
<1>7. ASSUME NEW t \in Threads, Answer(t) PROVE OwnInv'
  <2>1. CASE hdr[t].kind = "auth"
    <3>1. PICK s \in Sessions : /\ ~Referenced(s)
                               /\ owner' = [owner EXCEPT ![s] = hdr[t].val]
                               /\ setc' = [setc EXCEPT ![t] = s]
      BY <1>7, <2>1 DEF Answer
    <3>2. \A x \in Sessions : x # s => owner'[x] = owner[x]
      BY <3>1
    <3>3. /\ \A p \in Proxies : cookie[p] # s
          /\ \A v \in Threads : hdr[v].val # s /\ setc[v] # s
      BY <3>1 DEF Referenced
    <3>4. \A p \in Proxies : Theirs(p) => Theirs(p)'
      BY <1>7, <3>2, <3>3 DEF Answer
    <3>5. UNCHANGED <<user, hdr, cache, restInit, api>>
      BY <1>7 DEF Answer
    <3>6. owner'[s] = user
      BY <2>1, <3>1
    <3>7. \A v \in Threads : setc'[v] # None => owner'[setc'[v]] = user
      BY <3>1, <3>2, <3>3, <3>6
    <3>8. \A v \in Threads : hdr[v].kind = "cookie" /\ hdr[v].val # None
                              => owner'[hdr[v].val] = user
      BY <3>2, <3>3
    <3>9. QED
      BY <3>4, <3>5, <3>7, <3>8
  <2>2. CASE hdr[t].kind # "auth"
    <3>1. UNCHANGED <<user, owner, cookie, pfilter, hdr, cache, restInit, api>>
      BY <1>7, <2>2 DEF Answer
    <3>2. setc' = [setc EXCEPT ![t] = None]
      BY <1>7, <2>2 DEF Answer
    <3>3. QED
      BY <3>1, <3>2
  <2>3. QED
    BY <2>1, <2>2
<1>8. ASSUME NEW t \in Threads, Refuse(t) PROVE OwnInv'
    BY <1>8 DEF Refuse
<1>9. ASSUME NEW t \in Threads, StoreCookie(t) PROVE OwnInv'
  <2>1. CASE hdr[t].kind = "auth"
    <3>1. \A p \in Proxies : Theirs(p) => Theirs(p)'
      BY <1>9, <2>1 DEF StoreCookie
    <3>2. UNCHANGED <<user, owner, hdr, setc, cache, restInit, api>>
      BY <1>9 DEF StoreCookie
    <3>3. QED
      BY <3>1, <3>2
  <2>2. CASE hdr[t].kind # "auth"
    BY <1>9, <2>2 DEF StoreCookie
  <2>3. QED
    BY <2>1, <2>2
<1>10. ASSUME NEW t \in Threads, StoreUser(t) PROVE OwnInv'
    BY <1>10 DEF StoreUser
<1>11. ASSUME NEW t \in Threads, Reconnect(t) PROVE OwnInv'
    BY <1>11 DEF Reconnect, Forget
<1>12. ASSUME NEW t \in Threads, ConnectCookie(t) PROVE OwnInv'
    BY <1>12 DEF ConnectCookie
<1>13. ASSUME NEW t \in Threads, ConnectUser(t) PROVE OwnInv'
  <2>1. /\ api' = api /\ UNCHANGED <<user, owner, cookie, pfilter, cache, restInit>>
        /\ hdr' = [hdr EXCEPT ![t] = NoHeader]
        /\ setc' = [setc EXCEPT ![t] = None]
    BY <1>13 DEF ConnectUser, Request, Forget
  <2>2. QED
    BY <2>1
<1>14. ASSUME NEW t \in Threads, LoggedIn(t) PROVE OwnInv'
    BY <1>14 DEF LoggedIn, Last, Request, Forget
<1>15. ASSUME NEW t \in Threads, LoginError(t) PROVE OwnInv'
    BY <1>15 DEF LoginError, Last, Return, Forget
<1>16. ASSUME NEW t \in Threads, CallReturn(t) PROVE OwnInv'
    BY <1>16 DEF CallReturn, Last, Return, Forget
<1>23. ASSUME NEW t \in Threads, RequestRaises(t) PROVE OwnInv'
    BY <1>23 DEF RequestRaises, Return, Forget
<1>17. ASSUME NEW u \in Users, SwitchLogoff(u) PROVE OwnInv'
    BY <1>17 DEF SwitchLogoff
<1>18. CASE SwitchFilter
    BY <1>18 DEF SwitchFilter
<1>19. CASE SwitchUser
    BY <1>19 DEF SwitchUser
<1>20. ASSUME NEW s \in Sessions, Expire(s) PROVE OwnInv'
    BY <1>20 DEF Expire
<1>21. CASE UNCHANGED vars
    BY <1>21 DEF vars
<1>22. QED
    BY <1>1, <1>2, <1>3, <1>4, <1>5, <1>6, <1>7, <1>8, <1>9, <1>10, <1>11,
       <1>12, <1>13, <1>14, <1>15, <1>16, <1>17, <1>18, <1>19, <1>20, <1>21, <1>23
       DEF Next, Step

(* The engine executes a call as the configured user. *)
LEMMA RightStep ==
    ASSUME ~Overlap, SessionInv, [Next]_vars
    PROVE  RightUser'
<1> USE DEF SessionInv, TypeOK, RightUser, cfgVars, utilVars, proxyVars, engineVars, swVars, reqVars,
           callHistory
<1>1. ASSUME NEW t \in Threads, NEW e \in Elements, Call(t, e) PROVE RightUser'
    BY <1>1 DEF Call
<1>2. ASSUME NEW t \in Threads, CacheHit(t) PROVE RightUser'
    BY <1>2 DEF CacheHit, Request, Forget
<1>3. ASSUME NEW t \in Threads, LoginShared(t) PROVE RightUser'
    BY <1>3 DEF LoginShared, Request, Forget
<1>4. ASSUME NEW t \in Threads, LoginNew(t) PROVE RightUser'
    BY <1>4 DEF LoginNew, Request, Forget
<1>5. ASSUME NEW t \in Threads, TestCookie(t) PROVE RightUser'
    BY <1>5 DEF TestCookie
<1>6. ASSUME NEW t \in Threads, BuildHeader(t) PROVE RightUser'
    BY <1>6 DEF BuildHeader
<1>7. ASSUME NEW t \in Threads, Answer(t) PROVE RightUser'
  <2>1. Identity(hdr[t]) = user
    <3>1. hdr[t].kind \in {"none", "cookie", "auth"}
      OBVIOUS
    <3>2. CASE hdr[t].kind = "auth"
      BY <3>2 DEF Identity, OwnInv
    <3>3. CASE hdr[t].kind # "auth"
      <4>1. hdr[t].val \in Sessions /\ hdr[t].val # None
        BY <1>7, <3>3, SessionAssumption DEF Answer, Accepted
      <4>2. hdr[t].kind = "cookie"
        BY <3>1, <3>3, <4>1 DEF PlaceInv
      <4>3. QED
        BY <4>1, <4>2 DEF Identity, OwnInv
    <3>4. QED
      BY <3>2, <3>3
  <2>2. asked[t] = user /\ pfilter[api[t]] = user
    BY <1>7, HeldProxy, SessionAssumption DEF Answer, ConfigInv, OwnInv, Theirs
  <2>3. CASE UNCHANGED <<ident, hfilter>>
    BY <1>7, <2>3 DEF Answer
  <2>4. CASE /\ ident' = [ident EXCEPT ![t] = Identity(hdr[t])]
             /\ hfilter' = [hfilter EXCEPT ![t] = pfilter[api[t]]]
    BY <1>7, <2>1, <2>2, <2>4 DEF Answer
  <2>5. QED
    BY <1>7, <2>3, <2>4 DEF Answer
<1>8. ASSUME NEW t \in Threads, Refuse(t) PROVE RightUser'
    BY <1>8 DEF Refuse
<1>9. ASSUME NEW t \in Threads, StoreCookie(t) PROVE RightUser'
    BY <1>9 DEF StoreCookie
<1>10. ASSUME NEW t \in Threads, StoreUser(t) PROVE RightUser'
    BY <1>10 DEF StoreUser
<1>11. ASSUME NEW t \in Threads, Reconnect(t) PROVE RightUser'
    BY <1>11 DEF Reconnect, Forget
<1>12. ASSUME NEW t \in Threads, ConnectCookie(t) PROVE RightUser'
    BY <1>12 DEF ConnectCookie
<1>13. ASSUME NEW t \in Threads, ConnectUser(t) PROVE RightUser'
    BY <1>13 DEF ConnectUser, Request, Forget
<1>14. ASSUME NEW t \in Threads, LoggedIn(t) PROVE RightUser'
    BY <1>14 DEF LoggedIn, Last, Request, Forget
<1>15. ASSUME NEW t \in Threads, LoginError(t) PROVE RightUser'
    BY <1>15 DEF LoginError, Last, Return, Forget
<1>16. ASSUME NEW t \in Threads, CallReturn(t) PROVE RightUser'
    BY <1>16 DEF CallReturn, Last, Return, Forget
<1>23. ASSUME NEW t \in Threads, RequestRaises(t) PROVE RightUser'
    BY <1>23 DEF RequestRaises, Return, Forget
<1>17. ASSUME NEW u \in Users, SwitchLogoff(u) PROVE RightUser'
    BY <1>17 DEF SwitchLogoff
<1>18. CASE SwitchFilter
    BY <1>18 DEF SwitchFilter
<1>19. CASE SwitchUser
    BY <1>19 DEF SwitchUser
<1>20. ASSUME NEW s \in Sessions, Expire(s) PROVE RightUser'
    BY <1>20 DEF Expire
<1>21. CASE UNCHANGED vars
    BY <1>21 DEF vars
<1>22. QED
    BY <1>1, <1>2, <1>3, <1>4, <1>5, <1>6, <1>7, <1>8, <1>9, <1>10, <1>11,
       <1>12, <1>13, <1>14, <1>15, <1>16, <1>17, <1>18, <1>19, <1>20, <1>21, <1>23
       DEF Next, Step

(* A step of a call that runs alone disturbs no other call: those under    *)
(* way at the same time know that they are not alone.                      *)
LEMMA AloneFrame ==
    ASSUME AloneInv, NEW t \in Threads, pc[t] # "idle", alone' = alone,
           \A u \in Threads \ {t} : pc'[u] = pc[u] /\ result'[u] = result[u],
           alone[t] => /\ result'[t] # "refused"
                       /\ result'[t] = "error" => Faults
                       /\ pc'[t] # "idle" => Undisturbed(t)'
    PROVE  AloneInv'
<1> SUFFICES ASSUME NEW u \in Threads, alone'[u]
             PROVE  /\ result'[u] # "refused"
                    /\ result'[u] = "error" => Faults
                    /\ pc'[u] # "idle" =>
                        /\ \A v \in Threads \ {u} : pc'[v] = "idle"
                        /\ Undisturbed(u)'
  BY DEF AloneInv
<1>1. CASE u = t
  BY <1>1 DEF AloneInv
<1>2. CASE u # t
  BY <1>2 DEF AloneInv
<1>3. QED
  BY <1>1, <1>2

(* A call that runs alone finds the proxy as it has left it. *)
LEMMA AloneStep ==
    ASSUME ~Overlap, SessionInv, [Next]_vars
    PROVE  AloneInv'
<1> USE SessionAssumption
<1> USE DEF TypeOK, PlaceInv, ConfigInv, NoHeader, cfgVars, utilVars,
            proxyVars, engineVars, swVars, reqVars, callHistory
<1>a. TypeOK /\ PlaceInv /\ ConfigInv /\ AloneInv
  BY DEF SessionInv
<1>b. ASSUME NEW t \in Threads, alone[t], pc[t] # "idle"
      PROVE  /\ Undisturbed(t)
             /\ result[t] # "refused"
             /\ result[t] = "error" => Faults
  BY <1>a, <1>b DEF AloneInv
<1>1. ASSUME NEW t \in Threads, NEW e \in Elements, Call(t, e) PROVE AloneInv'
  <2>1. /\ \A u \in Threads : alone'[u] =>
                u = t /\ \A v \in Threads \ {t} : pc[v] = "idle"
        /\ pc' = [pc EXCEPT ![t] = "lock"]
        /\ result' = [result EXCEPT ![t] = "none"]
    BY <1>1, <1>a DEF Call
  <2>2. Undisturbed(t)'
    BY <2>1, <1>a DEF Undisturbed
  <2>3. QED
    BY <2>1, <2>2, <1>a DEF AloneInv
<1>2. ASSUME NEW t \in Threads, CacheHit(t) PROVE AloneInv'
  <2>1. /\ pc[t] = "lock" /\ pc'[t] = "test" /\ repeat'[t] /\ ~nested'[t]
        /\ UNCHANGED <<result, alone>>
    BY <1>2, <1>a DEF CacheHit, Request
  <2>2. \A u \in Threads \ {t} : pc'[u] = pc[u]
    BY <1>2, <1>a DEF CacheHit, Request
  <2>3. Undisturbed(t)'
    BY <2>1 DEF Undisturbed
  <2>4. QED
    BY <1>a, <1>b, <2>1, <2>2, <2>3, AloneFrame
<1>3. ASSUME NEW t \in Threads, LoginShared(t) PROVE AloneInv'
  <2>1. /\ pc[t] = "lock" /\ pc'[t] = "test" /\ repeat'[t] /\ ~nested'[t]
        /\ UNCHANGED <<result, alone>>
    BY <1>3, <1>a DEF LoginShared, Request
  <2>2. \A u \in Threads \ {t} : pc'[u] = pc[u]
    BY <1>3, <1>a DEF LoginShared, Request
  <2>3. Undisturbed(t)'
    BY <2>1 DEF Undisturbed
  <2>4. QED
    BY <1>a, <1>b, <2>1, <2>2, <2>3, AloneFrame
<1>4. ASSUME NEW t \in Threads, LoginNew(t) PROVE AloneInv'
  <2>1. /\ pc[t] = "lock" /\ pc'[t] = "test" /\ ~nested'[t]
        /\ UNCHANGED <<result, alone>>
    BY <1>4, <1>a DEF LoginNew, Request
  <2>2. \A u \in Threads \ {t} : pc'[u] = pc[u]
    BY <1>4, <1>a DEF LoginNew, Request
  <2>3. cookie'[api'[t]] = None
    BY <1>4, <1>a DEF LoginNew, Request
  <2>4. Undisturbed(t)'
    BY <2>1, <2>3 DEF Undisturbed
  <2>5. QED
    BY <1>a, <1>b, <2>1, <2>2, <2>4, AloneFrame
<1>5. ASSUME NEW t \in Threads, TestCookie(t) PROVE AloneInv'
  <2>1. /\ pc[t] = "test" /\ pc'[t] = "value"
        /\ useCookie'[t] <=> (cookie[api[t]] # None /\ lastUser[api[t]] = user)
        /\ UNCHANGED <<result, alone, user, cookie, lastUser, api, nested, repeat>>
    <3> DEFINE left == cookie[api[t]] # None /\ lastUser[api[t]] = user
    <3>1. useCookie' = [useCookie EXCEPT ![t] = left]
      BY <1>5 DEF TestCookie
    <3>2. useCookie'[t] = left
      <4>1. useCookie \in [Threads -> BOOLEAN]
        BY <1>a
      <4> HIDE DEF left
      <4>2. QED
        BY <3>1, <4>1
    <3>3. useCookie'[t] <=> left
      BY <3>2
    <3>4. QED
      BY <1>5, <1>a, <3>3 DEF TestCookie
  <2>2. \A u \in Threads \ {t} : pc'[u] = pc[u]
    BY <1>5, <1>a DEF TestCookie
  <2>3. alone[t] => Undisturbed(t)'
    BY <1>b, <2>1 DEF Undisturbed
  <2>4. QED
    BY <1>a, <1>b, <2>1, <2>2, <2>3, AloneFrame
<1>6. ASSUME NEW t \in Threads, BuildHeader(t) PROVE AloneInv'
  <2>1. /\ pc[t] = "value" /\ pc'[t] = "sent"
        /\ hdr'[t].kind = IF useCookie[t] THEN "cookie" ELSE "auth"
        /\ UNCHANGED <<result, alone, user, cookie, lastUser, api, nested, repeat>>
    BY <1>6, <1>a DEF BuildHeader
  <2>2. \A u \in Threads \ {t} : pc'[u] = pc[u]
    BY <1>6, <1>a DEF BuildHeader
  <2>3. alone[t] => Undisturbed(t)'
    BY <1>b, <2>1 DEF Undisturbed
  <2>4. QED
    BY <1>a, <1>b, <2>1, <2>2, <2>3, AloneFrame
<1>7. ASSUME NEW t \in Threads, Answer(t) PROVE AloneInv'
  <2>1. /\ pc[t] = "sent" /\ pc'[t] = "reply"
        /\ UNCHANGED <<result, alone, user, cookie, lastUser, api, nested, repeat, hdr>>
    BY <1>7, <1>a DEF Answer
  <2>2. status'[t] # 401 /\ (status'[t] = 500 => Faults)
    BY <1>7, <1>a DEF Answer
  <2>3. hdr[t].kind # "auth" => setc'[t] = None
    BY <1>7, <1>a DEF Answer
  <2>4. \A u \in Threads \ {t} : pc'[u] = pc[u]
    BY <1>7, <1>a DEF Answer
  <2>5. alone[t] => Undisturbed(t)'
    BY <1>b, <2>1, <2>2, <2>3 DEF Undisturbed
  <2>6. QED
    BY <1>a, <1>b, <2>1, <2>4, <2>5, AloneFrame
<1>8. ASSUME NEW t \in Threads, Refuse(t) PROVE AloneInv'
  <2>1. /\ pc[t] = "sent" /\ pc'[t] = "reply"
        /\ status'[t] = 401 /\ setc'[t] = None /\ hdr[t].kind # "auth"
        /\ UNCHANGED <<result, alone, user, cookie, lastUser, api, nested, repeat, hdr>>
    BY <1>8, <1>a DEF Refuse, Accepted
  <2>2. \A u \in Threads \ {t} : pc'[u] = pc[u]
    BY <1>8, <1>a DEF Refuse
  <2>3. alone[t] => Undisturbed(t)'
    BY <1>b, <2>1 DEF Undisturbed
  <2>4. QED
    BY <1>a, <1>b, <2>1, <2>2, <2>3, AloneFrame
<1>9. ASSUME NEW t \in Threads, StoreCookie(t) PROVE AloneInv'
  <2>1. /\ pc[t] = "reply"
        /\ pc'[t] = IF hdr[t].kind = "auth" THEN "luser" ELSE "check"
        /\ hdr[t].kind # "auth" => cookie' = cookie
        /\ UNCHANGED <<result, alone, user, lastUser, api, nested, repeat, hdr,
                       status, setc>>
    BY <1>9, <1>a DEF StoreCookie
  <2>2. \A u \in Threads \ {t} : pc'[u] = pc[u]
    BY <1>9, <1>a DEF StoreCookie
  <2>3. alone[t] => Undisturbed(t)'
    BY <1>b, <2>1 DEF Undisturbed
  <2>4. QED
    BY <1>a, <1>b, <2>1, <2>2, <2>3, AloneFrame
<1>10. ASSUME NEW t \in Threads, StoreUser(t) PROVE AloneInv'
  <2>1. /\ pc[t] = "luser" /\ pc'[t] = "check"
        /\ UNCHANGED <<result, alone, api, nested, repeat, hdr, status, setc>>
    BY <1>10, <1>a DEF StoreUser
  <2>2. \A u \in Threads \ {t} : pc'[u] = pc[u]
    BY <1>10, <1>a DEF StoreUser
  <2>3. alone[t] => Undisturbed(t)'
    BY <1>b, <2>1 DEF Undisturbed
  <2>4. QED
    BY <1>a, <1>b, <2>1, <2>2, <2>3, AloneFrame
<1>11. ASSUME NEW t \in Threads, Reconnect(t) PROVE AloneInv'
  <2>1. /\ pc[t] = "check" /\ pc'[t] = "test" /\ status[t] = 401 /\ nested'[t]
        /\ UNCHANGED <<result, alone, user, cookie, lastUser, api>>
    BY <1>11, <1>a DEF Reconnect, MayRepeat
  <2>2. \A u \in Threads \ {t} : pc'[u] = pc[u]
    BY <1>11, <1>a DEF Reconnect
  <2>3. alone[t] => Undisturbed(t)'
    BY <1>b, <2>1 DEF Undisturbed
  <2>4. QED
    BY <1>a, <1>b, <2>1, <2>2, <2>3, AloneFrame
<1>12. ASSUME NEW t \in Threads, ConnectCookie(t) PROVE AloneInv'
  <2>1. /\ pc[t] = "check" /\ pc'[t] = "cuser"
        /\ cookie'[api[t]] = setc[t]
        /\ UNCHANGED <<result, alone, api, nested>>
    BY <1>12, <1>a DEF ConnectCookie
  <2>2. \A u \in Threads \ {t} : pc'[u] = pc[u]
    BY <1>12, <1>a DEF ConnectCookie
  <2>3. alone[t] => Undisturbed(t)'
    BY <1>b, <2>1 DEF Undisturbed
  <2>4. QED
    BY <1>a, <1>b, <2>1, <2>2, <2>3, AloneFrame
<1>13. ASSUME NEW t \in Threads, ConnectUser(t) PROVE AloneInv'
  <2>1. /\ pc[t] = "cuser" /\ pc'[t] = "test" /\ ~nested'[t]
        /\ ~repeat'[t] => nested[t]
        /\ cookie' = cookie /\ api'[t] = api[t]
        /\ UNCHANGED <<result, alone>>
    <3>1. repeat' = [repeat EXCEPT ![t] = ~nested[t]]
      BY <1>13 DEF ConnectUser, Request
    <3>2. repeat'[t] = ~nested[t]
      BY <3>1, <1>a
    <3>3. ~repeat'[t] => nested[t]
      BY <3>2
    <3>4. QED
      BY <1>13, <1>a, <3>3 DEF ConnectUser, Request
  <2>2. \A u \in Threads \ {t} : pc'[u] = pc[u]
    BY <1>13, <1>a DEF ConnectUser, Request
  <2>3. alone[t] => Undisturbed(t)'
    BY <1>b, <2>1 DEF Undisturbed
  <2>4. QED
    BY <1>a, <1>b, <2>1, <2>2, <2>3, AloneFrame
<1>14. ASSUME NEW t \in Threads, LoggedIn(t) PROVE AloneInv'
  <2>1. /\ pc[t] = "check" /\ pc'[t] = "test" /\ repeat'[t] /\ ~nested'[t]
        /\ UNCHANGED <<result, alone>>
    BY <1>14, <1>a DEF LoggedIn, Last, Request
  <2>2. \A u \in Threads \ {t} : pc'[u] = pc[u]
    BY <1>14, <1>a DEF LoggedIn, Request
  <2>3. Undisturbed(t)'
    BY <2>1 DEF Undisturbed
  <2>4. QED
    BY <1>a, <1>b, <2>1, <2>2, <2>3, AloneFrame
<1>c. ASSUME NEW t \in Threads, alone[t], pc[t] = "check", ~nested[t], ~MayRepeat(t)
      PROVE  status[t] # 401 /\ (status[t] = 500 => Faults)
  BY <1>b, <1>c, <1>a DEF Undisturbed, MayRepeat
<1>15. ASSUME NEW t \in Threads, LoginError(t) PROVE AloneInv'
  <2>1. /\ pc[t] = "check" /\ ~nested[t] /\ ~MayRepeat(t) /\ status[t] >= 300
        /\ pc'[t] = "idle" /\ result'[t] = "error" /\ alone' = alone
    BY <1>15, <1>a DEF LoginError, Last, Return
  <2>2. \A u \in Threads \ {t} : pc'[u] = pc[u] /\ result'[u] = result[u]
    BY <1>15, <1>a DEF LoginError, Return
  <2>3. status[t] \in {0, 200, 401, 500}
    BY <1>a
  <2>4. alone[t] => Faults
    BY <1>c, <2>1, <2>3
  <2>5. QED
    BY <1>a, <2>1, <2>2, <2>4, AloneFrame
<1>16. ASSUME NEW t \in Threads, CallReturn(t) PROVE AloneInv'
  <2>1. /\ pc[t] = "check" /\ ~nested[t] /\ ~MayRepeat(t)
        /\ pc'[t] = "idle" /\ alone' = alone
        /\ result'[t] = IF status[t] = 401 THEN "refused" ELSE "answered"
    BY <1>16, <1>a DEF CallReturn, Last, Return
  <2>2. \A u \in Threads \ {t} : pc'[u] = pc[u] /\ result'[u] = result[u]
    BY <1>16, <1>a DEF CallReturn, Return
  <2>3. alone[t] => result'[t] = "answered"
    BY <1>c, <2>1
  <2>4. QED
    BY <1>a, <2>1, <2>2, <2>3, AloneFrame
<1>23. ASSUME NEW t \in Threads, RequestRaises(t) PROVE AloneInv'
  <2>1. /\ Faults /\ pc[t] # "idle" /\ pc'[t] = "idle"
        /\ result'[t] = "error" /\ alone' = alone
    BY <1>23, <1>a DEF RequestRaises, Return
  <2>2. \A u \in Threads \ {t} : pc'[u] = pc[u] /\ result'[u] = result[u]
    BY <1>23, <1>a DEF RequestRaises, Return
  <2>3. QED
    BY <1>a, <2>1, <2>2, AloneFrame
<1>17. ASSUME NEW u \in Users, SwitchLogoff(u) PROVE AloneInv'
  BY <1>17, <1>a DEF SwitchLogoff, AloneInv
<1>18. CASE SwitchFilter
  BY <1>18, <1>a DEF SwitchFilter, AloneInv
<1>19. CASE SwitchUser
  BY <1>19, <1>a DEF SwitchUser, AloneInv
<1>20. ASSUME NEW s \in Sessions, Expire(s) PROVE AloneInv'
  <2>1. UNCHANGED <<alone, result, pc, user, cookie, lastUser, api, nested,
                    repeat, useCookie, hdr, status, setc>>
    BY <1>20 DEF Expire
  <2>2. QED
    BY <2>1, <1>a DEF AloneInv, Undisturbed
<1>21. CASE UNCHANGED vars
  <2>1. UNCHANGED <<alone, result, pc, user, cookie, lastUser, api, nested,
                    repeat, useCookie, hdr, status, setc>>
    BY <1>21 DEF vars
  <2>2. QED
    BY <2>1, <1>a DEF AloneInv, Undisturbed
<1>22. QED
    BY <1>1, <1>2, <1>3, <1>4, <1>5, <1>6, <1>7, <1>8, <1>9, <1>10, <1>11,
       <1>12, <1>13, <1>14, <1>15, <1>16, <1>17, <1>18, <1>19, <1>20, <1>21, <1>23
       DEF Next, Step

(* Every behaviour satisfies the inductive invariant.                      *)
THEOREM SessionInvariance == Spec => []SessionInv
<1>1. Init => SessionInv
  BY InitSessionInv
<1>2. SessionInv /\ [Next]_vars => SessionInv'
  <2> SUFFICES ASSUME SessionInv, [Next]_vars PROVE SessionInv'
    OBVIOUS
  <2>1. TypeOK' /\ PlaceInv' /\ OnceInv' /\ DoneInv'
    BY TypeStep, PlaceStep, OnceStep, DoneStep
  <2>2. ASSUME ~Overlap PROVE ConfigInv' /\ OwnInv' /\ RightUser' /\ AloneInv'
    BY <2>2, ConfigStep, OwnStep, RightStep, AloneStep
  <2>3. QED
    BY <2>1, <2>2 DEF SessionInv
<1>3. QED
  BY <1>1, <1>2, PTL DEF Spec

(* A call is executed at most once, whatever expires, fails or is          *)
(* switched while it is under way.                                         *)
THEOREM OnceCorrect == Spec => []AtMostOnce
<1>1. ASSUME SessionInv PROVE AtMostOnce
  <2>1. ASSUME NEW t \in Threads PROVE execs[t] <= 1
    <3>1. execs[t] \in 0..1
      BY <1>1 DEF SessionInv, OnceInv
    <3>2. QED
      BY <3>1
  <2>2. QED
    BY <2>1 DEF AtMostOnce
<1>2. QED
  BY <1>1, SessionInvariance, PTL

(* When switches of the user do not overlap calls, every call is executed  *)
(* as the user, and with the filter, configured when it began.             *)
THEOREM UserCorrect == ASSUME ~Overlap PROVE Spec => []RightUser
<1>1. SessionInv => RightUser
  BY DEF SessionInv
<1>2. QED
  BY <1>1, SessionInvariance, PTL

(* When switches of the user do not overlap calls, a call that no other    *)
(* thread's call overlaps is not refused, whatever cookie it finds in the  *)
(* proxy and however often sessions expire under it.                       *)
THEOREM RefusedCorrect == ASSUME ~Overlap PROVE Spec => []NeverRefused
<1>1. SessionInv => NeverRefused
  BY DEF SessionInv, AloneInv, NeverRefused
<1>2. QED
  BY <1>1, SessionInvariance, PTL

-----------------------------------------------------------------------------
(* Refinement.                                                             *)

ServiceStep == [Service!Next]_(Service!callVars)

(* A step inside a call that leaves its execution and result alone.        *)
LEMMA ServiceStutter ==
    ASSUME TypeOK, NEW t \in Threads, pc[t] # "idle", pc'[t] # "idle",
           pc' = [pc EXCEPT ![t] = pc'[t]],
           UNCHANGED <<user, execs, ident, hfilter, result>>
    PROVE  ServiceStep
<1>1. \A v \in Threads : (pc'[v] = "idle") = (pc[v] = "idle")
  BY DEF TypeOK
<1>2. place' = place
  BY <1>1 DEF place
<1>3. QED
  BY <1>2 DEF ServiceStep, Service!callVars

(* The end of a call. *)
LEMMA ServiceReturn ==
    ASSUME TypeOK, NEW t \in Threads, pc[t] # "idle",
           NEW r \in {"answered", "refused", "error"}, Return(t, r),
           UNCHANGED <<user, execs, ident, hfilter>>,
           \/ r = "answered" /\ (execs[t] = 1 \/ (execs[t] = 0 /\ Faults))
           \/ r \in {"refused", "error"} /\ execs[t] = 0
           \/ r = "error" /\ execs[t] = 1 /\ Faults
    PROVE  ServiceStep
<1>1. pc' = [pc EXCEPT ![t] = "idle"] /\ result' = [result EXCEPT ![t] = r]
  BY DEF Return
<1>2. \A v \in Threads : place'[v] = IF v = t THEN "idle" ELSE place[v]
  BY <1>1 DEF TypeOK, place
<1>3. place' = [place EXCEPT ![t] = "idle"]
  BY <1>2 DEF place
<1>4. Service!Return(t, r)
  BY <1>1, <1>3 DEF Service!Return, place
<1>5. QED
  BY <1>4 DEF ServiceStep, Service!Next

(* Every step of RestSession is a step of RestCalls or leaves it unchanged, *)
(* if switches of the user do not overlap calls.                            *)
LEMMA ServiceRefined ==
    ASSUME ~Overlap, SessionInv, [Next]_vars
    PROVE  ServiceStep
<1> USE SessionAssumption
<1> USE DEF cfgVars, utilVars, proxyVars, engineVars, swVars, reqVars, callHistory
<1>0. TypeOK /\ PlaceInv /\ OnceInv /\ DoneInv /\ ConfigInv /\ OwnInv
  BY DEF SessionInv
<1> USE <1>0
<1>1. ASSUME NEW t \in Threads, NEW e \in Elements, Call(t, e) PROVE ServiceStep
  <2>1. /\ pc[t] = "idle" /\ pc' = [pc EXCEPT ![t] = "lock"]
        /\ execs' = [execs EXCEPT ![t] = 0]
        /\ result' = [result EXCEPT ![t] = "none"]
        /\ ident' = [ident EXCEPT ![t] = None]
        /\ hfilter' = [hfilter EXCEPT ![t] = None] /\ user' = user
    BY <1>1 DEF Call
  <2>2. \A v \in Threads : place'[v] = IF v = t THEN "called" ELSE place[v]
    BY <2>1 DEF TypeOK, place
  <2>3. place' = [place EXCEPT ![t] = "called"]
    BY <2>2 DEF place
  <2>4. Service!Call(t)
    BY <2>1, <2>3 DEF Service!Call, place
  <2>5. QED
    BY <2>4 DEF ServiceStep, Service!Next
<1>2. ASSUME NEW t \in Threads, CacheHit(t) PROVE ServiceStep
  <2>1. pc[t] # "idle" /\ pc' = [pc EXCEPT ![t] = pc'[t]] /\ pc'[t] # "idle"
    BY <1>2 DEF CacheHit, Request, TypeOK
  <2>2. QED
    BY <1>2, <2>1, ServiceStutter DEF CacheHit, Request
<1>3. ASSUME NEW t \in Threads, LoginShared(t) PROVE ServiceStep
  <2>1. pc[t] # "idle" /\ pc' = [pc EXCEPT ![t] = pc'[t]] /\ pc'[t] # "idle"
    BY <1>3 DEF LoginShared, Request, TypeOK
  <2>2. QED
    BY <1>3, <2>1, ServiceStutter DEF LoginShared, Request
<1>4. ASSUME NEW t \in Threads, LoginNew(t) PROVE ServiceStep
  <2>1. pc[t] # "idle" /\ pc' = [pc EXCEPT ![t] = pc'[t]] /\ pc'[t] # "idle"
    BY <1>4 DEF LoginNew, Request, TypeOK
  <2>2. QED
    BY <1>4, <2>1, ServiceStutter DEF LoginNew, Request
<1>5. ASSUME NEW t \in Threads, TestCookie(t) PROVE ServiceStep
  <2>1. pc[t] # "idle" /\ pc' = [pc EXCEPT ![t] = pc'[t]] /\ pc'[t] # "idle"
    BY <1>5 DEF TestCookie, TypeOK
  <2>2. QED
    BY <1>5, <2>1, ServiceStutter DEF TestCookie
<1>6. ASSUME NEW t \in Threads, BuildHeader(t) PROVE ServiceStep
  <2>1. pc[t] # "idle" /\ pc' = [pc EXCEPT ![t] = pc'[t]] /\ pc'[t] # "idle"
    BY <1>6 DEF BuildHeader, TypeOK
  <2>2. QED
    BY <1>6, <2>1, ServiceStutter DEF BuildHeader
<1>7. ASSUME NEW t \in Threads, Answer(t) PROVE ServiceStep
  <2>1. /\ pc[t] = "sent" /\ pc' = [pc EXCEPT ![t] = "reply"] /\ pc'[t] = "reply"
        /\ user' = user /\ result' = result
    BY <1>7 DEF Answer, TypeOK
  <2>2. CASE UNCHANGED <<ident, hfilter, execs>>
    BY <2>1, <2>2, ServiceStutter
  <2>3. CASE /\ ident' = [ident EXCEPT ![t] = Identity(hdr[t])]
             /\ hfilter' = [hfilter EXCEPT ![t] = pfilter[api[t]]]
             /\ execs' = [execs EXCEPT ![t] = IF @ < 2 THEN @ + 1 ELSE @]
    <3>1. execs[t] = 0 /\ execs' = [execs EXCEPT ![t] = 1]
      <4>1. execs[t] \in 0 .. 1 /\ execs[t] # 1
        BY <2>1 DEF OnceInv
      <4>2. execs[t] = 0
        BY <4>1
      <4>3. QED
        BY <2>3, <4>2
    <3>2. \A v \in Threads : place'[v] = IF v = t THEN "executed" ELSE place[v]
      <4>1. execs'[t] = 1 /\ pc'[t] # "idle"
        BY <2>1, <3>1 DEF TypeOK
      <4>2. \A v \in Threads \ {t} : execs'[v] = execs[v] /\ pc'[v] = pc[v]
        BY <2>1, <3>1 DEF TypeOK
      <4>3. place'[t] = "executed"
        BY <4>1 DEF place
      <4>4. QED
        BY <4>2, <4>3 DEF place
    <3>3. place[t] = "called" /\ place' = [place EXCEPT ![t] = "executed"]
      <4>1. place[t] = "called"
        BY <2>1, <3>1 DEF place
      <4>2. QED
        BY <3>2, <4>1 DEF place
    <3>4. pfilter[api[t]] = user
      BY <2>1 DEF PlaceInv, OwnInv, Theirs
    <3>5. Identity(hdr[t]) = user
      <4>1. hdr[t].kind = "auth" \/ hdr[t].val \in live
        BY <1>7 DEF Answer, Accepted
      <4>2. CASE hdr[t].kind = "auth"
        BY <4>2 DEF Identity, OwnInv
      <4>3. CASE hdr[t].kind # "auth"
        <5>1. hdr[t].val \in Sessions /\ hdr[t].val # None
          BY <4>1, <4>3 DEF TypeOK
        <5>2. hdr[t].kind = "cookie"
          BY <4>3, <5>1 DEF TypeOK, PlaceInv
        <5>3. QED
          BY <5>1, <5>2 DEF Identity, OwnInv
      <4>4. QED
        BY <4>2, <4>3
    <3>6. Service!Execute(t)
      BY <2>1, <2>3, <3>3, <3>4, <3>5 DEF Service!Execute
    <3>7. QED
      BY <3>6 DEF ServiceStep, Service!Next
  <2>4. QED
    BY <1>7, <2>2, <2>3 DEF Answer
<1>8. ASSUME NEW t \in Threads, Refuse(t) PROVE ServiceStep
  <2>1. pc[t] # "idle" /\ pc' = [pc EXCEPT ![t] = pc'[t]] /\ pc'[t] # "idle"
    BY <1>8 DEF Refuse, TypeOK
  <2>2. QED
    BY <1>8, <2>1, ServiceStutter DEF Refuse
<1>9. ASSUME NEW t \in Threads, StoreCookie(t) PROVE ServiceStep
  <2>1. pc[t] # "idle" /\ pc' = [pc EXCEPT ![t] = pc'[t]] /\ pc'[t] # "idle"
    BY <1>9 DEF StoreCookie, TypeOK
  <2>2. QED
    BY <1>9, <2>1, ServiceStutter DEF StoreCookie
<1>10. ASSUME NEW t \in Threads, StoreUser(t) PROVE ServiceStep
  <2>1. pc[t] # "idle" /\ pc' = [pc EXCEPT ![t] = pc'[t]] /\ pc'[t] # "idle"
    BY <1>10 DEF StoreUser, TypeOK
  <2>2. QED
    BY <1>10, <2>1, ServiceStutter DEF StoreUser
<1>11. ASSUME NEW t \in Threads, Reconnect(t) PROVE ServiceStep
  <2>1. pc[t] # "idle" /\ pc' = [pc EXCEPT ![t] = pc'[t]] /\ pc'[t] # "idle"
    BY <1>11 DEF Reconnect, TypeOK
  <2>2. QED
    BY <1>11, <2>1, ServiceStutter DEF Reconnect
<1>12. ASSUME NEW t \in Threads, ConnectCookie(t) PROVE ServiceStep
  <2>1. pc[t] # "idle" /\ pc' = [pc EXCEPT ![t] = pc'[t]] /\ pc'[t] # "idle"
    BY <1>12 DEF ConnectCookie, TypeOK
  <2>2. QED
    BY <1>12, <2>1, ServiceStutter DEF ConnectCookie
<1>13. ASSUME NEW t \in Threads, ConnectUser(t) PROVE ServiceStep
  <2>1. pc[t] # "idle" /\ pc' = [pc EXCEPT ![t] = pc'[t]] /\ pc'[t] # "idle"
    BY <1>13 DEF ConnectUser, Request, TypeOK
  <2>2. QED
    BY <1>13, <2>1, ServiceStutter DEF ConnectUser, Request
<1>14. ASSUME NEW t \in Threads, LoggedIn(t) PROVE ServiceStep
  <2>1. pc[t] # "idle" /\ pc' = [pc EXCEPT ![t] = pc'[t]] /\ pc'[t] # "idle"
    BY <1>14 DEF LoggedIn, Last, Request, TypeOK
  <2>2. QED
    BY <1>14, <2>1, ServiceStutter DEF LoggedIn, Last, Request
<1>15. ASSUME NEW t \in Threads, LoginError(t) PROVE ServiceStep
  <2>1. pc[t] = "check" /\ op[t] = "links" /\ execs[t] \in 0 .. 1
    BY <1>15 DEF LoginError, Last, OnceInv
  <2>2. execs[t] = 0
    BY <2>1 DEF OnceInv
  <2>3. QED
    BY <1>15, <2>1, <2>2, ServiceReturn DEF LoginError
<1>16. ASSUME NEW t \in Threads, CallReturn(t) PROVE ServiceStep
  <2>1. /\ pc[t] = "check" /\ op[t] = "call" /\ ~nested[t]
        /\ execs[t] \in 0 .. 1 /\ status[t] \in {0, 200, 401, 500}
    BY <1>16 DEF CallReturn, Last, OnceInv, TypeOK
  <2>2. CASE status[t] = 401
    <3>1. execs[t] = 0 /\ Return(t, "refused")
      BY <1>16, <2>1, <2>2 DEF CallReturn, OnceInv
    <3>2. QED
      BY <1>16, <2>1, <3>1, ServiceReturn DEF CallReturn
  <2>3. CASE status[t] # 401
    <3>1. (execs[t] = 1 \/ (execs[t] = 0 /\ Faults)) /\ Return(t, "answered")
      <4>1. status[t] = 200 => execs[t] = 1
        BY <2>1 DEF DoneInv
      <4>2. status[t] # 200 => Faults
        BY <2>1, <2>3 DEF DoneInv
      <4>3. execs[t] = 0 \/ execs[t] = 1
        BY <2>1
      <4>4. QED
        BY <1>16, <2>3, <4>1, <4>2, <4>3 DEF CallReturn
    <3>2. QED
      BY <1>16, <2>1, <3>1, ServiceReturn DEF CallReturn
  <2>4. QED
    BY <2>2, <2>3
<1>23. ASSUME NEW t \in Threads, RequestRaises(t) PROVE ServiceStep
  <2>1. pc[t] # "idle" /\ Faults /\ execs[t] \in {0, 1} /\ Return(t, "error")
    BY <1>23 DEF RequestRaises, OnceInv
  <2>2. UNCHANGED <<user, execs, ident, hfilter>>
    BY <1>23 DEF RequestRaises
  <2>3. QED
    BY <2>1, <2>2, ServiceReturn
<1>17. ASSUME NEW u \in Users, SwitchLogoff(u) PROVE ServiceStep
  BY <1>17 DEF SwitchLogoff, ServiceStep, Service!callVars, place
<1>18. CASE SwitchFilter
  BY <1>18 DEF SwitchFilter, ServiceStep, Service!callVars, place
<1>19. CASE SwitchUser
  <2>1. /\ user' = target /\ target \in Users
        /\ \A t \in Threads : place[t] = "idle"
    BY <1>19 DEF SwitchUser, PlaceInv, ConfigInv, place
  <2>2. place' = place /\ UNCHANGED <<ident, hfilter, result>>
    BY <1>19 DEF SwitchUser, place
  <2>3. Service!Switch(target)
    BY <2>1, <2>2 DEF Service!Switch
  <2>4. QED
    BY <2>1, <2>3 DEF ServiceStep, Service!Next
<1>20. ASSUME NEW s \in Sessions, Expire(s) PROVE ServiceStep
  BY <1>20 DEF Expire, ServiceStep, Service!callVars, place
<1>21. CASE UNCHANGED vars
  BY <1>21 DEF vars, ServiceStep, Service!callVars, place
<1>22. QED
    BY <1>1, <1>2, <1>3, <1>4, <1>5, <1>6, <1>7, <1>8, <1>9, <1>10, <1>11,
       <1>12, <1>13, <1>14, <1>15, <1>16, <1>17, <1>18, <1>19, <1>20, <1>21, <1>23
       DEF Next, Step

(* RestSession implements RestCalls while switches of the user do not       *)
(* overlap calls: a call is executed at most once, as the configured user,  *)
(* and, unless the engine or a connection fails, its result tells whether   *)
(* it was (HTTPProxy.__do_request, GetApi).                                 *)
THEOREM SessionRefinement == ASSUME ~Overlap PROVE Spec => ImplementsRestCalls
<1>1. Init => Service!Init
  BY DEF Init, Service!Init, place
<1>2. SessionInv /\ [Next]_vars => [Service!Next]_(Service!callVars)
  BY ServiceRefined DEF ServiceStep
<1>3. QED
  BY <1>1, <1>2, SessionInvariance, PTL DEF Spec, ImplementsRestCalls, Service!Spec

=============================================================================
