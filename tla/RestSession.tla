---------------------------- MODULE RestSession ----------------------------
(***************************************************************************)
(* How a REST call finds its connection and proves who it is:              *)
(*   GetApi     (rhevm_api/utils/test_utils.py)  the cache of RestUtils    *)
(*   RestUtil   (core_api/rest_utils.py)         login, logout, _restInit  *)
(*   HTTPProxy  (core_api/http.py)               cookie, last_active_user  *)
(*   loginAsUser (tests_lib/low_level/users.py)  the switch of the user    *)
(* Threads make calls on the proxies they share; the engine (external)     *)
(* opens sessions, lets them expire and executes what it accepts.  One     *)
(* action is one access to state that another thread can see.              *)
(***************************************************************************)
EXTENDS Naturals

CONSTANTS
    Threads,    \* threads of the test run that make REST calls
    Users,      \* users with valid credentials
    Elements,   \* (element, collection) pairs: the keys of the util cache
    Proxies,    \* HTTPProxy objects
    Sessions,   \* engine sessions: the values of the cookie
    None,       \* Python's None
    Overlap,    \* TRUE: the user may be switched while calls are under way
    Faults      \* TRUE: the engine may answer 500, and requests may raise

ASSUME SessionAssumption ==
    /\ None \notin Threads \cup Users \cup Proxies \cup Sessions
    /\ Users # {}
    /\ Overlap \in BOOLEAN
    /\ Faults \in BOOLEAN

VARIABLES
    \* settings.ART_CONFIG['REST_CONNECTION']
    user,       \* user, user_domain and password
    filter,     \* the user whose 'filter' is configured
    \* GetApi and RestUtil
    cache,      \* GetApi._util_cache: the proxy of each cached RestUtil
    rlock,      \* holder of GetApi.rlock
    restInit,   \* RestUtil._restInit
    \* HTTPProxy
    cookie, lastUser,
    pfilter,    \* the 'Filter' header set by login()
    \* the engine
    live,       \* sessions that are valid
    owner,      \* whose they are
    \* loginAsUser
    sw, target,
    \* a thread's call
    pc, elem, api,
    op,         \* the request under way: connect(), HEAD_for_links or the call
    nested,     \* it is inside the connect() that follows a 401
    repeat,     \* may still be sent again
    useCookie, hdr,
    status, setc,   \* answer: status and Set-Cookie
    result,
    \* history of the call
    asked,      \* the user configured when it began
    steady,     \* no switch of the user was under way since
    alone,      \* no call of another thread was under way since
    ident,      \* the user the engine executed it as
    hfilter,    \* the filter it was executed with
    execs       \* how many times it was executed (up to 2)

cfgVars  == <<user, filter>>
utilVars == <<cache, rlock, restInit>>
proxyVars == <<cookie, lastUser, pfilter>>
engineVars == <<live, owner>>
swVars == <<sw, target>>
reqVars == <<elem, api, op, nested, repeat, useCookie, hdr, status, setc, result>>
callHistory == <<asked, steady, alone, ident, hfilter, execs>>
vars == <<cfgVars, utilVars, proxyVars, engineVars, swVars, pc, reqVars, callHistory>>

NoHeader == [kind |-> "none", val |-> None]
PC == {"idle", "lock", "test", "value", "sent", "reply", "luser", "check", "cuser"}

Init ==
    /\ user \in Users /\ filter = user
    /\ cache = [e \in Elements |-> None] /\ rlock = None /\ restInit = None
    /\ cookie = [p \in Proxies |-> None]
    /\ lastUser = [p \in Proxies |-> None]
    /\ pfilter = [p \in Proxies |-> None]
    /\ live = {} /\ owner = [s \in Sessions |-> None]
    /\ sw = "idle" /\ target = None
    /\ pc = [t \in Threads |-> "idle"]
    /\ elem = [t \in Threads |-> None] /\ api = [t \in Threads |-> None]
    /\ op = [t \in Threads |-> "none"] /\ nested = [t \in Threads |-> FALSE]
    /\ repeat = [t \in Threads |-> FALSE] /\ useCookie = [t \in Threads |-> FALSE]
    /\ hdr = [t \in Threads |-> NoHeader]
    /\ status = [t \in Threads |-> 0] /\ setc = [t \in Threads |-> None]
    /\ result = [t \in Threads |-> "none"]
    /\ asked = [t \in Threads |-> None] /\ steady = [t \in Threads |-> FALSE]
    /\ alone = [t \in Threads |-> FALSE]
    /\ ident = [t \in Threads |-> None] /\ hfilter = [t \in Threads |-> None]
    /\ execs = [t \in Threads |-> 0]

-----------------------------------------------------------------------------
(* Getting the RestUtil.                                                   *)

Call(t, e) ==
    /\ pc[t] = "idle"
    /\ Overlap \/ sw = "idle"
    /\ pc' = [pc EXCEPT ![t] = "lock"]
    /\ elem' = [elem EXCEPT ![t] = e]
    /\ result' = [result EXCEPT ![t] = "none"]
    /\ asked' = [asked EXCEPT ![t] = user]
    /\ steady' = [steady EXCEPT ![t] = sw = "idle"]
    /\ alone' = [u \in Threads |->
                    u = t /\ \A v \in Threads \ {t} : pc[v] = "idle"]
    /\ ident' = [ident EXCEPT ![t] = None]
    /\ hfilter' = [hfilter EXCEPT ![t] = None]
    /\ execs' = [execs EXCEPT ![t] = 0]
    /\ UNCHANGED <<cfgVars, utilVars, proxyVars, engineVars, swVars,
                   api, op, nested, repeat, useCookie, hdr, status, setc>>

(* What __do_request knows of a request is forgotten when it is over.      *)
Forget(t) ==
    /\ useCookie' = [useCookie EXCEPT ![t] = FALSE]
    /\ hdr' = [hdr EXCEPT ![t] = NoHeader]
    /\ status' = [status EXCEPT ![t] = 0]
    /\ setc' = [setc EXCEPT ![t] = None]

(* Sends the request o of thread t over proxy p.                           *)
Request(t, p, o, r) ==
    /\ pc' = [pc EXCEPT ![t] = "test"]
    /\ api' = [api EXCEPT ![t] = p]
    /\ op' = [op EXCEPT ![t] = o]
    /\ repeat' = [repeat EXCEPT ![t] = r]
    /\ nested' = [nested EXCEPT ![t] = FALSE]
    /\ Forget(t)
    /\ UNCHANGED <<elem, result>>

(* GetApi.__getattr__ finds the RestUtil in its cache.                     *)
CacheHit(t) ==
    /\ pc[t] = "lock"
    /\ rlock = None
    /\ cache[elem[t]] # None
    /\ Request(t, cache[elem[t]], "call", TRUE)
    /\ UNCHANGED <<cfgVars, utilVars, proxyVars, engineVars, swVars, callHistory>>

(* It makes a new RestUtil, whose login() reuses the proxy of _restInit    *)
(* and only asks for the links ...                                         *)
LoginShared(t) ==
    /\ pc[t] = "lock"
    /\ rlock = None
    /\ cache[elem[t]] = None
    /\ restInit # None
    /\ rlock' = t
    /\ Request(t, restInit, "links", TRUE)
    /\ UNCHANGED <<cfgVars, cache, restInit, proxyVars, engineVars, swVars, callHistory>>

Unused(p) == (\A v \in Threads : api[v] # p) /\ (\A e \in Elements : cache[e] # p)

(* ... or makes a proxy (one that nobody refers to) and connects it.       *)
LoginNew(t) ==
    /\ pc[t] = "lock"
    /\ rlock = None
    /\ cache[elem[t]] = None
    /\ restInit = None
    /\ rlock' = t
    /\ LET p == CHOOSE q \in Proxies : Unused(q)
       IN  /\ p \in Proxies /\ Unused(p)
           /\ cookie' = [cookie EXCEPT ![p] = None]
           /\ lastUser' = [lastUser EXCEPT ![p] = None]
           /\ pfilter' = [pfilter EXCEPT ![p] = filter]
           /\ Request(t, p, "connect", FALSE)
    /\ UNCHANGED <<cfgVars, cache, restInit, engineVars, swVars, callHistory>>

-----------------------------------------------------------------------------
(* HTTPProxy.__do_request.                                                 *)

(* basic_headers: if self.cookie and last_active_user == current user ...  *)
TestCookie(t) ==
    /\ pc[t] = "test"
    /\ pc' = [pc EXCEPT ![t] = "value"]
    /\ useCookie' = [useCookie EXCEPT ![t] =
                        cookie[api[t]] # None /\ lastUser[api[t]] = user]
    /\ UNCHANGED <<cfgVars, utilVars, proxyVars, engineVars, swVars, elem, api,
                   op, nested, repeat, hdr, status, setc, result, callHistory>>

(* ... then self.cookie, read again, else the configured credentials.      *)
BuildHeader(t) ==
    /\ pc[t] = "value"
    /\ pc' = [pc EXCEPT ![t] = "sent"]
    /\ hdr' = [hdr EXCEPT ![t] =
                 IF useCookie[t] THEN [kind |-> "cookie", val |-> cookie[api[t]]]
                                 ELSE [kind |-> "auth", val |-> user]]
    /\ UNCHANGED <<cfgVars, utilVars, proxyVars, engineVars, swVars, elem, api,
                   op, nested, repeat, useCookie, status, setc, result, callHistory>>

Accepted(h) == h.kind = "auth" \/ h.val \in live
Identity(h) == IF h.kind = "auth" THEN h.val ELSE owner[h.val]
Referenced(s) ==
    \/ \E p \in Proxies : cookie[p] = s
    \/ \E t \in Threads : hdr[t].val = s \/ setc[t] = s

(* The engine accepts the request, opens a session for credentials, and    *)
(* executes the call; a fault may come before or after the execution.      *)
Answer(t) ==
    /\ pc[t] = "sent"
    /\ Accepted(hdr[t])
    /\ pc' = [pc EXCEPT ![t] = "reply"]
    /\ \E c \in IF Faults THEN {200, 500} ELSE {200},
          done \in IF Faults THEN BOOLEAN ELSE {TRUE} :
        /\ status' = [status EXCEPT ![t] = c]
        /\ c = 200 => done
        /\ IF done /\ op[t] = "call" /\ ~nested[t]
           THEN /\ ident' = [ident EXCEPT ![t] = Identity(hdr[t])]
                /\ hfilter' = [hfilter EXCEPT ![t] = pfilter[api[t]]]
                /\ execs' = [execs EXCEPT ![t] = IF @ < 2 THEN @ + 1 ELSE @]
           ELSE UNCHANGED <<ident, hfilter, execs>>
    /\ IF hdr[t].kind = "auth"
       THEN LET s == CHOOSE x \in Sessions : ~Referenced(x)
            IN  /\ s \in Sessions /\ ~Referenced(s)
                /\ live' = live \cup {s}
                /\ owner' = [owner EXCEPT ![s] = hdr[t].val]
                /\ setc' = [setc EXCEPT ![t] = s]
       ELSE /\ setc' = [setc EXCEPT ![t] = None]
            /\ UNCHANGED engineVars
    /\ UNCHANGED <<cfgVars, utilVars, proxyVars, swVars, elem, api, op, nested,
                   repeat, useCookie, hdr, result, asked, steady, alone>>

(* It refuses an expired session, and the text 'None' for a cookie.        *)
Refuse(t) ==
    /\ pc[t] = "sent"
    /\ ~Accepted(hdr[t])
    /\ pc' = [pc EXCEPT ![t] = "reply"]
    /\ status' = [status EXCEPT ![t] = 401]
    /\ setc' = [setc EXCEPT ![t] = None]
    /\ UNCHANGED <<cfgVars, utilVars, proxyVars, engineVars, swVars, elem, api, op,
                   nested, repeat, useCookie, hdr, result, callHistory>>

(* if headers.get('Authorization'): self.cookie = ...                      *)
StoreCookie(t) ==
    /\ pc[t] = "reply"
    /\ cookie' = IF hdr[t].kind = "auth" THEN [cookie EXCEPT ![api[t]] = setc[t]]
                                          ELSE cookie
    /\ pc' = [pc EXCEPT ![t] = IF hdr[t].kind = "auth" THEN "luser" ELSE "check"]
    /\ UNCHANGED <<cfgVars, utilVars, lastUser, pfilter, engineVars, swVars, reqVars,
                   callHistory>>

(* self.last_active_user = the user configured now.                        *)
StoreUser(t) ==
    /\ pc[t] = "luser"
    /\ pc' = [pc EXCEPT ![t] = "check"]
    /\ lastUser' = [lastUser EXCEPT ![api[t]] = user]
    /\ UNCHANGED <<cfgVars, utilVars, cookie, pfilter, engineVars, swVars, reqVars,
                   callHistory>>

(* Mutant: connect() too is sent again after a 401. *)
MayRepeatNested(t) == status[t] = 401 /\ cookie[api[t]] # None /\ repeat[t]

(* Mutant: any error is taken for an expired session. *)
MayRepeatErrors(t) ==
    status[t] >= 400 /\ cookie[api[t]] # None /\ repeat[t] /\ ~nested[t]

MayRepeat(t) ==
    status[t] = 401 /\ cookie[api[t]] # None /\ repeat[t] /\ ~nested[t]

(* if resp.status == 401 and self.cookie: if repeat: self.connect()        *)
Reconnect(t) ==
    /\ pc[t] = "check"
    /\ MayRepeat(t)
    /\ pc' = [pc EXCEPT ![t] = "test"]
    /\ nested' = [nested EXCEPT ![t] = TRUE]
    /\ Forget(t)
    /\ UNCHANGED <<cfgVars, utilVars, proxyVars, engineVars, swVars, elem, api, op,
                   repeat, result, callHistory>>

(* Mutant: the cookie is replaced only when the answer brings a new one. *)
ConnectKeepsCookie(t) ==
    /\ pc[t] = "check"
    /\ ~MayRepeat(t)
    /\ nested[t] \/ op[t] = "connect"
    /\ cookie' = [cookie EXCEPT ![api[t]] = IF setc[t] = None THEN @ ELSE setc[t]]
    /\ pc' = [pc EXCEPT ![t] = "cuser"]
    /\ UNCHANGED <<cfgVars, utilVars, lastUser, pfilter, engineVars, swVars, reqVars,
                   callHistory>>

(* connect(): self.cookie = response['Set-Cookie'] ...                     *)
ConnectCookie(t) ==
    /\ pc[t] = "check"
    /\ ~MayRepeat(t)
    /\ nested[t] \/ op[t] = "connect"
    /\ cookie' = [cookie EXCEPT ![api[t]] = setc[t]]
    /\ pc' = [pc EXCEPT ![t] = "cuser"]
    /\ UNCHANGED <<cfgVars, utilVars, lastUser, pfilter, engineVars, swVars, reqVars,
                   callHistory>>

(* ... self.last_active_user = the user; then the request is sent again    *)
(* for the last time, or login() goes on to HEAD_for_links.                *)
ConnectUser(t) ==
    /\ pc[t] = "cuser"
    /\ lastUser' = [lastUser EXCEPT ![api[t]] = user]
    /\ Request(t, api[t], IF nested[t] THEN op[t] ELSE "links", ~nested[t])
    /\ UNCHANGED <<cfgVars, utilVars, cookie, pfilter, engineVars, swVars, callHistory>>

Last(t, o) ==
    /\ pc[t] = "check"
    /\ ~MayRepeat(t)
    /\ ~nested[t]
    /\ op[t] = o

(* login() has the links: remember the proxy, cache the RestUtil, unlock.  *)
LoggedIn(t) ==
    /\ Last(t, "links")
    /\ status[t] < 300
    /\ restInit' = IF restInit = None THEN api[t] ELSE restInit
    /\ cache' = [cache EXCEPT ![elem[t]] = api[t]]
    /\ rlock' = None
    /\ Request(t, api[t], "call", TRUE)
    /\ UNCHANGED <<cfgVars, proxyVars, engineVars, swVars, callHistory>>

Return(t, r) ==
    /\ pc' = [pc EXCEPT ![t] = "idle"]
    /\ result' = [result EXCEPT ![t] = r]
    /\ api' = [api EXCEPT ![t] = None]
    /\ op' = [op EXCEPT ![t] = "none"]
    /\ repeat' = [repeat EXCEPT ![t] = FALSE]
    /\ elem' = [elem EXCEPT ![t] = None]
    /\ nested' = [nested EXCEPT ![t] = FALSE]
    /\ Forget(t)

(* APIException: the links could not be read; nothing is cached.           *)
LoginError(t) ==
    /\ Last(t, "links")
    /\ status[t] >= 300
    /\ rlock' = None
    /\ Return(t, "error")
    /\ UNCHANGED <<cfgVars, cache, restInit, proxyVars, engineVars, swVars, callHistory>>

CallReturn(t) ==
    /\ Last(t, "call")
    /\ Return(t, IF status[t] = 401 THEN "refused" ELSE "answered")
    /\ UNCHANGED <<cfgVars, utilVars, proxyVars, engineVars, swVars, callHistory>>

(* conn.request(), getresponse() or read() raises, before the engine has   *)
(* had the request or after it has answered: the exception ends the call   *)
(* from any depth, through the with of the lock if it is still logging in. *)
RequestRaises(t) ==
    /\ Faults
    /\ pc[t] \in {"sent", "reply"}
    /\ rlock' = IF rlock = t THEN None ELSE rlock
    /\ Return(t, "error")
    /\ UNCHANGED <<cfgVars, cache, restInit, proxyVars, engineVars, swVars, callHistory>>

-----------------------------------------------------------------------------
(* loginAsUser(u): logoff_api() under the lock, then the configuration.    *)

(* Mutant: the cached RestUtils survive the logoff. *)
SwitchKeepsCache(u) ==
    /\ sw = "idle"
    /\ u # user
    /\ Overlap \/ \A t \in Threads : pc[t] = "idle"
    /\ rlock = None
    /\ restInit' = None
    /\ sw' = "filter" /\ target' = u
    /\ steady' = [t \in Threads |-> FALSE]
    /\ UNCHANGED <<cfgVars, cache, rlock, proxyVars, engineVars, pc, reqVars,
                   asked, alone, ident, hfilter, execs>>

SwitchLogoff(u) ==
    /\ sw = "idle"
    /\ u # user
    /\ Overlap \/ \A t \in Threads : pc[t] = "idle"
    /\ rlock = None
    /\ restInit' = IF \E e \in Elements : cache[e] # None THEN None ELSE restInit
    /\ cache' = [e \in Elements |-> None]
    /\ sw' = "filter" /\ target' = u
    /\ steady' = [t \in Threads |-> FALSE]
    /\ UNCHANGED <<cfgVars, rlock, proxyVars, engineVars, pc, reqVars,
                   asked, alone, ident, hfilter, execs>>

SwitchFilter ==
    /\ sw = "filter"
    /\ filter' = target
    /\ sw' = "user"
    /\ UNCHANGED <<user, utilVars, proxyVars, engineVars, target, pc, reqVars, callHistory>>

SwitchUser ==
    /\ sw = "user"
    /\ user' = target
    /\ sw' = "idle" /\ target' = None
    /\ UNCHANGED <<filter, utilVars, proxyVars, engineVars, pc, reqVars, callHistory>>

(* A session may expire at any time.                                       *)
Expire(s) ==
    /\ s \in live
    /\ live' = live \ {s}
    /\ UNCHANGED <<cfgVars, utilVars, proxyVars, owner, swVars, pc, reqVars, callHistory>>

-----------------------------------------------------------------------------
Step(t) ==
    \/ CacheHit(t) \/ LoginShared(t) \/ LoginNew(t)
    \/ TestCookie(t) \/ BuildHeader(t) \/ Answer(t) \/ Refuse(t)
    \/ StoreCookie(t) \/ StoreUser(t) \/ Reconnect(t)
    \/ ConnectCookie(t) \/ ConnectUser(t)
    \/ LoggedIn(t) \/ LoginError(t) \/ CallReturn(t) \/ RequestRaises(t)

Next ==
    \/ \E t \in Threads : (\E e \in Elements : Call(t, e)) \/ Step(t)
    \/ \E u \in Users : SwitchLogoff(u)
    \/ SwitchFilter \/ SwitchUser
    \/ \E s \in Sessions : Expire(s)

Spec == Init /\ [][Next]_vars

(* A thread goes on with its call, and gets the lock when it is free again *)
(* and again.                                                              *)
FairSpec == Spec /\ \A t \in Threads : SF_vars(Step(t))

-----------------------------------------------------------------------------
(* Properties.                                                             *)

(* Type invariant.                                                         *)
TypeOK ==
    /\ user \in Users /\ filter \in Users
    /\ cache \in [Elements -> Proxies \cup {None}]
    /\ rlock \in Threads \cup {None} /\ restInit \in Proxies \cup {None}
    /\ cookie \in [Proxies -> Sessions \cup {None}]
    /\ lastUser \in [Proxies -> Users \cup {None}]
    /\ pfilter \in [Proxies -> Users \cup {None}]
    /\ live \subseteq Sessions /\ owner \in [Sessions -> Users \cup {None}]
    /\ sw \in {"idle", "filter", "user"} /\ target \in Users \cup {None}
    /\ pc \in [Threads -> PC]
    /\ elem \in [Threads -> Elements \cup {None}]
    /\ api \in [Threads -> Proxies \cup {None}]
    /\ op \in [Threads -> {"none", "connect", "links", "call"}]
    /\ nested \in [Threads -> BOOLEAN] /\ repeat \in [Threads -> BOOLEAN]
    /\ useCookie \in [Threads -> BOOLEAN]
    /\ hdr \in [Threads -> [kind : {"none", "cookie", "auth"},
                            val : Sessions \cup Users \cup {None}]]
    /\ status \in [Threads -> {0, 200, 401, 500}]
    /\ setc \in [Threads -> Sessions \cup {None}]
    /\ result \in [Threads -> {"none", "answered", "refused", "error"}]
    /\ asked \in [Threads -> Users \cup {None}]
    /\ steady \in [Threads -> BOOLEAN] /\ alone \in [Threads -> BOOLEAN]
    /\ ident \in [Threads -> Users \cup {None}]
    /\ hfilter \in [Threads -> Users \cup {None}]
    /\ execs \in [Threads -> 0..2]

(* "User will be used in next REST API call": a call that no switch of the *)
(* user overlaps is executed as the user configured when it began, with    *)
(* that user's filter, whichever proxy and session it was sent over.       *)
RightUser ==
    \A t \in Threads :
        steady[t] /\ ident[t] # None => ident[t] = asked[t] /\ hfilter[t] = asked[t]

(* Sending a request again after a 401 never executes it a second time.    *)
AtMostOnce == \A t \in Threads : execs[t] <= 1

(* "Repeat request in case of authorization error": a call of a user with  *)
(* valid credentials that no call of another thread overlaps is not        *)
(* refused, whatever cookies earlier calls of any thread have left behind  *)
(* and however often sessions expire.                                      *)
NeverRefused ==
    \A t \in Threads :
        alone[t] => /\ result[t] # "refused"
                    /\ result[t] = "error" => Faults

(* Between switches of the user the session is what its callers take it    *)
(* for: each call is executed once, as the configured user, or reported as *)
(* refused or as an error and not executed, although requests are sent     *)
(* twice, over proxies and with cookies that other threads replace.  Only  *)
(* a failing engine or connection leaves open whether it was executed.     *)
place ==
    [t \in Threads |-> IF pc[t] = "idle" THEN "idle"
                       ELSE <<"called", "executed", "repeated">>[execs[t] + 1]]

Service == INSTANCE RestCalls WITH st <- place, by <- ident, filteredBy <- hfilter

ImplementsRestCalls == Service!Spec

(* Every call comes back: __do_request sends a request a bounded number of *)
(* times and the lock of GetApi is released on every path.                 *)
CallsReturn == \A t \in Threads : (pc[t] # "idle") ~> (pc[t] = "idle")

-----------------------------------------------------------------------------
(* The inductive invariants behind AtMostOnce and RightUser.               *)

(* What a thread holds at each place of its call.                          *)
PlaceInv ==
    /\ sw # "idle" => target \in Users
    /\ \A t \in Threads :
        /\ pc[t] \in {"idle", "lock"} => api[t] = None
        /\ pc[t] \notin {"idle", "lock"} => api[t] \in Proxies
        /\ pc[t] # "idle" => elem[t] \in Elements
        /\ pc[t] \in {"idle", "lock"} => hdr[t] = NoHeader /\ setc[t] = None
        /\ hdr[t].kind = "none" => hdr[t].val = None
        /\ hdr[t].kind = "auth" => hdr[t].val \in Users
        /\ hdr[t].kind = "cookie" => hdr[t].val \in Sessions \cup {None}

(* A call that was executed is on its way back with an answer other than   *)
(* 401, so that it is not sent again.                                      *)
OnceInv ==
    \A t \in Threads :
        /\ execs[t] \in 0..1
        /\ execs[t] = 1 => /\ pc[t] \in {"idle", "reply", "luser", "check"}
                           /\ pc[t] # "idle" => /\ op[t] = "call"
                                                /\ ~nested[t]
                                                /\ status[t] # 401

(* An answer of the engine to a call tells that it was executed.           *)
DoneInv ==
    \A t \in Threads :
        pc[t] \in {"reply", "luser", "check"} =>
            /\ status[t] # 0
            /\ status[t] = 500 => Faults
            /\ status[t] = 200 /\ op[t] = "call" /\ ~nested[t] => execs[t] = 1

(* Without overlap: while calls are under way, or may begin, everything    *)
(* they can get hold of belongs to the configured user.                    *)
ConfigInv ==
    /\ sw # "idle" => /\ \A t \in Threads : pc[t] = "idle"
                      /\ restInit = None
                      /\ \A e \in Elements : cache[e] = None
    /\ sw = "user" => filter = target
    /\ sw = "idle" => filter = user
    /\ restInit # None => \E e \in Elements : cache[e] # None
    /\ \A t \in Threads : pc[t] # "idle" => asked[t] = user

Theirs(p) == pfilter[p] = user /\ (cookie[p] # None => owner[cookie[p]] = user)

OwnInv ==
    /\ restInit # None => Theirs(restInit)
    /\ \A e \in Elements : cache[e] # None => Theirs(cache[e])
    /\ \A t \in Threads :
        /\ api[t] # None => Theirs(api[t])
        /\ hdr[t].kind = "auth" => hdr[t].val = user
        /\ hdr[t].kind = "cookie" /\ hdr[t].val # None => owner[hdr[t].val] = user
        /\ setc[t] # None => owner[setc[t]] = user

(* What a request that no other call disturbs knows of its proxy: a cookie *)
(* it was sent with is still there.  The connect() after a 401 is sent     *)
(* with the cookie that was refused, and so leaves no cookie behind; the   *)
(* request that may not be repeated finds none and sends the credentials.  *)
Undisturbed(t) ==
    LET left == cookie[api[t]] # None /\ lastUser[api[t]] = user
    IN  /\ pc[t] = "test" /\ nested[t] => left
        /\ pc[t] = "test" /\ ~nested[t] /\ ~repeat[t] => cookie[api[t]] = None
        /\ pc[t] = "value" =>
            /\ useCookie[t] => left
            /\ nested[t] => useCookie[t]
            /\ ~nested[t] /\ ~repeat[t] => ~useCookie[t]
        /\ pc[t] \in {"sent", "reply", "luser", "check"} =>
            /\ hdr[t].kind \in {"cookie", "auth"}
            /\ nested[t] => hdr[t].kind = "cookie"
            /\ ~nested[t] /\ ~repeat[t] => hdr[t].kind = "auth"
            /\ hdr[t].kind = "cookie" => left
        /\ pc[t] \in {"reply", "luser", "check"} =>
            /\ status[t] = 401 => hdr[t].kind = "cookie"
            /\ status[t] = 500 => Faults
            /\ hdr[t].kind = "cookie" => setc[t] = None
        /\ pc[t] = "luser" => hdr[t].kind = "auth"
        /\ pc[t] = "cuser" /\ nested[t] => cookie[api[t]] = None

AloneInv ==
    \A t \in Threads : alone[t] =>
        /\ result[t] # "refused"
        /\ result[t] = "error" => Faults
        /\ pc[t] # "idle" => /\ \A v \in Threads \ {t} : pc[v] = "idle"
                             /\ Undisturbed(t)

(* The inductive invariant: executed calls are not repeated, and without   *)
(* overlapping switches all identities in reach are the configured user's  *)
(* and a call that runs alone gets through.                                *)
SessionInv ==
    /\ TypeOK /\ PlaceInv /\ OnceInv /\ DoneInv
    /\ ~Overlap => ConfigInv /\ OwnInv /\ RightUser /\ AloneInv

=============================================================================
