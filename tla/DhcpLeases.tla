----------------------------- MODULE DhcpLeases -----------------------------
(***************************************************************************)
(* How the address of a VM is learnt from the DHCP traffic of the hosts    *)
(*   TCPDumpParser, SSHProducer, DHCPLeasesCatcher (utils/mac2ip.py)       *)
(*   Mac2IpConvertor        (pytest_customization/_pytest_art/mac2ip.py)   *)
(* One thread per host reads tcpdump and hands every line to the one       *)
(* parser they share; the main thread starts them, converts MACs to IPs    *)
(* and stops them.  One action is one access to what another thread sees.  *)
(* A line is the set of patterns it matches: one, or none, or, after a     *)
(* reconnection that joined two lines, those of both.                      *)
(***************************************************************************)
EXTENDS Naturals, Sequences

CONSTANTS
    Hosts,          \* number of hosts
    Macs, Ips, None,
    Timeout, Step,  \* add_reader: timeout, longest sleep
    Attempts,       \* polls of convertMacToIp
    Asked,          \* what it is called with: MACs and their spelling
    Replies,        \* the DHCP replies that hosts may receive
    MaxPackets,     \* bound on their number
    MaxChunk,       \* bound on the lines that one recv() returns
    Cuts,           \* whether recv() may end within a line
    MaxDrops        \* bound on lost connections

Readers == 1..Hosts

Spellings == {"AA:BB", "aa:bb", "AA-BB"}

Spelled == Macs \X Spellings

Packets == [mac : Macs, ip : Ips, gw : BOOLEAN, kind : {"ack", "nak"}]

Tag(t, v) == [tag |-> t, val |-> v]

\* What the patterns of the parser find in a line.
Tagged ==
    {Tag("reply", None), Tag("server", None), Tag("gw", None)}
    \cup { Tag("your", i) : i \in Ips }
    \cup { Tag("mac", <<a, "aa:bb">>) : a \in Macs }
    \cup { Tag("msg", kind) : kind \in {"ack", "nak"} }

ASSUME LeasesAssumption ==
    /\ {Hosts, Timeout, Step, Attempts, MaxPackets, MaxChunk, MaxDrops} \subseteq Nat
    /\ Hosts > 0 /\ Attempts > 0
    /\ Asked \subseteq Spelled /\ Replies \subseteq Packets
    /\ Cuts \subseteq BOOLEAN
    /\ None \notin Macs \cup Ips \cup Spelled \cup {"session", "CanNotFindIP"}
    /\ None \notin [line : SUBSET Tagged, stale : BOOLEAN]
    /\ "CanNotFindIP" \notin Ips

VARIABLES
    \* TCPDumpParser and the cache of DHCPLeasesCatcher
    st, ip, mac, cache,
    \* SSHProducer; chan and err are what waits in its channel
    pc, chan, err,
    out,    \* the incomplete last line
    data,   \* complete lines still to be parsed
    line, k, held,  \* parse_line: the line, the place in the if chain, a local
    ready, exit, m,
    \* main thread
    main, cur, waited, want, tries, answer,
    \* history
    acked,  \* leases acknowledged in a reply that tcpdump printed
    last,   \* the last one of each MAC
    known,  \* the cache had a lease when the conversion began
    sent, drops,
    printed,    \* what tcpdump printed: the reply and number of each line
    parsed      \* how many of these lines the parser was given

parser == <<st, ip, mac, cache>>
reader == <<pc, chan, err, out, data, line, k, held, ready, exit, m>>
mainVars == <<main, cur, waited, want, tries, answer>>
history == <<acked, last, known, sent, drops, printed, parsed>>
vars == <<parser, reader, mainVars, history>>

-----------------------------------------------------------------------------
(* The output of tcpdump *)

\* The lines of a BOOTP reply that tcpdump -v prints, as the parser knows them.
Lines(p) ==
    IF p.gw
    THEN << {}, {Tag("reply", None)}, {Tag("your", p.ip)},
            {Tag("server", None)}, {Tag("gw", None)},
            {Tag("mac", <<p.mac, "aa:bb">>)}, {}, {Tag("msg", p.kind)} >>
    ELSE << {}, {Tag("reply", None)}, {Tag("your", p.ip)},
            {Tag("server", None)},
            {Tag("mac", <<p.mac, "aa:bb">>)}, {}, {Tag("msg", p.kind)} >>

Numbered(p) == [j \in 1 .. Len(Lines(p)) |-> <<p, j>>]

Collecting(r) == pc[r] \notin {"off", "top", "open", "dead"}

TcpdumpPrints(r, p) ==
    /\ Collecting(r)
    /\ sent < MaxPackets
    /\ sent' = sent + 1
    /\ chan' = [chan EXCEPT ![r] = @ \o Lines(p)]
    /\ printed' = [printed EXCEPT ![r] = @ \o Numbered(p)]
    /\ IF p.kind = "ack"
       THEN /\ acked' = acked \cup {<<p.mac, p.ip>>}
            /\ last' = [last EXCEPT ![p.mac] = p.ip]
       ELSE UNCHANGED <<acked, last>>
    /\ UNCHANGED <<parser, pc, err, out, data, line, k, held, ready, exit, m,
                   mainVars, known, drops, parsed>>

-----------------------------------------------------------------------------
(* TCPDumpParser *)

Chain == <<"UNKNOWN", "REPLY", "CL_IP", "SER_IP", "GW_IP", "MSG">>

Matches(l, tag) == \E t \in l : t.tag = tag

Group(l, tag) == (CHOOSE t \in l : t.tag = tag).val

\* Mutant: the MAC is kept as it is written.
keep_mac_format(a) == a

unify_mac_format(a) == <<a[1], "AA:BB">>

\* The pattern a state waits for and the state it leads to; S_MSG is apart.
Expect ==
    { <<"UNKNOWN", "reply", "REPLY">>, <<"REPLY", "your", "CL_IP">>,
      <<"CL_IP", "server", "SER_IP">>, <<"SER_IP", "gw", "GW_IP">>,
      <<"SER_IP", "mac", "MSG">>, <<"GW_IP", "mac", "MSG">> }

Saw(r) == { e \in Expect : e[1] = Chain[k[r]] /\ Matches(line[r], e[2]) }

Place(s) == CHOOSE i \in 1..Len(Chain) : Chain[i] = s

\* The if chain reads self.st once for each state it compares it with, from
\* the k-th on.  Only another thread can change self.st meanwhile.
Compare(r) ==
    /\ pc[r] = "cmp"
    /\ \/ /\ k[r] <= Place(st)
          /\ k' = [k EXCEPT ![r] = Place(st)]
          /\ pc' = [pc EXCEPT ![r] = "body"]
       \/ /\ k[r] > Place(st)
          /\ pc' = [pc EXCEPT ![r] = "reset"]
          /\ UNCHANGED k
       \/ /\ \E q \in Readers \ {r} : Collecting(q)
          /\ \E j \in k[r] + 1 .. Place(st) : k' = [k EXCEPT ![r] = j]
          /\ UNCHANGED pc
    /\ UNCHANGED <<parser, chan, err, out, data, line, held, ready, exit, m,
                   mainVars, history>>

\* What was matched is stored in self.ip or self.mac before self.st is set.
Advance(r) ==
    /\ pc[r] = "body"
    /\ \E e \in Saw(r) :
        /\ held' = [held EXCEPT ![r] = e[3]]
        /\ ip' = IF e[2] = "your" THEN Group(line[r], "your") ELSE ip
        /\ mac' = IF e[2] = "mac" THEN unify_mac_format(Group(line[r], "mac"))
                  ELSE mac
    /\ pc' = [pc EXCEPT ![r] = "set"]
    /\ UNCHANGED <<st, cache, chan, err, out, data, line, k, ready, exit, m,
                   mainVars, history>>

SetState(r) ==
    /\ pc[r] = "set"
    /\ st' = held[r]
    /\ held' = [held EXCEPT ![r] = None]
    /\ pc' = [pc EXCEPT ![r] = "feed"]
    /\ UNCHANGED <<ip, mac, cache, chan, err, out, data, line, k, ready,
                   exit, m, mainVars, history>>

\* Mutant: every message ends in a store.
MessageStepAny(l) == IF Matches(l, "msg") THEN "load" ELSE "feed"

\* Mutant: the first line after the MAC must be the message.
MessageStepFirst(l) ==
    IF Matches(l, "msg") /\ Group(l, "msg") = "ack" THEN "load" ELSE "reset"

\* The state after a line in S_MSG: store, wait for a reply or go on waiting.
MessageStep(l) ==
    IF ~ Matches(l, "msg") THEN "feed"
    ELSE IF Group(l, "msg") = "ack" THEN "load" ELSE "reset"

Message(r) ==
    /\ pc[r] = "body" /\ Chain[k[r]] = "MSG"
    /\ pc' = [pc EXCEPT ![r] = MessageStep(line[r])]
    /\ UNCHANGED <<parser, chan, err, out, data, line, k, held, ready, exit, m,
                   mainVars, history>>

NoMatch(r) ==
    /\ pc[r] = "body" /\ Chain[k[r]] # "MSG" /\ Saw(r) = {}
    /\ pc' = [pc EXCEPT ![r] = "reset"]
    /\ UNCHANGED <<parser, chan, err, out, data, line, k, held, ready, exit, m,
                   mainVars, history>>

\* self.c[self.mac] = self.ip reads self.ip first.
LoadIp(r) ==
    /\ pc[r] = "load"
    /\ held' = [held EXCEPT ![r] = ip]
    /\ pc' = [pc EXCEPT ![r] = "store"]
    /\ UNCHANGED <<parser, chan, err, out, data, line, k, ready, exit, m,
                   mainVars, history>>

\* Mutant: the first lease of a MAC stays.
StoreMacFirst(r) ==
    /\ pc[r] = "store"
    /\ cache' = [cache EXCEPT ![mac] = IF @ = None THEN held[r] ELSE @]
    /\ held' = [held EXCEPT ![r] = None]
    /\ pc' = [pc EXCEPT ![r] = "reset"]
    /\ UNCHANGED <<st, ip, mac, chan, err, out, data, line, k, ready,
                   exit, m, mainVars, history>>

StoreMac(r) ==
    /\ pc[r] = "store"
    /\ cache' = [cache EXCEPT ![mac] = held[r]]
    /\ held' = [held EXCEPT ![r] = None]
    /\ pc' = [pc EXCEPT ![r] = "reset"]
    /\ UNCHANGED <<st, ip, mac, chan, err, out, data, line, k, ready,
                   exit, m, mainVars, history>>

Reset(r) ==
    /\ pc[r] = "reset"
    /\ st' = "UNKNOWN"
    /\ pc' = [pc EXCEPT ![r] = "feed"]
    /\ UNCHANGED <<ip, mac, cache, chan, err, out, data, line, k, held, ready,
                   exit, m, mainVars, history>>

ParseLine(r) ==
    \/ Compare(r) \/ Advance(r) \/ SetState(r) \/ Message(r) \/ NoMatch(r)
    \/ LoadIp(r) \/ StoreMac(r) \/ Reset(r)

-----------------------------------------------------------------------------
(* SSHProducer *)

\* The end of the with block and of collecting(), by an exception or not.
Leave(r) ==
    /\ pc' = [pc EXCEPT ![r] = "top"]
    /\ chan' = [chan EXCEPT ![r] = << >>]
    /\ err' = [err EXCEPT ![r] = FALSE]
    /\ printed' = [printed EXCEPT ![r] = << >>]
    /\ parsed' = [parsed EXCEPT ![r] = 0]

\* Mutant: the reader reconnects after stop().
TopForever(r) ==
    /\ pc[r] = "top"
    /\ pc' = [pc EXCEPT ![r] = "open"]
    /\ m' = [m EXCEPT ![r] = "session"]
    /\ UNCHANGED <<parser, chan, err, out, data, line, k, held, ready, exit,
                   mainVars, history>>

Top(r) ==
    /\ pc[r] = "top"
    /\ IF exit[r]
       THEN pc' = [pc EXCEPT ![r] = "dead"] /\ UNCHANGED m
       ELSE /\ pc' = [pc EXCEPT ![r] = "open"]
            /\ m' = [m EXCEPT ![r] = "session"]
    /\ UNCHANGED <<parser, chan, err, out, data, line, k, held, ready, exit,
                   mainVars, history>>

\* tcpdump says on stderr that it is listening.
Open(r) ==
    /\ pc[r] = "open" /\ m[r] # None
    /\ pc' = [pc EXCEPT ![r] = "loop"]
    /\ err' = [err EXCEPT ![r] = TRUE]
    /\ UNCHANGED <<parser, chan, out, data, line, k, held, ready, exit, m,
                   mainVars, history>>

\* stop() has set self.m to None.
OpenNone(r) ==
    /\ pc[r] = "open" /\ m[r] = None
    /\ Leave(r)
    /\ UNCHANGED <<parser, out, data, line, k, held, ready, exit, m, mainVars,
                   acked, last, known, sent, drops>>

\* The host does not answer.
OpenFails(r) ==
    /\ pc[r] = "open" /\ drops < MaxDrops
    /\ drops' = drops + 1
    /\ Leave(r)
    /\ UNCHANGED <<parser, out, data, line, k, held, ready, exit, m, mainVars,
                   acked, last, known, sent>>

\* Mutant: an incomplete line is dropped.
PendingForgets(r) == chan[r]

\* What can be read: the rest of the incomplete line comes first.  After a
\* reconnection it is the beginning of the first line of the new output.
Pending(r) ==
    IF out[r] = None THEN chan[r]
    ELSE IF ~ out[r].stale THEN <<out[r].line>> \o chan[r]
    ELSE IF chan[r] = << >> THEN << >>
    ELSE <<out[r].line \cup Head(chan[r])>> \o Tail(chan[r])

\* recv() returns any number of characters: n lines, and part of one more.
Recv(r, n, cut) ==
    LET p == Pending(r)
        used == IF cut THEN n + 1 ELSE n
    IN  /\ pc[r] = "loop" /\ ~ exit[r]
        /\ n <= MaxChunk /\ used <= Len(p)
        /\ n > 0 \/ (cut /\ out[r] = None)
        /\ data' = [data EXCEPT ![r] = SubSeq(p, 1, n)]
        /\ out' = [out EXCEPT ![r] =
                     IF cut THEN [line |-> p[used], stale |-> FALSE]
                     ELSE None]
        /\ chan' = [chan EXCEPT ![r] = SubSeq(p, used + 1, Len(p))]
        /\ ready' = [ready EXCEPT ![r] = TRUE]
        /\ pc' = [pc EXCEPT ![r] = "feed"]
        /\ UNCHANGED <<parser, err, line, k, held, exit, m, mainVars, history>>

RecvStderr(r) ==
    /\ pc[r] = "loop" /\ ~ exit[r] /\ err[r]
    /\ err' = [err EXCEPT ![r] = FALSE]
    /\ ready' = [ready EXCEPT ![r] = TRUE]
    /\ pc' = [pc EXCEPT ![r] = "feed"]
    /\ UNCHANGED <<parser, chan, out, data, line, k, held, exit, m, mainVars,
                   history>>

Feed(r) ==
    /\ pc[r] = "feed"
    /\ k' = [k EXCEPT ![r] = 1]
    /\ IF data[r] = << >>
       THEN /\ pc' = [pc EXCEPT ![r] = "loop"]
            /\ line' = [line EXCEPT ![r] = {}]
            /\ UNCHANGED <<data, parsed>>
       ELSE /\ line' = [line EXCEPT ![r] = Head(data[r])]
            /\ data' = [data EXCEPT ![r] = Tail(@)]
            /\ parsed' = [parsed EXCEPT ![r] = @ + 1]
            /\ pc' = [pc EXCEPT ![r] = "cmp"]
    /\ UNCHANGED <<parser, chan, err, out, held, ready, exit, m, mainVars,
                   acked, last, known, sent, drops, printed>>

\* The connection is lost, perhaps in the middle of a line: self.out and the
\* state of the parser stay.  The cut line matches its pattern already, or not.
Drop(r) ==
    /\ pc[r] = "loop" /\ drops < MaxDrops
    /\ drops' = drops + 1
    /\ out' \in { [out EXCEPT ![r] =
                     IF out[r] = None THEN None
                     ELSE [line |-> l, stale |-> TRUE]] :
                  l \in IF out[r] = None THEN {{}} ELSE {{}, out[r].line} }
    /\ Leave(r)
    /\ UNCHANGED <<parser, data, line, k, held, ready, exit, m, mainVars,
                   acked, last, known, sent>>

Finish(r) ==
    /\ pc[r] = "loop" /\ exit[r]
    /\ Leave(r)
    /\ UNCHANGED <<parser, out, data, line, k, held, ready, exit, m, mainVars,
                   acked, last, known, sent, drops>>

Collect(r) ==
    \/ Top(r) \/ Open(r) \/ OpenNone(r) \/ RecvStderr(r) \/ Feed(r)
    \/ Finish(r) \/ ParseLine(r)
    \/ \E n \in 0..Len(Pending(r)), cut \in Cuts : Recv(r, n, cut)

-----------------------------------------------------------------------------
(* The main thread: Mac2IpConvertor and DHCPLeasesCatcher *)

AddReader ==
    /\ main = "add" /\ cur <= Hosts
    /\ pc' = [pc EXCEPT ![cur] = "top"]
    /\ main' = "wait"
    /\ waited' = 0
    /\ UNCHANGED <<parser, chan, err, out, data, line, k, held, ready, exit, m,
                   cur, want, tries, answer, history>>

ReaderReady ==
    /\ main = "wait" /\ ready[cur]
    /\ cur' = cur + 1
    /\ main' = IF cur = Hosts THEN "run" ELSE "add"
    /\ waited' = 0
    /\ UNCHANGED <<parser, reader, want, tries, answer, history>>

\* ReaderIsNotReady leaves pytest_art_ensure_resources.
ReaderNotReady ==
    /\ main = "wait" /\ ~ ready[cur] /\ waited > Timeout
    /\ main' = "failed"
    /\ UNCHANGED <<parser, reader, cur, waited, want, tries, answer, history>>

ReaderSleep ==
    /\ main = "wait" /\ ~ ready[cur] /\ waited <= Timeout
    /\ \E s \in 1..Step : waited' = waited + s
    /\ UNCHANGED <<parser, reader, main, cur, want, tries, answer, history>>

convertMacToIp(a) ==
    /\ main = "run"
    /\ main' = "poll"
    /\ want' = a
    /\ tries' = 0
    /\ answer' = None
    /\ known' = \E s \in Spellings : cache[<<a[1], s>>] # None
    /\ UNCHANGED <<parser, reader, cur, waited, acked, last, sent, drops,
                   printed, parsed>>

get_ip(a) == cache[unify_mac_format(a)]

\* One turn of the loop of wrapper(), and CanNotFindIP after the last one.
Poll ==
    /\ main = "poll"
    /\ IF get_ip(want) # None
       THEN main' = "run" /\ answer' = get_ip(want) /\ UNCHANGED tries
       ELSE IF tries + 1 < Attempts
       THEN tries' = tries + 1 /\ UNCHANGED <<main, answer>>
       ELSE main' = "run" /\ answer' = "CanNotFindIP" /\ UNCHANGED tries
    /\ UNCHANGED <<parser, reader, cur, waited, want, history>>

Release ==
    /\ main \in {"run", "failed"}
    /\ main' = "stop"
    /\ cur' = 1
    /\ UNCHANGED <<parser, reader, waited, want, tries, answer, history>>

Started == { r \in Readers : pc[r] # "off" }

StopExit ==
    /\ main = "stop" /\ cur \in Started
    /\ exit' = [exit EXCEPT ![cur] = TRUE]
    /\ main' = "close"
    /\ UNCHANGED <<parser, pc, chan, err, out, data, line, k, held, ready, m,
                   cur, waited, want, tries, answer, history>>

StopClose ==
    /\ main = "close"
    /\ m' = [m EXCEPT ![cur] = None]
    /\ cur' = cur + 1
    /\ main' = "stop"
    /\ UNCHANGED <<parser, pc, chan, err, out, data, line, k, held, ready, exit,
                   waited, want, tries, answer, history>>

Stopped ==
    /\ main = "stop" /\ cur \notin Started
    /\ main' = "done"
    /\ UNCHANGED <<parser, reader, cur, waited, want, tries, answer, history>>

\* What a call of the main thread does once it was made.
Proceed ==
    \/ AddReader \/ ReaderReady \/ ReaderNotReady \/ ReaderSleep \/ Poll
    \/ StopExit \/ StopClose \/ Stopped

Main == Proceed \/ Release \/ \E a \in Asked : convertMacToIp(a)

-----------------------------------------------------------------------------

Init ==
    /\ st = "UNKNOWN" /\ ip = None /\ mac = None
    /\ cache = [a \in Spelled |-> None]
    /\ pc = [r \in Readers |-> "off"]
    /\ chan = [r \in Readers |-> << >>]
    /\ err = [r \in Readers |-> FALSE]
    /\ out = [r \in Readers |-> None]
    /\ data = [r \in Readers |-> << >>]
    /\ line = [r \in Readers |-> {}]
    /\ k = [r \in Readers |-> 1]
    /\ held = [r \in Readers |-> None]
    /\ ready = [r \in Readers |-> FALSE]
    /\ exit = [r \in Readers |-> FALSE]
    /\ m = [r \in Readers |-> None]
    /\ main = "add" /\ cur = 1 /\ waited = 0
    /\ want = None /\ tries = 0 /\ answer = None
    /\ acked = {} /\ last = [a \in Macs |-> None] /\ known = FALSE
    /\ sent = 0 /\ drops = 0
    /\ printed = [r \in Readers |-> << >>]
    /\ parsed = [r \in Readers |-> 0]

\* Every thread has ended.
Ended == main = "done" /\ \A r \in Started : pc[r] = "dead"

Next ==
    \/ Main
    \/ \E r \in Readers :
        \/ Collect(r) \/ OpenFails(r) \/ Drop(r)
        \/ \E p \in Replies : TcpdumpPrints(r, p)
    \/ Ended /\ UNCHANGED vars

Spec == Init /\ [][Next]_vars

\* The interpreter runs every thread; select() returns after its timeout.  The
\* test run need not end.
FairSpec ==
    /\ Spec
    /\ WF_vars(Proceed)
    /\ \A r \in Readers : WF_vars(Collect(r))

-----------------------------------------------------------------------------

\* An address in the cache was leased to that MAC: tcpdump printed the reply
\* that acknowledged it (TCPDumpParser.parse_line).  After a lost connection
\* that need not be: a reply that is cut off leaves its address in the parser.
LeaseTrue ==
    drops = 0 =>
        \A a \in Macs : LET i == cache[<<a, "AA:BB">>]
                        IN  i # None => <<a, i>> \in acked

\* When the reader has parsed all that tcpdump printed, however it was cut
\* into chunks, and no connection was lost, the cache holds the last lease of
\* every MAC.
LatestLease ==
    (Hosts = 1 /\ drops = 0 /\ pc[1] = "loop" /\ Pending(1) = << >>) =>
        \A a \in Macs : cache[<<a, "AA:BB">>] = last[a]

\* convertMacToIp raises CanNotFindIP only if it had no lease of that MAC when
\* it was called, whatever the spelling of the MAC it was given.
NoFalseMiss == answer = "CanNotFindIP" => ~ known

\* stop() ends the threads, whatever they were doing: opening the session,
\* waiting in select() or parsing.
StopEnds == (main = "done") ~> Ended

\* An acknowledged lease reaches the cache unless the readers are stopped or a
\* connection is lost.
LeaseCaught ==
    \A a \in Macs : (last[a] # None) ~>
        \/ cache[<<a, "AA:BB">>] # None
        \/ drops > 0 \/ \E r \in Readers : exit[r]

-----------------------------------------------------------------------------
(* The inductive invariant behind the properties.                          *)

States == { Chain[i] : i \in 1 .. Len(Chain) }

Line == SUBSET Tagged

ParserType ==
    /\ st \in States
    /\ ip \in Ips \cup {None}
    /\ mac \in (Macs \X {"AA:BB"}) \cup {None}
    /\ cache \in [Spelled -> Ips \cup {None}]

ReaderType ==
    /\ pc \in [Readers -> {"off", "top", "open", "loop", "feed", "cmp", "body",
                           "set", "load", "store", "reset", "dead"}]
    /\ chan \in [Readers -> Seq(Line)]
    /\ err \in [Readers -> BOOLEAN]
    /\ out \in [Readers -> [line : Line, stale : BOOLEAN] \cup {None}]
    /\ data \in [Readers -> Seq(Line)]
    /\ line \in [Readers -> Line]
    /\ k \in [Readers -> 1 .. Len(Chain)]
    /\ held \in [Readers -> Ips \cup States \cup {None}]
    /\ ready \in [Readers -> BOOLEAN] /\ exit \in [Readers -> BOOLEAN]
    /\ m \in [Readers -> {None, "session"}]

MainType ==
    /\ main \in {"add", "wait", "failed", "run", "poll", "stop", "close", "done"}
    /\ cur \in 1 .. Hosts + 1
    /\ waited \in 0 .. Timeout + Step
    /\ want \in Spelled \cup {None}
    /\ tries \in 0 .. Attempts - 1
    /\ answer \in Ips \cup {None, "CanNotFindIP"}

HistoryType ==
    /\ acked \subseteq Macs \X Ips
    /\ last \in [Macs -> Ips \cup {None}]
    /\ known \in BOOLEAN
    /\ sent \in Nat /\ drops \in Nat
    /\ printed \in [Readers -> Seq(Packets \X Nat)]
    /\ parsed \in [Readers -> Nat]

TypeOK == ParserType /\ ReaderType /\ MainType /\ HistoryType

\* The main thread starts each reader once.
StartInv ==
    /\ main \in {"add", "wait", "close"} => cur \in Readers
    /\ \A r \in Readers :
        (main = "add" /\ r >= cur) \/ (main = "wait" /\ r > cur) => pc[r] = "off"

\* What the parser has in a state: self.ip and self.mac, once set, stay set.
Has(s) ==
    /\ s \notin {"UNKNOWN", "REPLY"} => ip # None
    /\ s = "MSG" => mac # None

\* Whatever the order of the readers' steps, a store has an address and a MAC.
StoreInv ==
    /\ Has(st)
    /\ \A r \in Readers :
        /\ pc[r] = "body" => Has(Chain[k[r]])
        /\ pc[r] = "set" => held[r] \in States /\ Has(held[r])
        /\ pc[r] \in {"load", "store"} => Has("MSG")
        /\ pc[r] = "store" => held[r] \in Ips

\* A lease stays in the cache, under the unified spelling of its MAC.
AnswerInv ==
    /\ \A a \in Macs, s \in Spellings \ {"AA:BB"} : cache[<<a, s>>] = None
    /\ main = "poll" => /\ want \in Spelled
                        /\ known => get_ip(want) # None
    /\ NoFalseMiss

\* A thread that has not left its first connection.
Reading(r) == pc[r] # "dead" /\ ~ (pc[r] = "top" /\ exit[r])

\* Line i of what was printed follows the one before it, in the same reply or
\* as the first of the next.
Follows(s, i) ==
    /\ s[i][2] \in 1 .. Len(Lines(s[i][1]))
    /\ IF s[i][2] = 1 THEN i = 1 \/ s[i - 1][2] = Len(Lines(s[i - 1][1]))
       ELSE i > 1 /\ s[i - 1] = <<s[i][1], s[i][2] - 1>>
    /\ i = Len(s) => s[i][2] = Len(Lines(s[i][1]))

LineOf(x) == Lines(x[1])[x[2]]

\* However recv() cut them, the lines reach the parser whole and in order.
StreamOf(r) ==
    /\ pc[r] \in {"off", "top", "open"} => printed[r] = << >>
    /\ out[r] # None => ~ out[r].stale
    /\ Len(printed[r]) = parsed[r] + Len(data[r]) + Len(Pending(r))
    /\ \A i \in 1 .. Len(data[r]) :
        data[r][i] = LineOf(printed[r][parsed[r] + i])
    /\ \A i \in 1 .. Len(Pending(r)) :
        Pending(r)[i] = LineOf(printed[r][parsed[r] + Len(data[r]) + i])
    /\ pc[r] \notin {"feed", "cmp", "body", "set", "load", "store", "reset"} =>
        data[r] = << >>
    /\ pc[r] \in {"cmp", "body", "set", "load", "store", "reset"} =>
        parsed[r] > 0
    /\ pc[r] \in {"cmp", "body"} => line[r] = LineOf(printed[r][parsed[r]])
    /\ \A i \in 1 .. Len(printed[r]) :
        LET p == printed[r][i][1]
        IN  /\ Follows(printed[r], i)
            /\ p.kind = "ack" => <<p.mac, p.ip>> \in acked

StreamInv == drops = 0 => \A r \in Readers : Reading(r) => StreamOf(r)

\* The state of the parser after line j of reply p, and before it.
After(p, j) ==
    IF p.gw THEN << "UNKNOWN", "REPLY", "CL_IP", "SER_IP", "GW_IP", "MSG",
                    "MSG", "UNKNOWN" >>[j]
    ELSE << "UNKNOWN", "REPLY", "CL_IP", "SER_IP", "MSG", "MSG",
            "UNKNOWN" >>[j]

Before(p, j) == IF j = 1 THEN "UNKNOWN" ELSE After(p, j - 1)

\* What it has read of reply p in its first j lines.
Knows(p, j) ==
    /\ j >= 3 => ip = p.ip
    /\ j >= Len(Lines(p)) - 2 => mac = <<p.mac, "AA:BB">>

\* A parser of one reader knows the reply whose lines it is reading.
ParserOf(r) ==
    LET x == printed[r][parsed[r]]
        p == x[1]
        j == x[2]
    IN  /\ pc[r] \in {"off", "top", "open", "loop", "feed"} =>
            IF parsed[r] = 0 THEN st = "UNKNOWN"
            ELSE st = After(p, j) /\ Knows(p, j)
        /\ pc[r] \in {"cmp", "body"} => st = Before(p, j) /\ Knows(p, j - 1)
        /\ pc[r] = "cmp" => k[r] = 1
        /\ pc[r] = "body" => Chain[k[r]] = st
        /\ pc[r] = "set" => held[r] = After(p, j)
        /\ pc[r] \in {"load", "store"} => j = Len(Lines(p)) /\ p.kind = "ack"
        /\ pc[r] = "store" => held[r] = ip
        /\ pc[r] = "reset" => After(p, j) = "UNKNOWN"
        /\ pc[r] \in {"set", "load", "store", "reset"} => Knows(p, j)

\* Line i acknowledges a lease of MAC a that is still to be stored.
Due(r, a, i) ==
    /\ LET p == printed[r][i][1]
       IN  p.kind = "ack" /\ p.mac = a /\ printed[r][i][2] = Len(Lines(p))
    /\ \/ i > parsed[r]
       \/ i = parsed[r] /\ pc[r] \in {"cmp", "body", "load", "store"}

\* The last lease of a MAC is the last one due, or the one in the cache.
LatestOf(r) ==
    \A a \in Macs :
        /\ (\A i \in 1 .. Len(printed[r]) : ~ Due(r, a, i)) =>
            cache[<<a, "AA:BB">>] = last[a]
        /\ \A i \in 1 .. Len(printed[r]) :
            (Due(r, a, i) /\ \A h \in i + 1 .. Len(printed[r]) : ~ Due(r, a, h))
                => last[a] = printed[r][i][1].ip

\* One host, and no connection was lost.
OneReaderInv ==
    Hosts = 1 /\ drops = 0 =>
        /\ Reading(1) => ParserOf(1) /\ LatestOf(1)
        /\ LeaseTrue

\* The inductive invariant.
LeasesInv ==
    /\ TypeOK /\ StartInv /\ StoreInv /\ AnswerInv
    /\ StreamInv /\ OneReaderInv
=============================================================================
