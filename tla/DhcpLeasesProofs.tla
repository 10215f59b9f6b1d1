-------------------------- MODULE DhcpLeasesProofs --------------------------
(***************************************************************************)
(* Proofs about DhcpLeases for any MACs, addresses, replies and cuts of    *)
(* the output of tcpdump: a lease that is known is found, with any number  *)
(* of hosts; with one host the cache holds leases only, and the last ones. *)
(***************************************************************************)
EXTENDS DhcpLeases, TLAPS, SequenceTheorems

(* Facts about the data.                                                   *)

(* The states of the parser have different places in the if chain.         *)
LEMMA ChainFacts ==
    /\ Len(Chain) = 6
    /\ States = {"UNKNOWN", "REPLY", "CL_IP", "SER_IP", "GW_IP", "MSG"}
    /\ \A i \in 1 .. 6 : Chain[i] \in States
    /\ \A s \in States : Place(s) \in 1 .. 6 /\ Chain[Place(s)] = s
<1>1. Len(Chain) = 6
  BY DEF Chain
<1>2. /\ Chain[1] = "UNKNOWN" /\ Chain[2] = "REPLY" /\ Chain[3] = "CL_IP"
      /\ Chain[4] = "SER_IP" /\ Chain[5] = "GW_IP" /\ Chain[6] = "MSG"
  BY DEF Chain
<1>3. \A i \in 1 .. 6 : i = 1 \/ i = 2 \/ i = 3 \/ i = 4 \/ i = 5 \/ i = 6
  OBVIOUS
<1>4. States = {"UNKNOWN", "REPLY", "CL_IP", "SER_IP", "GW_IP", "MSG"}
  BY <1>1, <1>2, <1>3 DEF States
<1>5. ASSUME NEW s \in States
      PROVE  Place(s) \in 1 .. 6 /\ Chain[Place(s)] = s
  <2>1. \E i \in 1 .. Len(Chain) : Chain[i] = s
    BY DEF States
  <2>2. QED
    BY <1>1, <2>1 DEF Place
<1>6. QED
  BY <1>1, <1>4, <1>5 DEF States

(* The elements of a concatenation.                                        *)
LEMMA CatFacts ==
    ASSUME NEW S, NEW s \in Seq(S), NEW u \in Seq(S)
    PROVE  /\ s \o u \in Seq(S) /\ Len(s \o u) = Len(s) + Len(u)
           /\ \A i \in 1 .. Len(s) : (s \o u)[i] = s[i]
           /\ \A i \in 1 .. Len(u) : (s \o u)[Len(s) + i] = u[i]
<1>1. /\ s \o u \in Seq(S) /\ Len(s \o u) = Len(s) + Len(u)
      /\ \A i \in 1 .. Len(s) + Len(u) :
            (s \o u)[i] = IF i <= Len(s) THEN s[i] ELSE u[i - Len(s)]
  BY ConcatProperties
<1>2. Len(s) \in Nat /\ Len(u) \in Nat
  BY LenProperties
<1>3. \A i \in 1 .. Len(s) : (s \o u)[i] = s[i]
  BY <1>1, <1>2
<1>4. ASSUME NEW i \in 1 .. Len(u) PROVE (s \o u)[Len(s) + i] = u[i]
  <2>1. /\ Len(s) + i \in 1 .. Len(s) + Len(u)
        /\ ~ (Len(s) + i <= Len(s)) /\ (Len(s) + i) - Len(s) = i
    BY <1>2
  <2>2. QED
    BY <1>1, <2>1
<1>5. QED
  BY <1>1, <1>3, <1>4

(* There is a reader.                                                      *)
LEMMA ReadersFact == Hosts \in Nat /\ 1 \in Readers /\ Readers \subseteq Nat
BY LeasesAssumption DEF Readers

(* The lines of a reply.                                                   *)
LEMMA LinesFacts ==
    ASSUME NEW p \in Packets
    PROVE  /\ p.gw => Len(Lines(p)) = 8
           /\ ~ p.gw => Len(Lines(p)) = 7
           /\ Lines(p)[1] = {}
           /\ Lines(p)[2] = {Tag("reply", None)}
           /\ Lines(p)[3] = {Tag("your", p.ip)}
           /\ Lines(p)[4] = {Tag("server", None)}
           /\ p.gw => /\ Lines(p)[5] = {Tag("gw", None)}
                      /\ Lines(p)[6] = {Tag("mac", <<p.mac, "aa:bb">>)}
                      /\ Lines(p)[7] = {}
                      /\ Lines(p)[8] = {Tag("msg", p.kind)}
           /\ ~ p.gw => /\ Lines(p)[5] = {Tag("mac", <<p.mac, "aa:bb">>)}
                        /\ Lines(p)[6] = {}
                        /\ Lines(p)[7] = {Tag("msg", p.kind)}
BY DEF Packets, Lines

(* A reply is written in lines the parser knows.                           *)
LEMMA LinesType ==
    ASSUME NEW p \in Packets
    PROVE  /\ Lines(p) \in Seq(Line) /\ Len(Lines(p)) \in 7 .. 8
           /\ Numbered(p) \in Seq(Packets \X Nat)
           /\ Len(Numbered(p)) = Len(Lines(p))
           /\ \A j \in 1 .. Len(Lines(p)) : Numbered(p)[j] = <<p, j>>
<1>1. /\ p.gw \in BOOLEAN /\ p.ip \in Ips /\ p.mac \in Macs
      /\ p.kind \in {"ack", "nak"}
  BY DEF Packets
<1>2. Len(Lines(p)) \in 7 .. 8 /\ Len(Lines(p)) \in Nat
  <2>1. Len(Lines(p)) = 8 \/ Len(Lines(p)) = 7
    BY Zenon, LinesFacts
  <2>2. QED
    BY <2>1
<1>3. /\ {} \in Line
      /\ {Tag("reply", None)} \in Line /\ {Tag("your", p.ip)} \in Line
      /\ {Tag("server", None)} \in Line /\ {Tag("gw", None)} \in Line
      /\ {Tag("mac", <<p.mac, "aa:bb">>)} \in Line
      /\ {Tag("msg", p.kind)} \in Line
  <2>1. /\ Tag("reply", None) \in Tagged /\ Tag("server", None) \in Tagged
        /\ Tag("gw", None) \in Tagged
    BY DEF Tagged
  <2>2. Tag("your", p.ip) \in Tagged /\ Tag("mac", <<p.mac, "aa:bb">>) \in Tagged
    BY <1>1 DEF Tagged
  <2>3. Tag("msg", p.kind) \in Tagged
    BY <1>1 DEF Tagged
  <2>4. QED
    BY <2>1, <2>2, <2>3 DEF Line
<1>4. Lines(p) \in Seq(Line)
  BY <1>3 DEF Lines
<1>5. Numbered(p) \in [1 .. Len(Lines(p)) -> Packets \X Nat]
  BY <1>2 DEF Numbered
<1>6. Numbered(p) \in Seq(Packets \X Nat) /\ Len(Numbered(p)) = Len(Lines(p))
  <2>1. Numbered(p) \in Seq(Packets \X Nat)
    BY <1>2, <1>5, SeqDef
  <2>2. DOMAIN Numbered(p) = 1 .. Len(Numbered(p)) /\ Len(Numbered(p)) \in Nat
    BY <2>1, LenProperties
  <2>3. QED
    BY <1>2, <1>5, <2>1, <2>2
<1>7. \A j \in 1 .. Len(Lines(p)) : Numbered(p)[j] = <<p, j>>
  BY DEF Numbered
<1>8. QED
  BY <1>2, <1>4, <1>6, <1>7

(* What a pattern finds in a line of one tag.                              *)
LEMMA TagFacts ==
    /\ \A u : ~ Matches({}, u)
    /\ \A t, v, u : Matches({Tag(t, v)}, u) <=> u = t
    /\ \A t, v : Group({Tag(t, v)}, t) = v
<1>1. \A t, v : Tag(t, v).tag = t /\ Tag(t, v).val = v
  BY DEF Tag
<1>2. QED
  BY <1>1 DEF Matches, Group

(* Whatever lines were joined, the parser finds an address or a MAC.       *)
LEMMA GroupType ==
    ASSUME NEW l \in Line
    PROVE  /\ Matches(l, "your") => Group(l, "your") \in Ips
           /\ Matches(l, "mac") => Group(l, "mac") \in Macs \X {"aa:bb"}
           /\ Matches(l, "msg") => Group(l, "msg") \in {"ack", "nak"}
<1>1. \A x \in Tagged : /\ x.tag = "your" => x.val \in Ips
                        /\ x.tag = "mac" => x.val \in Macs \X {"aa:bb"}
                        /\ x.tag = "msg" => x.val \in {"ack", "nak"}
  BY DEF Tagged, Tag
<1>2. ASSUME NEW u, Matches(l, u)
      PROVE  \E x \in l : x.tag = u /\ Group(l, u) = x.val
  BY <1>2 DEF Matches, Group
<1>3. QED
  BY <1>1, <1>2 DEF Line

(* MACs are kept in one spelling.                                          *)
LEMMA UnifyType ==
    /\ \A a \in Macs \X {"aa:bb"} : unify_mac_format(a) \in Macs \X {"AA:BB"}
    /\ \A a \in Spelled : unify_mac_format(a) \in Spelled
    /\ Macs \X {"AA:BB"} \subseteq Spelled
    /\ \A a \in Macs, s \in Spellings : <<a, s>> \in Spelled
BY DEF unify_mac_format, Spelled, Spellings
-----------------------------------------------------------------------------
(* The parser and the lines of a reply.                                    *)

(* The states before and after each line of a reply that comes over a      *)
(* relay, and of one that does not.                                        *)
LEMMA StateFacts ==
    ASSUME NEW p \in Packets
    PROVE  /\ Before(p, 1) = "UNKNOWN" /\ After(p, 1) = "UNKNOWN"
           /\ Before(p, 2) = "UNKNOWN" /\ After(p, 2) = "REPLY"
           /\ Before(p, 3) = "REPLY" /\ After(p, 3) = "CL_IP"
           /\ Before(p, 4) = "CL_IP" /\ After(p, 4) = "SER_IP"
           /\ Before(p, 5) = "SER_IP"
           /\ p.gw => /\ After(p, 5) = "GW_IP" /\ Before(p, 6) = "GW_IP"
                      /\ After(p, 6) = "MSG" /\ Before(p, 7) = "MSG"
                      /\ After(p, 7) = "MSG" /\ Before(p, 8) = "MSG"
                      /\ After(p, 8) = "UNKNOWN"
           /\ ~ p.gw => /\ After(p, 5) = "MSG" /\ Before(p, 6) = "MSG"
                        /\ After(p, 6) = "MSG" /\ Before(p, 7) = "MSG"
                        /\ After(p, 7) = "UNKNOWN"
BY DEF Packets, Before, After

(* A line of a reply: its number, what it says, and the states of a parser *)
(* that has read the lines before it.                                      *)
LEMMA LineCases ==
    ASSUME NEW p \in Packets, NEW j \in 1 .. Len(Lines(p))
    PROVE  LET L == Len(Lines(p))
               l == Lines(p)[j]
               b == Before(p, j)
               a == After(p, j)
           IN  \/ j = 1 /\ l = {} /\ b = "UNKNOWN" /\ a = "UNKNOWN"
               \/ /\ j = 2 /\ l = {Tag("reply", None)}
                  /\ b = "UNKNOWN" /\ a = "REPLY"
               \/ /\ j = 3 /\ l = {Tag("your", p.ip)}
                  /\ b = "REPLY" /\ a = "CL_IP"
               \/ /\ j = 4 /\ l = {Tag("server", None)}
                  /\ b = "CL_IP" /\ a = "SER_IP"
               \/ /\ j = 5 /\ j < L - 2 /\ l = {Tag("gw", None)}
                  /\ b = "SER_IP" /\ a = "GW_IP"
               \/ /\ j = L - 2 /\ l = {Tag("mac", <<p.mac, "aa:bb">>)}
                  /\ b \in {"SER_IP", "GW_IP"} /\ a = "MSG"
               \/ j = L - 1 /\ l = {} /\ b = "MSG" /\ a = "MSG"
               \/ /\ j = L /\ l = {Tag("msg", p.kind)}
                  /\ b = "MSG" /\ a = "UNKNOWN"
<1>1. CASE p.gw
  <2>1. Len(Lines(p)) = 8
    BY Zenon, <1>1, LinesFacts
  <2>2. j = 1 \/ j = 2 \/ j = 3 \/ j = 4 \/ j = 5 \/ j = 6 \/ j = 7 \/ j = 8
    BY <2>1
  <2>3. /\ Lines(p)[1] = {}
        /\ Lines(p)[2] = {Tag("reply", None)}
        /\ Lines(p)[3] = {Tag("your", p.ip)}
        /\ Lines(p)[4] = {Tag("server", None)}
        /\ Lines(p)[5] = {Tag("gw", None)}
        /\ Lines(p)[6] = {Tag("mac", <<p.mac, "aa:bb">>)}
        /\ Lines(p)[7] = {}
        /\ Lines(p)[8] = {Tag("msg", p.kind)}
    BY Zenon, <1>1, LinesFacts
  <2>4. /\ Before(p, 1) = "UNKNOWN" /\ After(p, 1) = "UNKNOWN"
        /\ Before(p, 2) = "UNKNOWN" /\ After(p, 2) = "REPLY"
        /\ Before(p, 3) = "REPLY" /\ After(p, 3) = "CL_IP"
        /\ Before(p, 4) = "CL_IP" /\ After(p, 4) = "SER_IP"
        /\ Before(p, 5) = "SER_IP" /\ After(p, 5) = "GW_IP"
        /\ Before(p, 6) = "GW_IP" /\ After(p, 6) = "MSG"
        /\ Before(p, 7) = "MSG" /\ After(p, 7) = "MSG"
        /\ Before(p, 8) = "MSG" /\ After(p, 8) = "UNKNOWN"
    BY Zenon, <1>1, StateFacts
  <2>5. QED
    BY <2>1, <2>2, <2>3, <2>4
<1>2. CASE ~ p.gw
  <2>1. Len(Lines(p)) = 7
    BY Zenon, <1>2, LinesFacts
  <2>2. j = 1 \/ j = 2 \/ j = 3 \/ j = 4 \/ j = 5 \/ j = 6 \/ j = 7
    BY <2>1
  <2>3. /\ Lines(p)[1] = {}
        /\ Lines(p)[2] = {Tag("reply", None)}
        /\ Lines(p)[3] = {Tag("your", p.ip)}
        /\ Lines(p)[4] = {Tag("server", None)}
        /\ Lines(p)[5] = {Tag("mac", <<p.mac, "aa:bb">>)}
        /\ Lines(p)[6] = {}
        /\ Lines(p)[7] = {Tag("msg", p.kind)}
    BY Zenon, <1>2, LinesFacts
  <2>4. /\ Before(p, 1) = "UNKNOWN" /\ After(p, 1) = "UNKNOWN"
        /\ Before(p, 2) = "UNKNOWN" /\ After(p, 2) = "REPLY"
        /\ Before(p, 3) = "REPLY" /\ After(p, 3) = "CL_IP"
        /\ Before(p, 4) = "CL_IP" /\ After(p, 4) = "SER_IP"
        /\ Before(p, 5) = "SER_IP" /\ After(p, 5) = "MSG"
        /\ Before(p, 6) = "MSG" /\ After(p, 6) = "MSG"
        /\ Before(p, 7) = "MSG" /\ After(p, 7) = "UNKNOWN"
    BY Zenon, <1>2, StateFacts
  <2>5. QED
    BY <2>1, <2>2, <2>3, <2>4
<1>3. QED
  BY Zenon, <1>1, <1>2

(* A transition of the table that a line of a reply allows in its state.   *)
LEMMA AdvanceFacts ==
    ASSUME NEW p \in Packets, NEW j \in 1 .. Len(Lines(p)),
           NEW e \in Expect, e[1] = Before(p, j), Matches(Lines(p)[j], e[2])
    PROVE  /\ e[3] = After(p, j) /\ j < Len(Lines(p)) /\ j # 1
           /\ IF e[2] = "your" THEN j = 3 /\ Group(Lines(p)[j], "your") = p.ip
              ELSE j # 3
           /\ IF e[2] = "mac"
              THEN /\ j = Len(Lines(p)) - 2
                   /\ Group(Lines(p)[j], "mac") = <<p.mac, "aa:bb">>
              ELSE j # Len(Lines(p)) - 2
<1>1. Len(Lines(p)) \in 7 .. 8
  BY LinesType
<1>2. \/ e = <<"UNKNOWN", "reply", "REPLY">> \/ e = <<"REPLY", "your", "CL_IP">>
      \/ e = <<"CL_IP", "server", "SER_IP">> \/ e = <<"SER_IP", "gw", "GW_IP">>
      \/ e = <<"SER_IP", "mac", "MSG">> \/ e = <<"GW_IP", "mac", "MSG">>
  BY DEF Expect
<1>3. \/ e[1] = "UNKNOWN" /\ e[2] = "reply" /\ e[3] = "REPLY"
      \/ e[1] = "REPLY" /\ e[2] = "your" /\ e[3] = "CL_IP"
      \/ e[1] = "CL_IP" /\ e[2] = "server" /\ e[3] = "SER_IP"
      \/ e[1] = "SER_IP" /\ e[2] = "gw" /\ e[3] = "GW_IP"
      \/ e[1] \in {"SER_IP", "GW_IP"} /\ e[2] = "mac" /\ e[3] = "MSG"
  BY <1>2
<1> DEFINE l == Lines(p)[j]
<1>4. Matches(l, e[2])
  OBVIOUS
<1>5. LET L == Len(Lines(p))
          b == Before(p, j)
          a == After(p, j)
      IN  \/ j = 1 /\ l = {} /\ b = "UNKNOWN" /\ a = "UNKNOWN"
          \/ j = 2 /\ l = {Tag("reply", None)} /\ a = "REPLY"
          \/ j = 3 /\ l = {Tag("your", p.ip)} /\ a = "CL_IP"
          \/ j = 4 /\ l = {Tag("server", None)} /\ a = "SER_IP"
          \/ j = 5 /\ j < L - 2 /\ l = {Tag("gw", None)} /\ a = "GW_IP"
          \/ j = L - 2 /\ l = {Tag("mac", <<p.mac, "aa:bb">>)} /\ a = "MSG"
          \/ j = L - 1 /\ l = {} /\ b = "MSG" /\ a = "MSG"
          \/ j = L /\ l = {Tag("msg", p.kind)} /\ b = "MSG" /\ a = "UNKNOWN"
  BY LineCases
<1> HIDE DEF l
<1>6. l # {}
  BY Zenon, <1>4, TagFacts
<1>7. ASSUME NEW t, NEW v, l = {Tag(t, v)} PROVE e[2] = t /\ Group(l, t) = v
  <2>1. Matches({Tag(t, v)}, e[2]) /\ Group({Tag(t, v)}, t) = v
    BY Zenon, <1>4, <1>7, TagFacts
  <2>2. e[2] = t
    BY <2>1, TagFacts
  <2>3. QED
    BY <1>7, <2>1, <2>2
<1>8. \/ j = 2 /\ e[2] = "reply" /\ After(p, j) = "REPLY"
      \/ /\ j = 3 /\ e[2] = "your" /\ After(p, j) = "CL_IP"
         /\ Group(l, "your") = p.ip
      \/ j = 4 /\ e[2] = "server" /\ After(p, j) = "SER_IP"
      \/ j = 5 /\ j < Len(Lines(p)) - 2 /\ e[2] = "gw" /\ After(p, j) = "GW_IP"
      \/ /\ j = Len(Lines(p)) - 2 /\ e[2] = "mac" /\ After(p, j) = "MSG"
         /\ Group(l, "mac") = <<p.mac, "aa:bb">>
      \/ e[2] = "msg"
  BY Zenon, <1>5, <1>6, <1>7
<1>9. /\ e[2] = "your" => Group(l, "your") = p.ip
      /\ e[2] = "mac" => Group(l, "mac") = <<p.mac, "aa:bb">>
  BY <1>8
<1> DEFINE e2 == e[2]
           L == Len(Lines(p))
           a == After(p, j)
<1>10. /\ \/ e2 = "reply" /\ e[3] = "REPLY"
          \/ e2 = "your" /\ e[3] = "CL_IP"
          \/ e2 = "server" /\ e[3] = "SER_IP"
          \/ e2 = "gw" /\ e[3] = "GW_IP"
          \/ e2 = "mac" /\ e[3] = "MSG"
       /\ \/ j = 2 /\ e2 = "reply" /\ a = "REPLY"
          \/ j = 3 /\ e2 = "your" /\ a = "CL_IP"
          \/ j = 4 /\ e2 = "server" /\ a = "SER_IP"
          \/ j = 5 /\ j < L - 2 /\ e2 = "gw" /\ a = "GW_IP"
          \/ j = L - 2 /\ e2 = "mac" /\ a = "MSG"
          \/ e2 = "msg"
  BY <1>3, <1>8
<1>11. L \in 7 .. 8
  BY <1>1
<1> HIDE DEF e2, L, a
<1>12. e[3] = a
  BY <1>10
<1>13. /\ j < L /\ j # 1
       /\ e2 = "your" <=> j = 3
       /\ e2 = "mac" <=> j = L - 2
  BY <1>10, <1>11
<1>14. QED
  BY <1>9, <1>12, <1>13 DEF l, e2, L, a

(* Only the first line of a reply matches nothing before the message.      *)
LEMMA NoMatchFacts ==
    ASSUME NEW p \in Packets, NEW j \in 1 .. Len(Lines(p)),
           Before(p, j) # "MSG",
           \A e \in Expect : e[1] = Before(p, j) => ~ Matches(Lines(p)[j], e[2])
    PROVE  After(p, j) = "UNKNOWN"
<1>1. /\ <<"UNKNOWN", "reply", "REPLY">> \in Expect
      /\ <<"REPLY", "your", "CL_IP">> \in Expect
      /\ <<"CL_IP", "server", "SER_IP">> \in Expect
      /\ <<"SER_IP", "gw", "GW_IP">> \in Expect
      /\ <<"SER_IP", "mac", "MSG">> \in Expect
      /\ <<"GW_IP", "mac", "MSG">> \in Expect
  BY DEF Expect
<1>2. LET b == Before(p, j)
          l == Lines(p)[j]
      IN  /\ b = "UNKNOWN" => ~ Matches(l, "reply")
          /\ b = "REPLY" => ~ Matches(l, "your")
          /\ b = "CL_IP" => ~ Matches(l, "server")
          /\ b = "SER_IP" => ~ Matches(l, "gw")
          /\ b \in {"SER_IP", "GW_IP"} => ~ Matches(l, "mac")
  BY <1>1
<1>3. \A t, v : Lines(p)[j] = {Tag(t, v)} => Matches(Lines(p)[j], t)
  BY TagFacts
<1>4. QED
  BY <1>2, <1>3, LineCases

(* In S_MSG a line that is not the message is skipped, and the message is  *)
(* the last line of the reply.                                             *)
LEMMA MessageFacts ==
    ASSUME NEW p \in Packets, NEW j \in 1 .. Len(Lines(p)),
           Before(p, j) = "MSG"
    PROVE  /\ MessageStep(Lines(p)[j]) \in {"feed", "load", "reset"}
           /\ MessageStep(Lines(p)[j]) = "feed" =>
                j = Len(Lines(p)) - 1 /\ After(p, j) = "MSG"
           /\ MessageStep(Lines(p)[j]) # "feed" =>
                /\ j = Len(Lines(p)) /\ After(p, j) = "UNKNOWN"
                /\ MessageStep(Lines(p)[j]) = "load" <=> p.kind = "ack"
<1>1. \/ /\ j = Len(Lines(p)) - 1 /\ Lines(p)[j] = {} /\ After(p, j) = "MSG"
      \/ /\ j = Len(Lines(p)) /\ Lines(p)[j] = {Tag("msg", p.kind)}
         /\ After(p, j) = "UNKNOWN"
  BY LineCases
<1>2. CASE Lines(p)[j] = {}
  <2>1. MessageStep(Lines(p)[j]) = "feed"
    BY <1>2, TagFacts DEF MessageStep
  <2>2. QED
    BY <1>1, <1>2, <2>1
<1>3. CASE Lines(p)[j] = {Tag("msg", p.kind)}
  <2>1. MessageStep(Lines(p)[j]) = IF p.kind = "ack" THEN "load" ELSE "reset"
    BY <1>3, TagFacts DEF MessageStep
  <2>2. QED
    BY <1>1, <1>3, <2>1
<1>4. QED
  BY <1>1, <1>2, <1>3

-----------------------------------------------------------------------------
(* Types.                                                                  *)

(* What waits to be read is whole lines.                                   *)
LEMMA PendingType ==
    ASSUME ReaderType, NEW r \in Readers
    PROVE  Pending(r) \in Seq(Line)
<1>1. chan[r] \in Seq(Line) /\ out[r] \in [line : Line, stale : BOOLEAN] \cup {None}
  BY DEF ReaderType
<1>2. CASE out[r] = None
  BY <1>1, <1>2 DEF Pending
<1>3. CASE out[r] # None /\ ~ out[r].stale
  <2>1. out[r].line \in Line
    BY <1>1, <1>3
  <2>2. <<out[r].line>> \in Seq(Line)
    BY <2>1
  <2>3. QED
    BY <1>1, <1>3, <2>2, ConcatProperties DEF Pending
<1>4. CASE out[r] # None /\ out[r].stale /\ chan[r] = << >>
  BY <1>1, <1>4 DEF Pending
<1>5. CASE out[r] # None /\ out[r].stale /\ chan[r] # << >>
  <2>1. out[r].line \in Line
    BY <1>1, <1>5
  <2>2. Head(chan[r]) \in Line /\ Tail(chan[r]) \in Seq(Line)
    BY <1>1, <1>5, HeadTailProperties
  <2>3. out[r].line \cup Head(chan[r]) \in Line
    BY <2>1, <2>2 DEF Line
  <2>4. <<out[r].line \cup Head(chan[r])>> \in Seq(Line)
    BY <2>3
  <2>5. QED
    BY <1>1, <1>5, <2>2, <2>4, ConcatProperties DEF Pending
<1>6. QED
  BY <1>2, <1>3, <1>4, <1>5

(* Who changes the parser and the cache.                                   *)
LEMMA ParserFrame ==
    ASSUME NEW r \in Readers
    PROVE  /\ Main => UNCHANGED parser
           /\ Compare(r) => UNCHANGED parser
           /\ Message(r) => UNCHANGED parser
           /\ NoMatch(r) => UNCHANGED parser
           /\ LoadIp(r) => UNCHANGED parser
           /\ Top(r) => UNCHANGED parser
           /\ Open(r) => UNCHANGED parser
           /\ OpenNone(r) => UNCHANGED parser
           /\ RecvStderr(r) => UNCHANGED parser
           /\ Feed(r) => UNCHANGED parser
           /\ Finish(r) => UNCHANGED parser
           /\ OpenFails(r) => UNCHANGED parser
           /\ Drop(r) => UNCHANGED parser
           /\ \A n, cut : Recv(r, n, cut) => UNCHANGED parser
           /\ \A p : TcpdumpPrints(r, p) => UNCHANGED parser
<1>1. Main => UNCHANGED parser
  BY DEF Main, Proceed, AddReader, ReaderReady, ReaderNotReady, ReaderSleep,
         Poll, StopExit, StopClose, Stopped, Release, convertMacToIp
<1>2. /\ Compare(r) => UNCHANGED parser
      /\ Message(r) => UNCHANGED parser
      /\ NoMatch(r) => UNCHANGED parser
      /\ LoadIp(r) => UNCHANGED parser
  BY DEF Compare, Message, NoMatch, LoadIp
<1>3. /\ Top(r) => UNCHANGED parser
      /\ Open(r) => UNCHANGED parser
      /\ OpenNone(r) => UNCHANGED parser
      /\ OpenFails(r) => UNCHANGED parser
  BY DEF Top, Open, OpenNone, OpenFails
<1>4. /\ RecvStderr(r) => UNCHANGED parser
      /\ Feed(r) => UNCHANGED parser
      /\ Finish(r) => UNCHANGED parser
      /\ Drop(r) => UNCHANGED parser
  BY DEF RecvStderr, Feed, Finish, Drop
<1>5. /\ \A n, cut : Recv(r, n, cut) => UNCHANGED parser
      /\ \A p : TcpdumpPrints(r, p) => UNCHANGED parser
  BY DEF Recv, TcpdumpPrints
<1>6. QED
  BY <1>1, <1>2, <1>3, <1>4, <1>5

(* The types of the parser: a store has a MAC and an address.              *)
LEMMA ParserTypeStep ==
    ASSUME TypeOK, StoreInv, [Next]_vars
    PROVE  ParserType'
<1>1. ParserType
  BY DEF TypeOK
<1>2. UNCHANGED parser => ParserType'
  BY <1>1 DEF parser, ParserType
<1>3. ASSUME NEW r \in Readers,
             \/ Collect(r) \/ OpenFails(r) \/ Drop(r)
             \/ \E p \in Replies : TcpdumpPrints(r, p)
      PROVE  ParserType'
  <2>1. CASE Advance(r)
    <3>1. PICK e \in Saw(r) :
            /\ ip' = IF e[2] = "your" THEN Group(line[r], "your") ELSE ip
            /\ mac' = IF e[2] = "mac"
                      THEN unify_mac_format(Group(line[r], "mac")) ELSE mac
      BY <2>1 DEF Advance
    <3>2. line[r] \in Line /\ Matches(line[r], e[2])
      BY DEF TypeOK, ReaderType, Saw
    <3>3. ip' \in Ips \cup {None}
      BY <1>1, <3>1, <3>2, GroupType DEF ParserType
    <3>4. mac' \in (Macs \X {"AA:BB"}) \cup {None}
      BY <1>1, <3>1, <3>2, GroupType, UnifyType DEF ParserType
    <3>5. st' = st /\ cache' = cache
      BY <2>1 DEF Advance
    <3>6. QED
      BY <1>1, <3>3, <3>4, <3>5 DEF ParserType
  <2>2. CASE SetState(r)
    <3>1. held[r] \in States
      BY <2>2 DEF StoreInv, SetState
    <3>2. QED
      BY <1>1, <2>2, <3>1 DEF SetState, ParserType
  <2>3. CASE StoreMac(r)
    <3>1. held[r] \in Ips /\ mac # None
      BY <2>3 DEF StoreMac, StoreInv, Has
    <3>2. cache' = [cache EXCEPT ![mac] = held[r]]
      BY <2>3 DEF StoreMac
    <3>3. cache' \in [Spelled -> Ips \cup {None}]
      BY <1>1, <3>1, <3>2 DEF ParserType
    <3>4. QED
      BY <1>1, <2>3, <3>3 DEF StoreMac, ParserType
  <2>4. CASE Reset(r)
    BY <1>1, <2>4, ChainFacts DEF Reset, ParserType
  <2>5. QED
    BY <1>2, <1>3, <2>1, <2>2, <2>3, <2>4, ParserFrame DEF Collect, ParseLine
<1>4. CASE Main
  BY <1>2, <1>4, ParserFrame, ReadersFact
<1>5. CASE UNCHANGED vars
  BY <1>2, <1>5 DEF vars
<1>6. QED
  BY <1>3, <1>4, <1>5 DEF Next

(* The types of the readers.                                               *)
LEMMA ReaderTypeStep ==
    ASSUME TypeOK, [Next]_vars
    PROVE  ReaderType'
<1>1. ReaderType /\ ParserType /\ MainType
  BY DEF TypeOK
<1>2. ASSUME NEW r \in Readers,
             \/ Collect(r) \/ OpenFails(r) \/ Drop(r)
             \/ \E p \in Replies : TcpdumpPrints(r, p)
      PROVE  ReaderType'
  <2>1. CASE Compare(r)
    <3>1. Place(st) \in 1 .. Len(Chain) /\ Len(Chain) = 6
      BY <1>1, ChainFacts DEF ParserType
    <3>2. k[r] \in 1 .. Len(Chain)
      BY <1>1 DEF ReaderType
    <3>3. \/ k' = k
          \/ \E j \in 1 .. Len(Chain) : k' = [k EXCEPT ![r] = j]
      BY <2>1, <3>1, <3>2 DEF Compare
    <3>4. k' \in [Readers -> 1 .. Len(Chain)]
      BY <1>1, <3>3 DEF ReaderType
    <3>5. QED
      BY <1>1, <2>1, <3>4 DEF Compare, ReaderType
  <2>2. CASE Advance(r)
    <3>1. PICK e \in Expect : held' = [held EXCEPT ![r] = e[3]]
      BY <2>2 DEF Advance, Saw
    <3>2. e[3] \in States
      BY ChainFacts DEF Expect
    <3>3. held' \in [Readers -> Ips \cup States \cup {None}]
      BY <1>1, <3>1, <3>2 DEF ReaderType
    <3>4. QED
      BY <1>1, <2>2, <3>3 DEF Advance, ReaderType
  <2>3. CASE SetState(r)
    BY <1>1, <2>3 DEF SetState, ReaderType
  <2>4. CASE Message(r)
    <3>1. MessageStep(line[r]) \in {"feed", "load", "reset"}
      BY DEF MessageStep
    <3>2. QED
      BY <1>1, <2>4, <3>1 DEF Message, ReaderType
  <2>5. CASE NoMatch(r)
    BY <1>1, <2>5 DEF NoMatch, ReaderType
  <2>6. CASE LoadIp(r)
    <3>1. held' \in [Readers -> Ips \cup States \cup {None}]
      BY <1>1, <2>6 DEF LoadIp, ReaderType, ParserType
    <3>2. QED
      BY <1>1, <2>6, <3>1 DEF LoadIp, ReaderType
  <2>7. CASE StoreMac(r)
    BY <1>1, <2>7 DEF StoreMac, ReaderType
  <2>8. CASE Reset(r)
    BY <1>1, <2>8 DEF Reset, ReaderType
  <2>9. CASE Top(r)
    BY <1>1, <2>9 DEF Top, ReaderType
  <2>10. CASE Open(r)
    BY <1>1, <2>10 DEF Open, ReaderType
  <2>11. CASE OpenNone(r)
    BY <1>1, <2>11 DEF OpenNone, ReaderType, Leave
  <2>12. CASE RecvStderr(r)
    BY <1>1, <2>12 DEF RecvStderr, ReaderType
  <2>13. CASE Feed(r)
    <3>1. data[r] \in Seq(Line) /\ 1 \in 1 .. Len(Chain)
      BY <1>1, ChainFacts DEF ReaderType
    <3>2. data[r] # << >> => Head(data[r]) \in Line /\ Tail(data[r]) \in Seq(Line)
      BY <3>1, HeadTailProperties
    <3>3. {} \in Line
      BY DEF Line
    <3>4. k' \in [Readers -> 1 .. Len(Chain)]
      BY <1>1, <2>13, <3>1 DEF Feed, ReaderType
    <3>5. data' \in [Readers -> Seq(Line)] /\ line' \in [Readers -> Line]
      BY <1>1, <2>13, <3>2, <3>3 DEF Feed, ReaderType
    <3>6. QED
      BY <1>1, <2>13, <3>4, <3>5 DEF Feed, ReaderType
  <2>14. CASE Finish(r)
    BY <1>1, <2>14 DEF Finish, ReaderType, Leave
  <2>15. CASE OpenFails(r)
    BY <1>1, <2>15 DEF OpenFails, ReaderType, Leave
  <2>16. CASE Drop(r)
    <3>1. out[r] \in [line : Line, stale : BOOLEAN] \cup {None} /\ {} \in Line
      BY <1>1 DEF ReaderType, Line
    <3>2. PICK l \in IF out[r] = None THEN {{}} ELSE {{}, out[r].line} :
            out' = [out EXCEPT ![r] = IF out[r] = None THEN None
                                      ELSE [line |-> l, stale |-> TRUE]]
      BY <2>16 DEF Drop
    <3>3. l \in Line
      BY <3>1, <3>2
    <3>4. out' \in [Readers -> [line : Line, stale : BOOLEAN] \cup {None}]
      BY <1>1, <3>2, <3>3 DEF ReaderType
    <3>5. chan' \in [Readers -> Seq(Line)]
      BY <1>1, <2>16 DEF Drop, Leave, ReaderType
    <3>6. QED
      BY <1>1, <2>16, <3>4, <3>5 DEF Drop, Leave, ReaderType
  <2>17. ASSUME NEW n \in 0 .. Len(Pending(r)), NEW cut \in Cuts, Recv(r, n, cut)
        PROVE  ReaderType'
    <3> DEFINE ps == Pending(r)
               used == IF cut THEN n + 1 ELSE n
    <3>1. ps \in Seq(Line) /\ Len(ps) \in Nat
      BY <1>1, PendingType, LenProperties
    <3>2. n \in 0 .. Len(ps) /\ cut \in BOOLEAN /\ used \in 0 .. Len(ps)
      BY <2>17, <3>1, LeasesAssumption DEF Recv
    <3>3. /\ data' = [data EXCEPT ![r] = SubSeq(ps, 1, n)]
          /\ out' = [out EXCEPT ![r] =
                       IF cut THEN [line |-> ps[used], stale |-> FALSE] ELSE None]
          /\ chan' = [chan EXCEPT ![r] = SubSeq(ps, used + 1, Len(ps))]
      BY <2>17 DEF Recv
    <3>4. cut => ps[used] \in Line
      BY <3>1, <3>2, ElementOfSeq
    <3> HIDE DEF ps
    <3>5. SubSeq(ps, 1, n) \in Seq(Line)
      BY <3>1, <3>2, SubSeqProperties
    <3>6. SubSeq(ps, used + 1, Len(ps)) \in Seq(Line)
      BY <3>1, <3>2, SubSeqProperties
    <3> HIDE DEF used
    <3>7. /\ data' \in [Readers -> Seq(Line)] /\ chan' \in [Readers -> Seq(Line)]
          /\ out' \in [Readers -> [line : Line, stale : BOOLEAN] \cup {None}]
      BY <1>1, <3>3, <3>4, <3>5, <3>6 DEF ReaderType
    <3>8. QED
      BY <1>1, <2>17, <3>7 DEF Recv, ReaderType
  <2>18. ASSUME NEW p \in Replies, TcpdumpPrints(r, p) PROVE ReaderType'
    <3>1. p \in Packets
      BY LeasesAssumption
    <3>2. chan[r] \o Lines(p) \in Seq(Line)
      BY <1>1, <3>1, LinesType, ConcatProperties DEF ReaderType
    <3>3. chan' \in [Readers -> Seq(Line)]
      BY <1>1, <2>18, <3>2 DEF TcpdumpPrints, ReaderType
    <3>4. QED
      BY <1>1, <2>18, <3>3 DEF TcpdumpPrints, ReaderType
  <2>19. QED
    BY <1>2, <2>1, <2>2, <2>3, <2>4, <2>5, <2>6, <2>7, <2>8, <2>9, <2>10,
       <2>11, <2>12, <2>13, <2>14, <2>15, <2>16, <2>17, <2>18
       DEF Collect, ParseLine
<1>3. CASE Main
  BY <1>1, <1>3 DEF Main, Proceed, AddReader, ReaderReady, ReaderNotReady,
        ReaderSleep, Poll, StopExit, StopClose, Stopped, Release, convertMacToIp,
        ReaderType, reader
<1>4. CASE UNCHANGED vars
  BY <1>1, <1>4 DEF vars, reader, ReaderType
<1>5. QED
  BY <1>2, <1>3, <1>4 DEF Next

(* The main thread is changed by itself alone.                             *)
LEMMA MainFrame ==
    ASSUME NEW r \in Readers,
           \/ Collect(r) \/ OpenFails(r) \/ Drop(r)
           \/ \E p \in Replies : TcpdumpPrints(r, p)
    PROVE  UNCHANGED mainVars /\ known' = known
<1>1. ASSUME ParseLine(r) PROVE UNCHANGED mainVars /\ known' = known
  BY <1>1 DEF ParseLine, Compare, Advance, SetState, Message, NoMatch, LoadIp,
              StoreMac, Reset, history
<1>2. ASSUME Top(r) \/ Open(r) \/ OpenNone(r) \/ OpenFails(r)
      PROVE  UNCHANGED mainVars /\ known' = known
  BY <1>2 DEF Top, Open, OpenNone, OpenFails, history
<1>3. ASSUME RecvStderr(r) \/ Feed(r) \/ Finish(r) \/ Drop(r)
      PROVE  UNCHANGED mainVars /\ known' = known
  BY <1>3 DEF RecvStderr, Feed, Finish, Drop, history
<1>4. ASSUME \/ \E n \in 0 .. Len(Pending(r)), cut \in Cuts : Recv(r, n, cut)
             \/ \E p \in Replies : TcpdumpPrints(r, p)
      PROVE  UNCHANGED mainVars /\ known' = known
  BY <1>4 DEF Recv, TcpdumpPrints, history
<1>5. QED
  BY <1>1, <1>2, <1>3, <1>4 DEF Collect

(* A reader that was started moves only itself.                            *)
LEMMA ReaderMoves ==
    ASSUME ReaderType, NEW r \in Readers,
           \/ Collect(r) \/ OpenFails(r) \/ Drop(r)
           \/ \E p \in Replies : TcpdumpPrints(r, p)
    PROVE  /\ pc[r] # "off"
           /\ \A q \in Readers \ {r} : pc'[q] = pc[q]
<1>1. pc \in [Readers -> {"off", "top", "open", "loop", "feed", "cmp", "body",
                          "set", "load", "store", "reset", "dead"}]
  BY DEF ReaderType
<1>2. \/ pc[r] # "off" /\ pc' = pc
      \/ pc[r] # "off" /\ \E c : pc' = [pc EXCEPT ![r] = c]
  <2>1. ASSUME Compare(r) \/ Advance(r) \/ SetState(r) \/ Message(r)
        PROVE  pc[r] # "off" /\ (pc' = pc \/ \E c : pc' = [pc EXCEPT ![r] = c])
    BY <2>1 DEF Compare, Advance, SetState, Message
  <2>2. ASSUME NoMatch(r) \/ LoadIp(r) \/ StoreMac(r) \/ Reset(r)
        PROVE  pc[r] # "off" /\ (pc' = pc \/ \E c : pc' = [pc EXCEPT ![r] = c])
    BY <2>2 DEF NoMatch, LoadIp, StoreMac, Reset
  <2>3. ASSUME Top(r) \/ Open(r) \/ OpenNone(r) \/ OpenFails(r)
        PROVE  pc[r] # "off" /\ (pc' = pc \/ \E c : pc' = [pc EXCEPT ![r] = c])
    BY <2>3 DEF Top, Open, OpenNone, OpenFails, Leave
  <2>4. ASSUME RecvStderr(r) \/ Feed(r) \/ Finish(r) \/ Drop(r)
        PROVE  pc[r] # "off" /\ (pc' = pc \/ \E c : pc' = [pc EXCEPT ![r] = c])
    BY <2>4 DEF RecvStderr, Feed, Finish, Drop, Leave
  <2>5. ASSUME \/ \E n \in 0 .. Len(Pending(r)), cut \in Cuts : Recv(r, n, cut)
               \/ \E p \in Replies : TcpdumpPrints(r, p)
        PROVE  pc[r] # "off" /\ (pc' = pc \/ \E c : pc' = [pc EXCEPT ![r] = c])
    BY <2>5 DEF Recv, TcpdumpPrints, Collecting
  <2>6. QED
    BY <2>1, <2>2, <2>3, <2>4, <2>5 DEF Collect, ParseLine
<1>3. QED
  BY <1>1, <1>2

(* The types of the main thread, and that it starts each reader once.      *)
LEMMA MainTypeStep ==
    ASSUME TypeOK, StartInv, AnswerInv, [Next]_vars
    PROVE  MainType'
<1>1. MainType /\ ParserType /\ ReaderType
  BY DEF TypeOK
<1>2. /\ Hosts \in Nat /\ Timeout \in Nat /\ Step \in Nat /\ Attempts \in Nat
      /\ Attempts > 0 /\ Hosts > 0 /\ Asked \subseteq Spelled
  BY LeasesAssumption
<1>3. CASE AddReader \/ ReaderNotReady \/ Release \/ Stopped
  BY <1>1, <1>2, <1>3 DEF AddReader, ReaderNotReady, Release, Stopped, MainType
<1>4. CASE ReaderReady
  <2>1. cur \in 1 .. Hosts
    BY <1>4 DEF ReaderReady, StartInv, Readers
  <2>2. QED
    BY <1>1, <1>2, <1>4, <2>1 DEF ReaderReady, MainType
<1>5. CASE ReaderSleep
  <2>1. PICK x \in 1 .. Step : waited' = waited + x
    BY <1>5 DEF ReaderSleep
  <2>2. waited <= Timeout /\ waited \in Nat
    BY <1>1, <1>2, <1>5 DEF ReaderSleep, MainType
  <2>3. waited' \in 0 .. Timeout + Step
    BY <1>2, <2>1, <2>2
  <2>4. QED
    BY <1>1, <1>5, <2>3 DEF ReaderSleep, MainType
<1>6. CASE Poll
  <2>1. get_ip(want) \in Ips \cup {None}
    <3>1. want \in Spelled
      BY <1>6 DEF Poll, AnswerInv
    <3>2. QED
      BY <1>1, <3>1, UnifyType DEF get_ip, ParserType
  <2>2. answer' \in Ips \cup {None, "CanNotFindIP"} /\ tries' \in 0 .. Attempts - 1
    BY <1>1, <1>2, <1>6, <2>1 DEF Poll, MainType
  <2>3. QED
    BY <1>1, <1>6, <2>2 DEF Poll, MainType
<1>7. CASE StopExit \/ StopClose
  <2>1. StopClose => cur \in 1 .. Hosts
    BY DEF StopClose, StartInv, Readers
  <2>2. QED
    BY <1>1, <1>2, <1>7, <2>1 DEF StopExit, StopClose, MainType
<1>8. ASSUME NEW a \in Asked, convertMacToIp(a) PROVE MainType'
  BY <1>1, <1>2, <1>8 DEF convertMacToIp, MainType
<1>9. UNCHANGED mainVars => MainType'
  BY <1>1 DEF mainVars, MainType
<1>10. UNCHANGED vars => UNCHANGED mainVars
  BY DEF vars
<1>11. QED
  BY <1>3, <1>4, <1>5, <1>6, <1>7, <1>8, <1>9, <1>10, MainFrame
     DEF Next, Main, Proceed

(* The types of the history.                                               *)
LEMMA HistoryTypeStep ==
    ASSUME TypeOK, [Next]_vars
    PROVE  HistoryType'
<1>1. HistoryType /\ ReaderType
  BY DEF TypeOK
<1>2. UNCHANGED history => HistoryType'
  BY <1>1 DEF history, HistoryType
<1>3. ASSUME NEW r \in Readers,
             \/ Collect(r) \/ OpenFails(r) \/ Drop(r)
             \/ \E p \in Replies : TcpdumpPrints(r, p)
      PROVE  HistoryType'
  <2>1. ASSUME ParseLine(r) \/ Top(r) \/ Open(r) \/ RecvStderr(r)
        PROVE  UNCHANGED history
    BY <2>1 DEF ParseLine, Compare, Advance, SetState, Message, NoMatch, LoadIp,
                StoreMac, Reset, Top, Open, RecvStderr
  <2>2. ASSUME NEW n, NEW cut, Recv(r, n, cut)
        PROVE  UNCHANGED history
    BY <2>2 DEF Recv
  <2>3. ASSUME OpenNone(r) \/ OpenFails(r) \/ Finish(r) \/ Drop(r)
        PROVE  HistoryType'
    <3>1. /\ printed' = [printed EXCEPT ![r] = << >>]
          /\ parsed' = [parsed EXCEPT ![r] = 0]
          /\ acked' = acked /\ last' = last /\ known' = known /\ sent' = sent
          /\ drops' = drops \/ drops' = drops + 1
      BY <2>3 DEF OpenNone, OpenFails, Finish, Drop, Leave
    <3>2. << >> \in Seq(Packets \X Nat)
      BY EmptySeq
    <3>3. QED
      BY <1>1, <3>1, <3>2 DEF HistoryType
  <2>4. CASE Feed(r)
    <3>1. /\ parsed' = parsed \/ parsed' = [parsed EXCEPT ![r] = @ + 1]
          /\ acked' = acked /\ last' = last /\ known' = known /\ sent' = sent
          /\ drops' = drops /\ printed' = printed
      BY <2>4 DEF Feed
    <3>2. QED
      BY <1>1, <3>1 DEF HistoryType
  <2>5. ASSUME NEW p \in Replies, TcpdumpPrints(r, p) PROVE HistoryType'
    <3>1. p \in Packets /\ p.mac \in Macs /\ p.ip \in Ips
      BY LeasesAssumption DEF Packets
    <3>2. printed[r] \o Numbered(p) \in Seq(Packets \X Nat)
      BY <1>1, <3>1, LinesType, ConcatProperties DEF HistoryType
    <3>3. printed' \in [Readers -> Seq(Packets \X Nat)]
      BY <1>1, <2>5, <3>2 DEF TcpdumpPrints, HistoryType
    <3>4. /\ acked' = acked \/ acked' = acked \cup {<<p.mac, p.ip>>}
          /\ last' = last \/ last' = [last EXCEPT ![p.mac] = p.ip]
          /\ sent' = sent + 1 /\ parsed' = parsed /\ known' = known
          /\ drops' = drops
      BY <2>5 DEF TcpdumpPrints
    <3>5. acked' \subseteq Macs \X Ips
      BY <1>1, <3>1, <3>4 DEF HistoryType
    <3>6. last' \in [Macs -> Ips \cup {None}]
      BY <1>1, <3>1, <3>4 DEF HistoryType
    <3>7. QED
      BY <1>1, <3>3, <3>4, <3>5, <3>6 DEF HistoryType
  <2>6. QED
    BY <1>2, <1>3, <2>1, <2>2, <2>3, <2>4, <2>5 DEF Collect
<1>4. CASE Main
  <2>1. \/ UNCHANGED history
        \/ \E a \in Asked : convertMacToIp(a)
    BY <1>4 DEF Main, Proceed, AddReader, ReaderReady, ReaderNotReady,
        ReaderSleep, Poll, StopExit, StopClose, Stopped, Release
  <2>2. ASSUME NEW a \in Asked, convertMacToIp(a) PROVE HistoryType'
    <3>1. known' \in BOOLEAN
      BY <2>2 DEF convertMacToIp
    <3>2. QED
      BY <1>1, <2>2, <3>1 DEF convertMacToIp, HistoryType
  <2>3. QED
    BY <1>2, <2>1, <2>2
<1>5. CASE UNCHANGED vars
  BY <1>2, <1>5 DEF vars
<1>6. QED
  BY <1>3, <1>4, <1>5 DEF Next

-----------------------------------------------------------------------------
(* Starting the readers, and what they store.                              *)

(* The main thread starts each reader once, and then goes on.              *)
LEMMA StartStep ==
    ASSUME TypeOK, StartInv, [Next]_vars
    PROVE  StartInv'
<1>1. Hosts \in Nat /\ Hosts > 0 /\ cur \in 1 .. Hosts + 1
      /\ pc \in [Readers -> {"off", "top", "open", "loop", "feed", "cmp", "body",
                             "set", "load", "store", "reset", "dead"}]
  BY LeasesAssumption DEF TypeOK, MainType, ReaderType
<1>2. CASE AddReader
  <2>1. /\ main = "add" /\ main' = "wait" /\ cur' = cur
        /\ pc' = [pc EXCEPT ![cur] = "top"]
    BY <1>2 DEF AddReader
  <2>2. QED
    BY <1>1, <2>1 DEF StartInv, Readers
<1>3. CASE ReaderReady
  <2>1. /\ main = "wait" /\ main' = IF cur = Hosts THEN "run" ELSE "add"
        /\ cur' = cur + 1 /\ pc' = pc
    BY <1>3 DEF ReaderReady, reader
  <2>2. QED
    BY <1>1, <2>1 DEF StartInv, Readers
<1>4. CASE ReaderSleep
  <2>1. main' = main /\ cur' = cur /\ pc' = pc
    BY <1>4 DEF ReaderSleep, reader
  <2>2. QED
    BY <2>1 DEF StartInv
<1>5. CASE StopExit
  <2>1. main' = "close" /\ cur' = cur /\ cur \in Readers
    BY <1>5 DEF StopExit, Started
  <2>2. QED
    BY <2>1 DEF StartInv
<1>6. CASE ReaderNotReady \/ Poll \/ Release \/ StopClose \/ Stopped
  <2>1. main' \notin {"add", "wait", "close"}
    BY <1>6 DEF ReaderNotReady, Poll, Release, StopClose, Stopped
  <2>2. QED
    BY <2>1 DEF StartInv
<1>7. ASSUME NEW a \in Asked, convertMacToIp(a) PROVE StartInv'
  <2>1. main' = "poll"
    BY <1>7 DEF convertMacToIp
  <2>2. QED
    BY <2>1 DEF StartInv
<1>8. ASSUME NEW r \in Readers,
             \/ Collect(r) \/ OpenFails(r) \/ Drop(r)
             \/ \E p \in Replies : TcpdumpPrints(r, p)
      PROVE  StartInv'
  <2>1. main' = main /\ cur' = cur
    BY <1>8, MainFrame DEF mainVars
  <2>2. \A q \in Readers : pc[q] = "off" => pc'[q] = "off"
    <3>1. ReaderType
      BY DEF TypeOK
    <3>2. QED
      BY <1>8, <3>1, ReaderMoves
  <2>3. QED
    BY <2>1, <2>2 DEF StartInv
<1>9. CASE UNCHANGED vars
  BY <1>9 DEF vars, reader, mainVars, StartInv
<1>10. QED
  BY <1>2, <1>3, <1>4, <1>5, <1>6, <1>7, <1>8, <1>9 DEF Next, Main, Proceed

(* What the parser has, it keeps; a store has an address and a MAC.        *)
LEMMA StoreStep ==
    ASSUME TypeOK, StoreInv, [Next]_vars
    PROVE  StoreInv'
<1>1. ReaderType /\ ParserType
  BY DEF TypeOK
<1>2. /\ pc \in [Readers -> {"off", "top", "open", "loop", "feed", "cmp", "body",
                             "set", "load", "store", "reset", "dead"}]
      /\ held \in [Readers -> Ips \cup States \cup {None}]
      /\ k \in [Readers -> 1 .. Len(Chain)]
  BY <1>1 DEF ReaderType
<1>3. ASSUME NEW r \in Readers,
             UNCHANGED <<st, ip, mac, k, held>>,
             \/ pc' = pc
             \/ \E c : /\ c \notin {"body", "set", "load", "store"}
                       /\ pc' = [pc EXCEPT ![r] = c]
      PROVE  StoreInv'
  <2>1. \A q \in Readers : \/ pc'[q] = pc[q]
                           \/ pc'[q] \notin {"body", "set", "load", "store"}
    BY <1>2, <1>3
  <2>2. \A s : Has(s) => Has(s)'
    BY <1>3 DEF Has
  <2>3. QED
    BY <1>3, <2>1, <2>2 DEF StoreInv
<1>4. ASSUME NEW r \in Readers, ParseLine(r) PROVE StoreInv'
  <2>1. CASE Compare(r)
    <3>1. UNCHANGED <<st, ip, mac, held>>
      BY <2>1 DEF Compare, parser
    <3>2. \A s : Has(s) => Has(s)'
      BY <3>1 DEF Has
    <3>3. \A q \in Readers \ {r} : pc'[q] = pc[q] /\ k'[q] = k[q]
      BY <1>2, <2>1 DEF Compare
    <3>4. /\ pc'[r] \in {"body", "reset", "cmp"}
          /\ pc'[r] = "body" => k'[r] = Place(st)
      BY <1>2, <2>1 DEF Compare
    <3>5. Chain[Place(st)] = st
      BY <1>1, ChainFacts DEF ParserType
    <3>6. QED
      BY <3>1, <3>2, <3>3, <3>4, <3>5 DEF StoreInv
  <2>2. CASE Advance(r)
    <3>1. PICK e \in Expect :
            /\ e[1] = Chain[k[r]] /\ Matches(line[r], e[2])
            /\ held' = [held EXCEPT ![r] = e[3]]
            /\ ip' = IF e[2] = "your" THEN Group(line[r], "your") ELSE ip
            /\ mac' = IF e[2] = "mac"
                      THEN unify_mac_format(Group(line[r], "mac")) ELSE mac
      BY <2>2 DEF Advance, Saw
    <3>2. /\ pc[r] = "body" /\ pc' = [pc EXCEPT ![r] = "set"]
          /\ st' = st /\ k' = k
      BY <2>2 DEF Advance
    <3>3. /\ e[2] = "your" => ip' # None
      <4>1. e[2] = "your" => ip' \in Ips
        BY <1>1, <3>1, GroupType DEF ReaderType
      <4>2. QED
        BY <4>1, LeasesAssumption
    <3>4. e[2] = "mac" => mac' # None
      <4>1. e[2] = "mac" => mac' \in Macs \X {"AA:BB"}
        BY <1>1, <3>1, GroupType, UnifyType DEF ReaderType
      <4>2. None \notin Spelled
        BY LeasesAssumption
      <4>3. QED
        BY <4>1, <4>2, UnifyType
    <3>5. ip # None => ip' # None
      BY <3>1, <3>3
    <3>6. mac # None => mac' # None
      BY <3>1, <3>4
    <3>7. \A s : Has(s) => Has(s)'
      BY <3>5, <3>6 DEF Has
    <3>8. Has(Chain[k[r]])
      BY <3>2 DEF StoreInv
    <3>9. \/ e[1] = "UNKNOWN" /\ e[3] = "REPLY"
          \/ e[2] = "your" /\ e[3] = "CL_IP"
          \/ e[1] \in {"CL_IP", "SER_IP"} /\ e[3] \in {"SER_IP", "GW_IP"}
          \/ e[1] \in {"SER_IP", "GW_IP"} /\ e[2] = "mac" /\ e[3] = "MSG"
      BY DEF Expect
    <3>10. e[3] \in States /\ Has(e[3])'
      <4>1. e[3] \in States
        BY <3>9, ChainFacts
      <4>2. e[1] \notin {"UNKNOWN", "REPLY"} => ip' # None
        BY <3>1, <3>5, <3>8 DEF Has
      <4>3. e[3] \notin {"UNKNOWN", "REPLY"} => ip' # None
        BY <3>3, <3>9, <4>2
      <4>4. e[3] = "MSG" => mac' # None
        BY <3>4, <3>9
      <4>5. QED
        BY <4>1, <4>3, <4>4 DEF Has
    <3>11. held'[r] = e[3] /\ \A q \in Readers \ {r} : held'[q] = held[q]
      BY <1>2, <3>1
    <3>12. pc'[r] = "set" /\ \A q \in Readers \ {r} : pc'[q] = pc[q]
      BY <1>2, <3>2
    <3>13. QED
      BY <3>2, <3>7, <3>10, <3>11, <3>12 DEF StoreInv
  <2>3. CASE SetState(r)
    <3>1. /\ st' = held[r] /\ ip' = ip /\ mac' = mac /\ k' = k
          /\ pc[r] = "set" /\ pc' = [pc EXCEPT ![r] = "feed"]
          /\ held' = [held EXCEPT ![r] = None]
      BY <2>3 DEF SetState
    <3>2. \A s : Has(s) => Has(s)'
      BY <3>1 DEF Has
    <3>3. Has(st)'
      BY <3>1 DEF StoreInv, Has
    <3>4. /\ pc'[r] = "feed"
          /\ \A q \in Readers \ {r} : pc'[q] = pc[q] /\ held'[q] = held[q]
      BY <1>2, <3>1
    <3>5. QED
      BY <3>1, <3>2, <3>3, <3>4 DEF StoreInv
  <2>4. CASE Message(r)
    <3>1. /\ UNCHANGED <<st, ip, mac, k, held>>
          /\ pc[r] = "body" /\ Chain[k[r]] = "MSG"
          /\ pc' = [pc EXCEPT ![r] = MessageStep(line[r])]
      BY <2>4 DEF Message, parser
    <3>2. \A s : Has(s) => Has(s)'
      BY <3>1 DEF Has
    <3>3. MessageStep(line[r]) \in {"feed", "load", "reset"}
      BY DEF MessageStep
    <3>4. /\ pc'[r] \in {"feed", "load", "reset"}
          /\ \A q \in Readers \ {r} : pc'[q] = pc[q]
      BY <1>2, <3>1, <3>3
    <3>5. QED
      BY <3>1, <3>2, <3>4 DEF StoreInv
  <2>5. CASE NoMatch(r) \/ Reset(r)
    <3>1. /\ UNCHANGED <<ip, mac, k, held>>
          /\ st' = st \/ st' = "UNKNOWN"
          /\ \E c : /\ c \notin {"body", "set", "load", "store"}
                    /\ pc' = [pc EXCEPT ![r] = c]
      BY <2>5 DEF NoMatch, Reset, parser
    <3>2. \A s : Has(s) => Has(s)'
      BY <3>1 DEF Has
    <3>3. \A q \in Readers : \/ pc'[q] = pc[q]
                             \/ pc'[q] \notin {"body", "set", "load", "store"}
      BY <1>2, <3>1
    <3>4. Has(st)'
      BY <3>1, <3>2 DEF StoreInv, Has
    <3>5. QED
      BY <3>1, <3>2, <3>3, <3>4 DEF StoreInv
  <2>6. CASE LoadIp(r)
    <3>1. /\ UNCHANGED <<st, ip, mac, k>>
          /\ pc[r] = "load" /\ pc' = [pc EXCEPT ![r] = "store"]
          /\ held' = [held EXCEPT ![r] = ip]
      BY <2>6 DEF LoadIp, parser
    <3>2. \A s : Has(s) => Has(s)'
      BY <3>1 DEF Has
    <3>3. ip \in Ips
      BY <1>1, <3>1 DEF StoreInv, Has, ParserType
    <3>4. /\ pc'[r] = "store" /\ held'[r] = ip
          /\ \A q \in Readers \ {r} : pc'[q] = pc[q] /\ held'[q] = held[q]
      BY <1>2, <3>1
    <3>5. QED
      BY <3>1, <3>2, <3>3, <3>4 DEF StoreInv
  <2>7. CASE StoreMac(r)
    <3>1. /\ UNCHANGED <<st, ip, mac, k>>
          /\ pc' = [pc EXCEPT ![r] = "reset"]
          /\ held' = [held EXCEPT ![r] = None]
      BY <2>7 DEF StoreMac
    <3>2. \A s : Has(s) => Has(s)'
      BY <3>1 DEF Has
    <3>3. /\ pc'[r] = "reset"
          /\ \A q \in Readers \ {r} : pc'[q] = pc[q] /\ held'[q] = held[q]
      BY <1>2, <3>1
    <3>4. QED
      BY <3>1, <3>2, <3>3 DEF StoreInv
  <2>8. QED
    BY <1>4, <2>1, <2>2, <2>3, <2>4, <2>5, <2>6, <2>7 DEF ParseLine
<1>5. ASSUME NEW r \in Readers,
             Top(r) \/ Open(r) \/ OpenNone(r) \/ OpenFails(r) \/ RecvStderr(r)
      PROVE  StoreInv'
  <2>1. UNCHANGED <<st, ip, mac, k, held>>
    BY <1>5 DEF Top, Open, OpenNone, OpenFails, RecvStderr, parser
  <2>2. \E c : /\ c \notin {"body", "set", "load", "store"}
               /\ pc' = [pc EXCEPT ![r] = c]
    BY <1>5 DEF Top, Open, OpenNone, OpenFails, RecvStderr, Leave
  <2>3. QED
    BY <1>3, <2>1, <2>2
<1>6. ASSUME NEW r \in Readers, Finish(r) \/ Drop(r) PROVE StoreInv'
  <2>1. UNCHANGED <<st, ip, mac, k, held>>
    BY <1>6 DEF Finish, Drop, parser
  <2>2. \E c : /\ c \notin {"body", "set", "load", "store"}
               /\ pc' = [pc EXCEPT ![r] = c]
    BY <1>6 DEF Finish, Drop, Leave
  <2>3. QED
    BY <1>3, <2>1, <2>2
<1>7. ASSUME NEW r \in Readers, Feed(r) PROVE StoreInv'
  <2>1. UNCHANGED <<st, ip, mac, held>> /\ k' = [k EXCEPT ![r] = 1]
    BY <1>7 DEF Feed, parser
  <2>2. \A s : Has(s) => Has(s)'
    BY <2>1 DEF Has
  <2>3. /\ pc'[r] \in {"loop", "cmp"}
        /\ \A q \in Readers \ {r} : pc'[q] = pc[q] /\ k'[q] = k[q]
    BY <1>2, <1>7, <2>1 DEF Feed
  <2>4. QED
    BY <2>1, <2>2, <2>3 DEF StoreInv
<1>8. ASSUME NEW r \in Readers,
             \/ \E n \in 0 .. Len(Pending(r)), cut \in Cuts : Recv(r, n, cut)
             \/ \E p \in Replies : TcpdumpPrints(r, p)
      PROVE  StoreInv'
  <2>1. /\ UNCHANGED <<st, ip, mac, k, held>>
        /\ pc' = pc \/ pc' = [pc EXCEPT ![r] = "feed"]
    BY <1>8 DEF Recv, TcpdumpPrints, parser
  <2>2. QED
    BY <1>3, <2>1
<1>9. CASE Main
  <2>1. /\ UNCHANGED <<st, ip, mac, k, held>>
        /\ pc' = pc \/ pc' = [pc EXCEPT ![cur] = "top"]
    BY <1>9 DEF Main, Proceed, AddReader, ReaderReady, ReaderNotReady,
        ReaderSleep, Poll, StopExit, StopClose, Stopped, Release, convertMacToIp,
        reader, parser
  <2>2. \A q \in Readers : pc'[q] = pc[q] \/ pc'[q] = "top"
    BY <1>2, <2>1
  <2>3. \A s : Has(s) => Has(s)'
    BY <2>1 DEF Has
  <2>4. QED
    BY <2>1, <2>2, <2>3 DEF StoreInv
<1>10. CASE UNCHANGED vars
  BY <1>10 DEF vars, parser, reader, StoreInv, Has
<1>11. QED
  BY <1>4, <1>5, <1>6, <1>7, <1>8, <1>9, <1>10 DEF Next, Collect

(* A lease that is in the cache stays there, under one spelling, until the *)
(* main thread asks for it.                                                *)
LEMMA AnswerStep ==
    ASSUME TypeOK, StoreInv, AnswerInv, [Next]_vars
    PROVE  AnswerInv'
<1>1. cache \in [Spelled -> Ips \cup {None}]
  BY DEF TypeOK, ParserType
<1>2. /\ \A a \in Macs, s \in Spellings \ {"AA:BB"} : cache[<<a, s>>] = None
      /\ NoFalseMiss
  BY DEF AnswerInv
<1>3. None # "CanNotFindIP" /\ "CanNotFindIP" \notin Ips
  BY LeasesAssumption
<1>4. ASSUME cache' = cache, UNCHANGED mainVars, known' = known
      PROVE  AnswerInv'
  BY <1>4 DEF mainVars, AnswerInv, get_ip, NoFalseMiss
<1>5. ASSUME NEW r \in Readers, StoreMac(r), UNCHANGED mainVars, known' = known
      PROVE  AnswerInv'
  <2>1. held[r] \in Ips /\ mac # None /\ mac \in Macs \X {"AA:BB"}
    BY <1>5 DEF StoreMac, StoreInv, Has, TypeOK, ParserType
  <2>2. cache' = [cache EXCEPT ![mac] = held[r]]
    BY <1>5 DEF StoreMac
  <2>3. held[r] # None
    BY <2>1, LeasesAssumption
  <2>4. \A x \in Spelled : cache[x] # None => cache'[x] # None
    BY <1>1, <2>1, <2>2, <2>3
  <2>5. ASSUME NEW a \in Macs, NEW s \in Spellings \ {"AA:BB"}
        PROVE  cache'[<<a, s>>] = None
    <3>1. <<a, s>> \in Spelled /\ <<a, s>> # mac
      BY <2>1, UnifyType
    <3>2. cache'[<<a, s>>] = cache[<<a, s>>]
      BY <1>1, <2>2, <3>1
    <3>3. QED
      BY <1>2, <3>2
  <2>6. /\ main' = main /\ want' = want /\ answer' = answer
    BY <1>5 DEF mainVars
  <2>7. main = "poll" => /\ want \in Spelled
                         /\ known => cache'[unify_mac_format(want)] # None
    BY <2>4, UnifyType DEF AnswerInv, get_ip
  <2>8. NoFalseMiss'
    BY <1>2, <1>5, <2>6 DEF NoFalseMiss
  <2>9. unify_mac_format(want)' = unify_mac_format(want)
    BY <2>6 DEF unify_mac_format
  <2>10. QED
    BY <1>5, <2>5, <2>6, <2>7, <2>8, <2>9 DEF AnswerInv, get_ip
<1>6. ASSUME NEW r \in Readers,
             \/ Collect(r) \/ OpenFails(r) \/ Drop(r)
             \/ \E p \in Replies : TcpdumpPrints(r, p)
      PROVE  AnswerInv'
  <2>1. UNCHANGED mainVars /\ known' = known
    BY <1>6, MainFrame
  <2>2. Advance(r) \/ SetState(r) \/ Reset(r) => cache' = cache
    BY DEF Advance, SetState, Reset
  <2>3. UNCHANGED parser => cache' = cache
    BY DEF parser
  <2>4. cache' = cache \/ StoreMac(r)
    BY <1>6, <2>2, <2>3, ParserFrame DEF Collect, ParseLine
  <2>5. QED
    BY <1>4, <1>5, <2>1, <2>4
<1>7. ASSUME cache' = cache, known' = known, main' # "poll",
             answer' = answer \/ answer' \in Ips \cup {None} \/ ~ known
      PROVE  AnswerInv'
  <2>1. NoFalseMiss'
    <3>1. SUFFICES ASSUME answer' = "CanNotFindIP" PROVE ~ known'
      BY DEF NoFalseMiss
    <3>2. answer = "CanNotFindIP" \/ ~ known
      BY <1>3, <1>7, <3>1
    <3>3. QED
      BY <1>2, <1>7, <3>2 DEF NoFalseMiss
  <2>2. QED
    BY <1>2, <1>7, <2>1 DEF AnswerInv
<1>8. CASE Poll
  <2>1. cache' = cache /\ known' = known /\ want' = want /\ main = "poll"
    BY <1>8 DEF Poll, parser, history
  <2>2. get_ip(want) \in Ips \cup {None} /\ (known => get_ip(want) # None)
    BY <1>1, <2>1, UnifyType DEF AnswerInv, get_ip
  <2>3. CASE get_ip(want) # None
    <3>1. main' = "run" /\ answer' \in Ips \cup {None}
      BY <1>8, <2>2, <2>3 DEF Poll
    <3>2. QED
      BY <1>7, <2>1, <3>1
  <2>4. CASE get_ip(want) = None
    <3>1. ~ known
      BY <2>2, <2>4
    <3>2. NoFalseMiss'
      BY <2>1, <3>1 DEF NoFalseMiss
    <3>3. want \in Spelled
      BY <2>1 DEF AnswerInv
    <3>4. QED
      BY <1>2, <2>1, <3>1, <3>2, <3>3 DEF AnswerInv
  <2>5. QED
    BY <2>3, <2>4
<1>9. ASSUME NEW a \in Asked, convertMacToIp(a) PROVE AnswerInv'
  <2>1. /\ cache' = cache /\ main' = "poll" /\ want' = a /\ answer' = None
        /\ known' = \E s \in Spellings : cache[<<a[1], s>>] # None
    BY <1>9 DEF convertMacToIp, parser
  <2>2. a \in Spelled /\ a[1] \in Macs
    BY LeasesAssumption DEF Spelled
  <2>3. known' => cache[<<a[1], "AA:BB">>] # None
    BY <1>2, <2>1, <2>2
  <2>4. unify_mac_format(want)' = <<a[1], "AA:BB">>
    BY <2>1 DEF unify_mac_format
  <2>5. NoFalseMiss'
    BY <1>3, <2>1 DEF NoFalseMiss
  <2>6. QED
    BY <1>2, <2>1, <2>2, <2>3, <2>4, <2>5 DEF AnswerInv, get_ip
<1>10. ASSUME \/ AddReader \/ ReaderReady \/ ReaderNotReady \/ ReaderSleep
              \/ StopExit \/ StopClose \/ Stopped \/ Release
       PROVE  AnswerInv'
  <2>1. /\ cache' = cache /\ known' = known /\ answer' = answer
        /\ main' # "poll"
    BY <1>10 DEF AddReader, ReaderReady, ReaderNotReady, ReaderSleep, StopExit,
                 StopClose, Stopped, Release, parser, history
  <2>2. QED
    BY <1>7, <2>1
<1>11. CASE UNCHANGED vars
  BY <1>4, <1>11 DEF vars, parser, history
<1>12. QED
  BY <1>6, <1>8, <1>9, <1>10, <1>11 DEF Next, Main, Proceed

-----------------------------------------------------------------------------
(* The lines on their way to the parser.                                   *)

(* What can be read while no incomplete line is left of a lost connection. *)
LEMMA PendingFacts ==
    ASSUME ReaderType, NEW r \in Readers, out[r] # None => ~ out[r].stale
    PROVE  /\ chan[r] \in Seq(Line) /\ Len(chan[r]) \in Nat
           /\ Pending(r) \in Seq(Line) /\ Len(Pending(r)) \in Nat
           /\ out[r] = None => Pending(r) = chan[r]
           /\ out[r] # None =>
                /\ Len(Pending(r)) = Len(chan[r]) + 1
                /\ Pending(r)[1] = out[r].line
                /\ \A i \in 1 .. Len(chan[r]) : Pending(r)[i + 1] = chan[r][i]
<1>1. /\ chan[r] \in Seq(Line) /\ Len(chan[r]) \in Nat
      /\ Pending(r) \in Seq(Line) /\ Len(Pending(r)) \in Nat
  BY PendingType, LenProperties DEF ReaderType
<1>2. out[r] = None => Pending(r) = chan[r]
  BY DEF Pending
<1>3. ASSUME out[r] # None
      PROVE  /\ Len(Pending(r)) = Len(chan[r]) + 1
             /\ Pending(r)[1] = out[r].line
             /\ \A i \in 1 .. Len(chan[r]) : Pending(r)[i + 1] = chan[r][i]
  <2> DEFINE o == <<out[r].line>>
  <2>1. Pending(r) = o \o chan[r]
    BY <1>3 DEF Pending
  <2>2. o \in Seq(Line) /\ Len(o) = 1 /\ o[1] = out[r].line
    <3>1. out[r].line \in Line
      BY <1>3 DEF ReaderType
    <3>2. QED
      BY <3>1
  <2> HIDE DEF o
  <2>3. /\ Len(o \o chan[r]) = Len(o) + Len(chan[r])
        /\ \A i \in 1 .. Len(o) : (o \o chan[r])[i] = o[i]
        /\ \A i \in 1 .. Len(chan[r]) : (o \o chan[r])[Len(o) + i] = chan[r][i]
    BY <1>1, <2>2, CatFacts
  <2>4. QED
    BY <1>1, <2>1, <2>2, <2>3
<1>4. QED
  BY <1>1, <1>2, <1>3

(* A step that moves no line keeps the stream of a reader.                 *)
LEMMA StreamKept ==
    ASSUME NEW r \in Readers, StreamOf(r),
           chan'[r] = chan[r], out'[r] = out[r], data'[r] = data[r],
           printed'[r] = printed[r], parsed'[r] = parsed[r],
           acked \subseteq acked',
           pc'[r] \in {"off", "top", "open"} => pc[r] \in {"off", "top", "open"},
           pc'[r] \notin {"feed", "cmp", "body", "set", "load", "store", "reset"}
                => data[r] = << >>,
           pc'[r] \in {"cmp", "body", "set", "load", "store", "reset"}
                => pc[r] \in {"cmp", "body", "set", "load", "store", "reset"},
           pc'[r] \in {"cmp", "body"}
                => pc[r] \in {"cmp", "body"} /\ line'[r] = line[r]
    PROVE  StreamOf(r)'
<1>1. Pending(r)' = Pending(r)
  BY DEF Pending
<1>2. \A i \in 1 .. Len(printed[r]) :
        LET p == printed[r][i][1]
        IN  /\ Follows(printed[r], i)
            /\ p.kind = "ack" => <<p.mac, p.ip>> \in acked'
  BY DEF StreamOf
<1>3. QED
  BY <1>1, <1>2 DEF StreamOf

(* parse(): the next complete line goes to the parser.                     *)
LEMMA StreamFeed ==
    ASSUME ReaderType, HistoryType, NEW r \in Readers, StreamOf(r), Feed(r)
    PROVE  StreamOf(r)'
<1>1. /\ pc \in [Readers -> {"off", "top", "open", "loop", "feed", "cmp", "body",
                             "set", "load", "store", "reset", "dead"}]
      /\ data \in [Readers -> Seq(Line)] /\ line \in [Readers -> Line]
      /\ parsed \in [Readers -> Nat]
  BY DEF ReaderType, HistoryType
<1>2. /\ pc[r] = "feed" /\ chan' = chan /\ out' = out /\ acked' = acked
      /\ printed' = printed
  BY DEF Feed
<1>3. Pending(r)' = Pending(r)
  BY <1>2 DEF Pending
<1>4. CASE data[r] = << >>
  <2>1. data' = data /\ parsed' = parsed /\ pc'[r] = "loop"
    BY <1>1, <1>4 DEF Feed
  <2>2. QED
    BY <1>2, <1>4, <2>1, StreamKept
<1>5. CASE data[r] # << >>
  <2> DEFINE d == data[r]
  <2>1. /\ data'[r] = Tail(d) /\ line'[r] = Head(d)
        /\ parsed'[r] = parsed[r] + 1 /\ pc'[r] = "cmp"
    BY <1>1, <1>5 DEF Feed
  <2>2. /\ d \in Seq(Line) /\ Len(d) \in Nat /\ Len(d) > 0
        /\ Len(Tail(d)) = Len(d) - 1 /\ Head(d) = d[1]
        /\ \A i \in 1 .. Len(Tail(d)) : Tail(d)[i] = d[i + 1]
    BY <1>1, <1>5, HeadTailProperties, LenProperties, EmptySeq
  <2>3. parsed[r] \in Nat
    BY <1>1
  <2>4. /\ Len(printed[r]) = parsed[r] + Len(d) + Len(Pending(r))
        /\ \A i \in 1 .. Len(d) : d[i] = LineOf(printed[r][parsed[r] + i])
        /\ \A i \in 1 .. Len(Pending(r)) :
            Pending(r)[i] = LineOf(printed[r][parsed[r] + Len(d) + i])
    BY DEF StreamOf
  <2>5. /\ Len(printed[r]) = parsed'[r] + Len(data'[r]) + Len(Pending(r))
        /\ parsed'[r] > 0
    <3>1. Len(printed[r]) = (parsed[r] + 1) + (Len(d) - 1) + Len(Pending(r))
      <4>1. parsed[r] + Len(d) = (parsed[r] + 1) + (Len(d) - 1)
        BY <2>2, <2>3
      <4>2. QED
        BY <2>4, <4>1
    <3>2. QED
      BY <2>1, <2>2, <2>3, <3>1
  <2>6. \A i \in 1 .. Len(data'[r]) :
            data'[r][i] = LineOf(printed[r][parsed'[r] + i])
    <3>1. ASSUME NEW i \in 1 .. Len(Tail(d))
          PROVE  Tail(d)[i] = LineOf(printed[r][(parsed[r] + 1) + i])
      <4>1. i + 1 \in 1 .. Len(d) /\ parsed[r] + (i + 1) = (parsed[r] + 1) + i
        BY <2>2, <2>3
      <4>2. d[i + 1] = LineOf(printed[r][parsed[r] + (i + 1)])
        BY <2>4, <4>1
      <4>3. QED
        BY <2>2, <4>1, <4>2
    <3>2. QED
      BY <2>1, <3>1
  <2>7. \A i \in 1 .. Len(Pending(r)) :
            Pending(r)[i] = LineOf(printed[r][parsed'[r] + Len(data'[r]) + i])
    <3>1. parsed'[r] + Len(data'[r]) = parsed[r] + Len(d)
      BY <2>1, <2>2, <2>3
    <3>2. QED
      BY <2>4, <3>1
  <2>8. line'[r] = LineOf(printed[r][parsed'[r]])
    <3>1. d[1] = LineOf(printed[r][parsed[r] + 1])
      BY <2>2, <2>4
    <3>2. QED
      BY <2>1, <2>2, <3>1
  <2>9. /\ out[r] # None => ~ out[r].stale
        /\ \A i \in 1 .. Len(printed[r]) :
            LET p == printed[r][i][1]
            IN  /\ Follows(printed[r], i)
                /\ p.kind = "ack" => <<p.mac, p.ip>> \in acked
    BY DEF StreamOf
  <2>10. QED
    BY <1>2, <1>3, <2>1, <2>5, <2>6, <2>7, <2>8, <2>9 DEF StreamOf
<1>6. QED
  BY <1>4, <1>5

(* recv(): whatever part of the lines it returns, the rest stays in order. *)
LEMMA StreamRecv ==
    ASSUME ReaderType, HistoryType, NEW r \in Readers, StreamOf(r),
           NEW n \in 0 .. Len(Pending(r)), NEW cut \in Cuts, Recv(r, n, cut)
    PROVE  StreamOf(r)'
<1> DEFINE ps == Pending(r)
           used == IF cut THEN n + 1 ELSE n
<1>1. /\ data \in [Readers -> Seq(Line)] /\ chan \in [Readers -> Seq(Line)]
      /\ out \in [Readers -> [line : Line, stale : BOOLEAN] \cup {None}]
      /\ parsed \in [Readers -> Nat]
      /\ pc \in [Readers -> {"off", "top", "open", "loop", "feed", "cmp", "body",
                             "set", "load", "store", "reset", "dead"}]
  BY DEF ReaderType, HistoryType
<1>2. /\ pc[r] = "loop" /\ pc' = [pc EXCEPT ![r] = "feed"]
      /\ used <= Len(ps)
      /\ data' = [data EXCEPT ![r] = SubSeq(ps, 1, n)]
      /\ out' = [out EXCEPT ![r] =
                   IF cut THEN [line |-> ps[used], stale |-> FALSE] ELSE None]
      /\ chan' = [chan EXCEPT ![r] = SubSeq(ps, used + 1, Len(ps))]
      /\ printed' = printed /\ parsed' = parsed /\ acked' = acked
  BY DEF Recv, history
<1>3. ps \in Seq(Line) /\ Len(ps) \in Nat
  BY PendingType, LenProperties
<1>4. n \in 0 .. Len(ps) /\ cut \in BOOLEAN
  BY LeasesAssumption
<1>5. /\ data[r] = << >>
      /\ Len(printed[r]) = parsed[r] + Len(ps)
      /\ \A i \in 1 .. Len(ps) : ps[i] = LineOf(printed[r][parsed[r] + i])
  <2>1. /\ data[r] = << >>
        /\ Len(printed[r]) = parsed[r] + Len(data[r]) + Len(ps)
        /\ \A i \in 1 .. Len(ps) :
            ps[i] = LineOf(printed[r][parsed[r] + Len(data[r]) + i])
    BY <1>2 DEF StreamOf
  <2>2. Len(data[r]) = 0 /\ parsed[r] + 0 = parsed[r]
    BY <1>1, <2>1
  <2>3. QED
    BY <2>1, <2>2
<1> HIDE DEF ps
<1>6. /\ data'[r] = SubSeq(ps, 1, n) /\ Len(data'[r]) = n
      /\ \A i \in 1 .. n : data'[r][i] = ps[i]
  <2>1. data'[r] = SubSeq(ps, 1, n)
    BY <1>1, <1>2
  <2>2. /\ Len(SubSeq(ps, 1, n)) = n
        /\ \A i \in 1 .. n : SubSeq(ps, 1, n)[i] = ps[i]
    BY <1>3, <1>4, SubSeqProperties
  <2>3. QED
    BY <2>1, <2>2
<1>7. /\ Len(Pending(r)') = Len(ps) - n
      /\ \A i \in 1 .. Len(ps) - n : Pending(r)'[i] = ps[n + i]
      /\ out'[r] # None => ~ out'[r].stale
  <2>1. CASE ~ cut
    <3>1. out'[r] = None /\ chan'[r] = SubSeq(ps, n + 1, Len(ps))
      BY <1>1, <1>2, <2>1
    <3>2. Pending(r)' = SubSeq(ps, n + 1, Len(ps))
      BY <3>1 DEF Pending
    <3>3. /\ Len(SubSeq(ps, n + 1, Len(ps))) = Len(ps) - n
          /\ \A i \in 1 .. Len(ps) - n :
                SubSeq(ps, n + 1, Len(ps))[i] = ps[n + i]
      BY <1>3, <1>4, SubSeqProperties
    <3>4. QED
      BY <3>1, <3>2, <3>3
  <2>2. CASE cut
    <3> DEFINE o == <<ps[n + 1]>>
               c == SubSeq(ps, n + 2, Len(ps))
    <3>1. n + 1 \in 1 .. Len(ps)
      BY <1>2, <1>3, <1>4, <2>2
    <3>2. /\ out'[r] = [line |-> ps[n + 1], stale |-> FALSE] /\ chan'[r] = c
      BY <1>1, <1>2, <1>4, <2>2
    <3>3. ps[n + 1] \in Line
      BY <1>3, <3>1, ElementOfSeq
    <3>4. out'[r] # None /\ ~ out'[r].stale /\ out'[r].line = ps[n + 1]
      <4>1. [line |-> ps[n + 1], stale |-> FALSE] \in
                [line : SUBSET Tagged, stale : BOOLEAN]
        BY <3>3 DEF Line
      <4>2. out'[r] # None
        BY Zenon, <3>2, <4>1, LeasesAssumption
      <4>3. QED
        BY <3>2, <4>2
    <3>5. Pending(r)' = o \o c
      BY <3>2, <3>4 DEF Pending
    <3>6. o \in Seq(Line) /\ Len(o) = 1 /\ o[1] = ps[n + 1]
      BY <3>3
    <3>7. /\ c \in Seq(Line) /\ Len(c) = Len(ps) - (n + 1)
          /\ \A i \in 1 .. Len(ps) - (n + 1) : c[i] = ps[n + 1 + i]
      BY <1>3, <3>1, SubSeqProperties
    <3> HIDE DEF o, c
    <3>8. /\ Len(o \o c) = Len(o) + Len(c)
          /\ \A i \in 1 .. Len(o) : (o \o c)[i] = o[i]
          /\ \A i \in 1 .. Len(c) : (o \o c)[Len(o) + i] = c[i]
      <4>1. o \in Seq(Line) /\ c \in Seq(Line)
        BY <3>6, <3>7
      <4>2. QED
        BY <4>1, CatFacts
    <3>9. ASSUME NEW i \in 1 .. Len(ps) - n PROVE (o \o c)[i] = ps[n + i]
      <4>1. CASE i = 1
        BY <3>6, <3>8, <4>1
      <4>2. CASE i # 1
        <5>1. /\ i - 1 \in 1 .. Len(c) /\ Len(o) + (i - 1) = i
              /\ n + 1 + (i - 1) = n + i
          <6>1. /\ Len(ps) \in Nat /\ n \in Nat /\ Len(o) = 1
                /\ Len(c) = Len(ps) - (n + 1)
            BY <1>3, <1>4, <3>6, <3>7
          <6>2. QED
            BY <4>2, <6>1
        <5>2. (o \o c)[Len(o) + (i - 1)] = c[i - 1] /\ c[i - 1] = ps[n + 1 + (i - 1)]
          BY <3>7, <3>8, <5>1
        <5>3. QED
          BY <5>1, <5>2
      <4>3. QED
        BY <4>1, <4>2
    <3>10. Len(o \o c) = Len(ps) - n
      BY <1>3, <1>4, <3>6, <3>7, <3>8
    <3>11. QED
      BY <3>4, <3>5, <3>9, <3>10
  <2>3. QED
    BY <1>4, <2>1, <2>2
<1> DEFINE pp == Pending(r)'
<1>8. /\ Len(pp) = Len(ps) - n
      /\ \A i \in 1 .. Len(ps) - n : pp[i] = ps[n + i]
  BY <1>7
<1>9. /\ Len(printed'[r]) = parsed'[r] + Len(data'[r]) + Len(pp)
      /\ \A i \in 1 .. Len(data'[r]) :
            data'[r][i] = LineOf(printed'[r][parsed'[r] + i])
      /\ \A i \in 1 .. Len(pp) :
            pp[i] = LineOf(printed'[r][parsed'[r] + Len(data'[r]) + i])
  <2> HIDE DEF pp
  <2>1. parsed[r] \in Nat /\ parsed'[r] = parsed[r] /\ printed'[r] = printed[r]
    BY <1>1, <1>2
  <2>2. Len(printed'[r]) = parsed'[r] + Len(data'[r]) + Len(pp)
    BY <1>3, <1>4, <1>5, <1>6, <1>8, <2>1
  <2>3. \A i \in 1 .. n : data'[r][i] = LineOf(printed[r][parsed[r] + i])
    <3>1. \A i \in 1 .. n : i \in 1 .. Len(ps)
      BY <1>3, <1>4
    <3>2. QED
      BY <1>5, <1>6, <3>1
  <2>4. ASSUME NEW i \in 1 .. Len(ps) - n
        PROVE  pp[i] = LineOf(printed[r][parsed[r] + n + i])
    <3>1. n + i \in 1 .. Len(ps) /\ parsed[r] + (n + i) = parsed[r] + n + i
      BY <1>3, <1>4, <2>1
    <3>2. QED
      BY <1>5, <1>8, <3>1
  <2>5. QED
    BY <1>6, <1>8, <2>1, <2>2, <2>3, <2>4
<1>10. pc'[r] = "feed"
  BY <1>1, <1>2
<1>11. \A i \in 1 .. Len(printed[r]) :
        LET p == printed[r][i][1]
        IN  /\ Follows(printed[r], i)
            /\ p.kind = "ack" => <<p.mac, p.ip>> \in acked
  BY DEF StreamOf
<1>12. QED
  BY <1>2, <1>7, <1>9, <1>10, <1>11 DEF StreamOf

(* tcpdump prints a reply: its lines are the last that can be read.        *)
LEMMA PendingGrows ==
    ASSUME ReaderType, NEW r \in Readers, out[r] # None => ~ out[r].stale,
           NEW p \in Packets, chan'[r] = chan[r] \o Lines(p), out'[r] = out[r]
    PROVE  /\ Len(Pending(r)') = Len(Pending(r)) + Len(Lines(p))
           /\ \A i \in 1 .. Len(Pending(r)) : Pending(r)'[i] = Pending(r)[i]
           /\ \A j \in 1 .. Len(Lines(p)) :
                Pending(r)'[Len(Pending(r)) + j] = Lines(p)[j]
<1> DEFINE c == chan[r]
           l == Lines(p)
           ps == Pending(r)
           pp == Pending(r)'
<1>1. /\ c \in Seq(Line) /\ l \in Seq(Line) /\ ps \in Seq(Line)
      /\ Len(c) \in Nat /\ Len(l) \in Nat /\ Len(ps) \in Nat
  BY PendingFacts, LinesType, LenProperties
<1>2. CASE out[r] = None
  <2>1. ps = c /\ pp = c \o l
    BY <1>2 DEF Pending
  <2> HIDE DEF c, l, ps, pp
  <2>2. /\ Len(c \o l) = Len(c) + Len(l)
        /\ \A i \in 1 .. Len(c) : (c \o l)[i] = c[i]
        /\ \A i \in 1 .. Len(l) : (c \o l)[Len(c) + i] = l[i]
    BY <1>1, CatFacts
  <2>3. QED
    BY <2>1, <2>2 DEF c, l, ps, pp
<1>3. CASE out[r] # None
  <2> DEFINE o == <<out[r].line>>
  <2>1. ps = o \o c /\ pp = o \o (c \o l)
    BY <1>3 DEF Pending
  <2>2. o \in Seq(Line)
    <3>1. out[r].line \in Line
      BY <1>3 DEF ReaderType
    <3>2. QED
      BY <3>1
  <2> HIDE DEF c, l, ps, pp, o
  <2>3. o \o (c \o l) = (o \o c) \o l
    <3>1. o \in Seq(Line) /\ c \in Seq(Line) /\ l \in Seq(Line)
      BY <1>1, <2>2
    <3>2. QED
      BY SMT, <3>1, ConcatAssociative
  <2>4. /\ Len(ps \o l) = Len(ps) + Len(l)
        /\ \A i \in 1 .. Len(ps) : (ps \o l)[i] = ps[i]
        /\ \A i \in 1 .. Len(l) : (ps \o l)[Len(ps) + i] = l[i]
    BY <1>1, CatFacts
  <2>5. pp = ps \o l
    BY <2>1, <2>3
  <2>6. QED
    BY <2>4, <2>5 DEF l, ps, pp
<1>4. QED
  BY <1>2, <1>3

(* The lines of a reply follow those of the replies before it.             *)
LEMMA FollowsGrows ==
    ASSUME NEW s \in Seq(Packets \X Nat), NEW p \in Packets,
           \A i \in 1 .. Len(s) : Follows(s, i)
    PROVE  /\ s \o Numbered(p) \in Seq(Packets \X Nat)
           /\ Len(s \o Numbered(p)) = Len(s) + Len(Lines(p))
           /\ \A i \in 1 .. Len(s) : (s \o Numbered(p))[i] = s[i]
           /\ \A j \in 1 .. Len(Lines(p)) :
                (s \o Numbered(p))[Len(s) + j] = <<p, j>>
           /\ \A i \in 1 .. Len(s) + Len(Lines(p)) : Follows(s \o Numbered(p), i)
<1> DEFINE u == Numbered(p)
           L == Len(Lines(p))
           w == s \o u
<1>1. /\ u \in Seq(Packets \X Nat) /\ Len(u) = L
      /\ \A j \in 1 .. L : u[j] = <<p, j>>
  BY LinesType
<1>2. L \in Nat /\ L > 2 /\ Len(s) \in Nat
  <2>1. L \in 7 .. 8
    BY LinesType
  <2> HIDE DEF L
  <2>2. L \in Nat /\ L > 2
    BY <2>1
  <2>3. Len(s) \in Nat
    BY LenProperties
  <2>4. QED
    BY <2>2, <2>3
<1>3. L = Len(Lines(p))
  OBVIOUS
<1> HIDE DEF u, L
<1>4. /\ w \in Seq(Packets \X Nat) /\ Len(w) = Len(s) + Len(u)
      /\ \A i \in 1 .. Len(s) : w[i] = s[i]
      /\ \A i \in 1 .. Len(u) : w[Len(s) + i] = u[i]
  <2>1. u \in Seq(Packets \X Nat)
    BY <1>1
  <2>2. QED
    BY <2>1, CatFacts
<1> HIDE DEF w
<1>5. Len(w) = Len(s) + L /\ \A j \in 1 .. L : w[Len(s) + j] = <<p, j>>
  BY <1>1, <1>4
<1>6. ASSUME NEW i \in 1 .. Len(s) PROVE Follows(w, i)
  <2>1. w[i] = s[i] /\ i # Len(w) /\ (i > 1 => w[i - 1] = s[i - 1])
    <3>1. w[i] = s[i] /\ i # Len(w)
      BY <1>2, <1>4, <1>5
    <3>2. ASSUME i > 1 PROVE w[i - 1] = s[i - 1]
      <4>1. i - 1 \in 1 .. Len(s)
        BY <1>2, <3>2
      <4>2. QED
        BY <1>4, <4>1
    <3>3. QED
      BY <3>1, <3>2
  <2>2. Follows(s, i)
    OBVIOUS
  <2>3. QED
    BY <2>1, <2>2 DEF Follows
<1>7. ASSUME NEW j \in 1 .. L PROVE Follows(w, Len(s) + j)
  <2> DEFINE x == Len(s) + j
  <2>1. w[x] = <<p, j>> /\ w[x][1] = p /\ w[x][2] = j /\ x \in 1 .. Len(s) + L
    BY <1>2, <1>5
  <2>2. x = Len(w) => j = L
    BY <1>2, <1>5
  <2>3. CASE j = 1
    <3>1. x = Len(s) + 1 /\ x - 1 = Len(s)
      BY <1>2, <2>3
    <3>2. ASSUME x # 1 PROVE w[x - 1][2] = Len(Lines(w[x - 1][1]))
      <4>1. Len(s) \in 1 .. Len(s)
        BY <1>2, <3>1, <3>2
      <4>2. w[Len(s)] = s[Len(s)] /\ Follows(s, Len(s))
        BY <1>4, <4>1
      <4>3. s[Len(s)][2] = Len(Lines(s[Len(s)][1]))
        BY <4>2 DEF Follows
      <4>4. QED
        BY <3>1, <4>2, <4>3
    <3> HIDE DEF x
    <3>3. j \in 1 .. L
      OBVIOUS
    <3>4. /\ w[x][2] \in 1 .. Len(Lines(w[x][1]))
          /\ w[x][2] = 1
          /\ x = Len(w) => w[x][2] = Len(Lines(w[x][1]))
      BY <1>3, <2>1, <2>2, <2>3, <3>3
    <3>5. Follows(w, x)
      BY <3>2, <3>4 DEF Follows
    <3>6. QED
      BY <3>5 DEF x
  <2>4. CASE j # 1
    <3>1. x > 1 /\ j - 1 \in 1 .. L /\ x - 1 = Len(s) + (j - 1)
      BY <1>2, <2>4
    <3>2. w[x - 1] = <<p, j - 1>>
      BY <1>5, <3>1
    <3> HIDE DEF x
    <3>3. j \in 1 .. L
      OBVIOUS
    <3>4. /\ w[x][2] \in 1 .. Len(Lines(w[x][1]))
          /\ w[x][2] # 1 /\ x > 1
          /\ w[x - 1] = <<w[x][1], w[x][2] - 1>>
          /\ x = Len(w) => w[x][2] = Len(Lines(w[x][1]))
      BY <1>3, <2>1, <2>2, <2>4, <3>1, <3>2, <3>3
    <3>5. Follows(w, x)
      BY <3>4 DEF Follows
    <3>6. QED
      BY <3>5 DEF x
  <2>5. QED
    BY <2>3, <2>4
<1>8. ASSUME NEW i \in 1 .. Len(s) + L PROVE Follows(w, i)
  <2>1. CASE i <= Len(s)
    BY <1>2, <1>6, <2>1
  <2>2. CASE i > Len(s)
    <3>1. i - Len(s) \in 1 .. L /\ Len(s) + (i - Len(s)) = i
      BY <1>2, <2>2
    <3>2. QED
      BY <1>7, <3>1
  <2>3. QED
    BY <1>2, <2>1, <2>2
<1>9. QED
  BY <1>4, <1>5, <1>8 DEF w, u, L


(* tcpdump prints: the reader's lines stay whole and in order.             *)
LEMMA StreamPrints ==
    ASSUME ReaderType, HistoryType, NEW r \in Readers, StreamOf(r),
           NEW p \in Replies, TcpdumpPrints(r, p)
    PROVE  StreamOf(r)'
<1> DEFINE s == printed[r]
           L == Len(Lines(p))
           n == parsed[r] + Len(data[r])
           ps == Pending(r)
           pp == Pending(r)'
<1>1. /\ data \in [Readers -> Seq(Line)] /\ chan \in [Readers -> Seq(Line)]
      /\ printed \in [Readers -> Seq(Packets \X Nat)]
      /\ parsed \in [Readers -> Nat] /\ p \in Packets
  BY LeasesAssumption DEF ReaderType, HistoryType
<1>2. /\ pc[r] \notin {"off", "top", "open"} /\ pc' = pc
      /\ chan' = [chan EXCEPT ![r] = @ \o Lines(p)]
      /\ printed' = [printed EXCEPT ![r] = @ \o Numbered(p)]
      /\ out' = out /\ data' = data /\ line' = line /\ parsed' = parsed
      /\ acked \subseteq acked'
      /\ p.kind = "ack" => <<p.mac, p.ip>> \in acked'
  BY DEF TcpdumpPrints, Collecting
<1>3. chan'[r] = chan[r] \o Lines(p) /\ printed'[r] = s \o Numbered(p)
  BY <1>1, <1>2
<1>4. /\ out[r] # None => ~ out[r].stale
      /\ Len(s) = n + Len(ps)
      /\ \A i \in 1 .. Len(data[r]) : data[r][i] = LineOf(s[parsed[r] + i])
      /\ \A i \in 1 .. Len(ps) : ps[i] = LineOf(s[n + i])
      /\ pc[r] \notin {"feed", "cmp", "body", "set", "load", "store", "reset"} =>
            data[r] = << >>
      /\ pc[r] \in {"cmp", "body", "set", "load", "store", "reset"} =>
            parsed[r] > 0
      /\ pc[r] \in {"cmp", "body"} => line[r] = LineOf(s[parsed[r]])
      /\ \A i \in 1 .. Len(s) : Follows(s, i)
      /\ \A i \in 1 .. Len(s) :
            s[i][1].kind = "ack" => <<s[i][1].mac, s[i][1].ip>> \in acked
  BY DEF StreamOf
<1>5. /\ Len(pp) = Len(ps) + L
      /\ \A i \in 1 .. Len(ps) : pp[i] = ps[i]
      /\ \A j \in 1 .. L : pp[Len(ps) + j] = Lines(p)[j]
  BY <1>1, <1>2, <1>3, <1>4, PendingGrows
<1>6. s \in Seq(Packets \X Nat)
  BY <1>1
<1> DEFINE w == s \o Numbered(p)
<1>7. /\ Len(w) = Len(s) + L
      /\ \A i \in 1 .. Len(s) : w[i] = s[i]
      /\ \A j \in 1 .. L : w[Len(s) + j] = <<p, j>>
      /\ \A i \in 1 .. Len(s) + L : Follows(w, i)
  BY <1>1, <1>4, <1>6, FollowsGrows
<1>8. parsed[r] \in Nat /\ Len(data[r]) \in Nat /\ Len(ps) \in Nat
  BY <1>1, PendingType, LenProperties
<1>9. L \in Nat
  <2>1. L \in 7 .. 8
    BY <1>1, LinesType
  <2> HIDE DEF L
  <2>2. QED
    BY <2>1
<1>10. n \in Nat
  BY <1>8
<1>11. L = Len(Lines(p)) /\ printed'[r] = w
  BY <1>3
<1>12. \A i \in 1 .. Len(data[r]) : parsed[r] + i \in 1 .. n
  BY <1>8
<1>13. parsed[r] > 0 => parsed[r] \in 1 .. n
  BY <1>8
<1>14. n = parsed[r] + Len(data[r]) /\ pp = Pending(r)'
  OBVIOUS
<1> HIDE DEF s, L, n, ps, pp, w
<1>15. \A i \in 1 .. n : i \in 1 .. Len(s)
  BY <1>4, <1>8, <1>10
<1>16. \A i \in 1 .. n : w[i] = s[i]
  BY <1>7, <1>15
<1>17. Len(w) = n + Len(pp)
  BY <1>4, <1>5, <1>7, <1>8, <1>9, <1>10
<1>18. ASSUME NEW i \in 1 .. Len(pp) PROVE pp[i] = LineOf(w[n + i])
  <2>1. CASE i <= Len(ps)
    <3>1. i \in 1 .. Len(ps) /\ n + i \in 1 .. Len(s)
      BY <1>4, <1>5, <1>8, <1>9, <1>10, <2>1
    <3>2. pp[i] = ps[i] /\ ps[i] = LineOf(s[n + i]) /\ w[n + i] = s[n + i]
      BY <1>4, <1>5, <1>7, <3>1
    <3>3. QED
      BY <3>2
  <2>2. CASE i > Len(ps)
    <3> DEFINE j == i - Len(ps)
    <3>1. j \in 1 .. L /\ Len(ps) + j = i /\ Len(s) + j = n + i
      BY <1>4, <1>5, <1>8, <1>9, <1>10, <2>2
    <3> HIDE DEF j
    <3>2. pp[Len(ps) + j] = Lines(p)[j] /\ w[Len(s) + j] = <<p, j>>
      BY <1>5, <1>7, <3>1
    <3>3. LineOf(<<p, j>>) = Lines(p)[j]
      BY DEF LineOf
    <3>4. QED
      BY <3>1, <3>2, <3>3
  <2>3. QED
    BY <1>5, <1>8, <1>9, <2>1, <2>2
<1>19. ASSUME NEW i \in 1 .. Len(w)
       PROVE  w[i][1].kind = "ack" => <<w[i][1].mac, w[i][1].ip>> \in acked'
  <2>1. Len(s) \in Nat
    BY <1>4, <1>8, <1>10
  <2>2. CASE i <= Len(s)
    <3>1. i \in 1 .. Len(s)
      BY <1>7, <1>9, <2>1, <2>2
    <3>2. w[i] = s[i]
      BY <1>7, <3>1
    <3>3. QED
      BY <1>2, <1>4, <3>1, <3>2
  <2>3. CASE i > Len(s)
    <3> DEFINE j == i - Len(s)
    <3>1. j \in 1 .. L /\ Len(s) + j = i
      BY <1>7, <1>9, <2>1, <2>3
    <3> HIDE DEF j
    <3>2. w[i] = <<p, j>>
      BY <1>7, <3>1
    <3>3. w[i][1] = p
      BY <3>2
    <3>4. QED
      BY <1>2, <3>3
  <2>4. QED
    BY <1>7, <1>9, <2>1, <2>2, <2>3
<1>20. \A i \in 1 .. Len(data[r]) : data[r][i] = LineOf(w[parsed[r] + i])
  BY <1>4, <1>12, <1>16
<1>21. pc[r] \in {"cmp", "body"} => line[r] = LineOf(w[parsed[r]])
  BY <1>4, <1>13, <1>16
<1>22. \A i \in 1 .. Len(w) :
        LET x == w[i][1]
        IN  /\ Follows(w, i)
            /\ x.kind = "ack" => <<x.mac, x.ip>> \in acked'
  BY <1>7, <1>19
<1>23. /\ Len(w) = parsed[r] + Len(data[r]) + Len(Pending(r)')
       /\ \A i \in 1 .. Len(Pending(r)') :
            Pending(r)'[i] = LineOf(w[parsed[r] + Len(data[r]) + i])
  BY <1>14, <1>17, <1>18
<1>24. QED
  BY <1>2, <1>4, <1>11, <1>20, <1>21, <1>22, <1>23 DEF StreamOf

(* A step of one reader leaves the lines of the others alone.              *)
LEMMA ReaderAlone ==
    ASSUME ReaderType, HistoryType, NEW r \in Readers,
           \/ Collect(r) \/ OpenFails(r) \/ Drop(r)
           \/ \E p \in Replies : TcpdumpPrints(r, p)
    PROVE  /\ exit' = exit /\ acked \subseteq acked'
           /\ \A q \in Readers \ {r} :
                /\ pc'[q] = pc[q] /\ chan'[q] = chan[q] /\ out'[q] = out[q]
                /\ data'[q] = data[q] /\ line'[q] = line[q]
                /\ printed'[q] = printed[q] /\ parsed'[q] = parsed[q]
<1> DEFINE Alone(f, g) == \A q \in Readers \ {r} : g[q] = f[q]
<1>1. ASSUME NEW S, NEW f \in [Readers -> S], NEW c
      PROVE  Alone(f, [f EXCEPT ![r] = c])
  OBVIOUS
<1>2. \A f : Alone(f, f)
  OBVIOUS
<1>3. /\ \A c : Alone(chan, [chan EXCEPT ![r] = c])
      /\ \A c : Alone(out, [out EXCEPT ![r] = c])
      /\ \A c : Alone(data, [data EXCEPT ![r] = c])
      /\ \A c : Alone(line, [line EXCEPT ![r] = c])
      /\ \A c : Alone(printed, [printed EXCEPT ![r] = c])
      /\ \A c : Alone(parsed, [parsed EXCEPT ![r] = c])
  BY DEF ReaderType, HistoryType
<1> DEFINE Rest == /\ exit' = exit /\ acked \subseteq acked'
                   /\ chan' = chan \/ \E c : chan' = [chan EXCEPT ![r] = c]
                   /\ out' = out \/ \E c : out' = [out EXCEPT ![r] = c]
                   /\ data' = data \/ \E c : data' = [data EXCEPT ![r] = c]
                   /\ line' = line \/ \E c : line' = [line EXCEPT ![r] = c]
                   /\ \/ printed' = printed
                      \/ \E c : printed' = [printed EXCEPT ![r] = c]
                   /\ \/ parsed' = parsed
                      \/ \E c : parsed' = [parsed EXCEPT ![r] = c]
<1>4. ParseLine(r) => Rest
  BY DEF ParseLine, Compare, Advance, SetState, Message, NoMatch, LoadIp,
         StoreMac, Reset, history
<1>5. Top(r) \/ Open(r) \/ RecvStderr(r) => Rest
  BY DEF Top, Open, RecvStderr, history
<1>6. OpenNone(r) \/ OpenFails(r) \/ Finish(r) => Rest
  BY DEF OpenNone, OpenFails, Finish, Leave
<1>7. Drop(r) => Rest
  BY DEF Drop, Leave
<1>8. Feed(r) => Rest
  BY DEF Feed
<1>9. \A n, cut : Recv(r, n, cut) => Rest
  BY DEF Recv, history
<1>10. \A p : TcpdumpPrints(r, p) => Rest
  BY DEF TcpdumpPrints
<1>11. Rest
  <2> HIDE DEF Rest
  <2>1. QED
    BY <1>4, <1>5, <1>6, <1>7, <1>8, <1>9, <1>10 DEF Collect
<1>12. /\ Alone(chan, chan') /\ Alone(out, out') /\ Alone(data, data')
       /\ Alone(line, line') /\ Alone(printed, printed')
       /\ Alone(parsed, parsed')
  <2> HIDE DEF Alone
  <2>1. QED
    BY <1>2, <1>3, <1>11
<1>13. \A q \in Readers \ {r} : pc'[q] = pc[q]
  BY ReaderMoves
<1>14. QED
  BY <1>11, <1>12, <1>13

(* What the reader that takes a step does to its own lines.                *)
LEMMA StreamOwn ==
    ASSUME ReaderType, HistoryType, NEW r \in Readers,
           \/ Collect(r) \/ OpenFails(r) \/ Drop(r)
           \/ \E p \in Replies : TcpdumpPrints(r, p),
           Reading(r) => StreamOf(r), Reading(r)', drops' = 0
    PROVE  StreamOf(r)'
<1>1. /\ pc \in [Readers -> {"off", "top", "open", "loop", "feed", "cmp", "body",
                             "set", "load", "store", "reset", "dead"}]
      /\ chan \in [Readers -> Seq(Line)] /\ data \in [Readers -> Seq(Line)]
      /\ printed \in [Readers -> Seq(Packets \X Nat)]
      /\ parsed \in [Readers -> Nat] /\ drops \in Nat
  BY DEF ReaderType, HistoryType
<1>2. ASSUME ParseLine(r) PROVE StreamOf(r)'
  <2>1. /\ UNCHANGED <<chan, out, data, line, printed, parsed, acked>>
        /\ pc[r] \in {"cmp", "body", "set", "load", "store", "reset"}
        /\ pc'[r] \in {"feed", "cmp", "body", "set", "load", "store", "reset"}
        /\ pc'[r] \in {"cmp", "body"} => pc[r] = "cmp"
    <3>1. ASSUME Compare(r) \/ Advance(r) \/ SetState(r)
          PROVE  /\ UNCHANGED <<chan, out, data, line, printed, parsed, acked>>
                 /\ pc[r] \in {"cmp", "body", "set"}
                 /\ pc'[r] \in {"feed", "cmp", "body", "set", "reset"}
                 /\ pc'[r] \in {"cmp", "body"} => pc[r] = "cmp"
      BY <1>1, <3>1 DEF Compare, Advance, SetState, history
    <3>2. ASSUME NoMatch(r) \/ LoadIp(r) \/ StoreMac(r) \/ Reset(r)
          PROVE  /\ UNCHANGED <<chan, out, data, line, printed, parsed, acked>>
                 /\ pc[r] \in {"body", "load", "store", "reset"}
                 /\ pc'[r] \in {"feed", "store", "reset"}
      BY <1>1, <3>2 DEF NoMatch, LoadIp, StoreMac, Reset, history
    <3>3. ASSUME Message(r)
          PROVE  /\ UNCHANGED <<chan, out, data, line, printed, parsed, acked>>
                 /\ pc[r] = "body" /\ pc'[r] \in {"feed", "load", "reset"}
      <4>1. MessageStep(line[r]) \in {"feed", "load", "reset"}
        BY DEF MessageStep
      <4>2. QED
        BY <1>1, <3>3, <4>1 DEF Message, history
    <3>4. QED
      BY <1>2, <3>1, <3>2, <3>3 DEF ParseLine
  <2>2. StreamOf(r)
    BY <2>1 DEF Reading
  <2>3. QED
    BY <2>1, <2>2, StreamKept
<1>3. ASSUME Top(r) \/ Open(r) PROVE StreamOf(r)'
  <2>1. /\ UNCHANGED <<chan, out, data, line, printed, parsed, acked, exit>>
        /\ pc[r] \in {"top", "open"} /\ pc'[r] \in {"open", "loop", "dead"}
        /\ pc[r] = "top" /\ exit[r] => pc'[r] = "dead"
    BY <1>1, <1>3 DEF Top, Open, history
  <2>2. StreamOf(r)
    BY <2>1 DEF Reading
  <2>3. data[r] = << >>
    BY <2>1, <2>2 DEF StreamOf
  <2>4. QED
    BY <2>1, <2>2, <2>3, StreamKept DEF Reading
<1>4. ASSUME RecvStderr(r) PROVE StreamOf(r)'
  <2>1. /\ UNCHANGED <<chan, out, data, line, printed, parsed, acked>>
        /\ pc[r] = "loop" /\ pc'[r] = "feed"
    BY <1>1, <1>4 DEF RecvStderr, history
  <2>2. StreamOf(r)
    BY <2>1 DEF Reading
  <2>3. QED
    BY <2>1, <2>2, StreamKept
<1>5. ASSUME OpenNone(r) PROVE StreamOf(r)'
  <2>1. /\ UNCHANGED <<out, data, acked>> /\ pc[r] = "open" /\ pc'[r] = "top"
        /\ chan'[r] = << >> /\ printed'[r] = << >> /\ parsed'[r] = 0
    BY <1>1, <1>5 DEF OpenNone, Leave
  <2>2. StreamOf(r)
    BY <2>1 DEF Reading
  <2>3. /\ data[r] = << >> /\ printed[r] = << >>
        /\ out[r] # None => ~ out[r].stale
        /\ Len(printed[r]) = parsed[r] + Len(data[r]) + Len(Pending(r))
    BY <2>1, <2>2 DEF StreamOf
  <2>4. Len(printed[r]) = 0 /\ Len(data[r]) = 0 /\ parsed[r] \in Nat
    BY <1>1, <2>3
  <2>5. Len(Pending(r)) = 0
    BY <2>3, <2>4, PendingFacts
  <2>6. out[r] = None
    <3>1. /\ Len(chan[r]) \in Nat
          /\ out[r] # None => Len(Pending(r)) = Len(chan[r]) + 1
      BY <2>3, PendingFacts
    <3>2. QED
      BY <2>5, <3>1
  <2>7. Pending(r)' = << >>
    BY <2>1, <2>6 DEF Pending
  <2>8. \A s : s = << >> => Len(s) = 0 /\ 1 .. Len(s) = {}
    OBVIOUS
  <2>9. QED
    BY <2>1, <2>3, <2>6, <2>7, <2>8 DEF StreamOf
<1>6. ASSUME Finish(r) PROVE FALSE
  <2>1. pc'[r] = "top" /\ exit[r] /\ exit' = exit
    BY <1>1, <1>6 DEF Finish, Leave
  <2>2. QED
    BY <2>1 DEF Reading
<1>7. ASSUME OpenFails(r) \/ Drop(r) PROVE FALSE
  BY <1>1, <1>7 DEF OpenFails, Drop
<1>8. ASSUME Feed(r) PROVE StreamOf(r)'
  <2>1. Reading(r)
    BY <1>8 DEF Feed, Reading
  <2>2. QED
    BY <1>8, <2>1, StreamFeed
<1>9. ASSUME NEW n \in 0 .. Len(Pending(r)), NEW cut \in Cuts, Recv(r, n, cut)
      PROVE  StreamOf(r)'
  <2>1. Reading(r)
    BY <1>9 DEF Recv, Reading
  <2>2. QED
    BY <1>9, <2>1, StreamRecv
<1>10. ASSUME NEW p \in Replies, TcpdumpPrints(r, p) PROVE StreamOf(r)'
  <2>1. Reading(r)
    BY <1>10 DEF TcpdumpPrints, Collecting, Reading
  <2>2. QED
    BY <1>10, <2>1, StreamPrints
<1>11. QED
  BY <1>2, <1>3, <1>4, <1>5, <1>6, <1>7, <1>8, <1>9, <1>10 DEF Collect

(* A lost connection is not forgotten.                                     *)
LEMMA DropsGrow ==
    ASSUME NEW r \in Readers,
           \/ Collect(r) \/ OpenFails(r) \/ Drop(r)
           \/ \E p \in Replies : TcpdumpPrints(r, p),
           drops \in Nat, drops' = 0
    PROVE  drops = 0
<1>1. ParseLine(r) \/ Top(r) \/ Open(r) \/ RecvStderr(r) => drops' = drops
  BY DEF ParseLine, Compare, Advance, SetState, Message, NoMatch, LoadIp,
         StoreMac, Reset, Top, Open, RecvStderr, history
<1>2. OpenNone(r) \/ Finish(r) \/ Feed(r) => drops' = drops
  BY DEF OpenNone, Finish, Feed
<1>3. OpenFails(r) \/ Drop(r) => drops' = drops + 1
  BY DEF OpenFails, Drop
<1>4. \A n, cut : Recv(r, n, cut) => drops' = drops
  BY DEF Recv, history
<1>5. \A p : TcpdumpPrints(r, p) => drops' = drops
  BY DEF TcpdumpPrints
<1>6. drops' = drops \/ drops' = drops + 1
  BY <1>1, <1>2, <1>3, <1>4, <1>5 DEF Collect
<1>7. QED
  BY <1>6

(* Whatever the threads do, the lines of each stay whole and in order.     *)
LEMMA StreamStep ==
    ASSUME TypeOK, StartInv, StreamInv, [Next]_vars
    PROVE  StreamInv'
<1>1. ReaderType /\ HistoryType /\ MainType
  BY DEF TypeOK
<1>2. /\ pc \in [Readers -> {"off", "top", "open", "loop", "feed", "cmp", "body",
                             "set", "load", "store", "reset", "dead"}]
      /\ exit \in [Readers -> BOOLEAN] /\ drops \in Nat
  BY <1>1 DEF ReaderType, HistoryType
<1>3. SUFFICES ASSUME drops' = 0, NEW q \in Readers, Reading(q)'
               PROVE  StreamOf(q)'
  BY DEF StreamInv
<1>4. ASSUME NEW r \in Readers,
             \/ Collect(r) \/ OpenFails(r) \/ Drop(r)
             \/ \E p \in Replies : TcpdumpPrints(r, p)
      PROVE  StreamOf(q)'
  <2>1. drops = 0
    BY <1>2, <1>3, <1>4, DropsGrow
  <2>2. CASE q = r
    BY <1>1, <1>3, <1>4, <2>1, <2>2, StreamOwn DEF StreamInv
  <2>3. CASE q # r
    <3>1. /\ exit' = exit /\ acked \subseteq acked'
          /\ pc'[q] = pc[q] /\ chan'[q] = chan[q] /\ out'[q] = out[q]
          /\ data'[q] = data[q] /\ line'[q] = line[q]
          /\ printed'[q] = printed[q] /\ parsed'[q] = parsed[q]
      BY <1>1, <1>4, <2>3, ReaderAlone
    <3>2. StreamOf(q)
      BY <1>3, <2>1, <3>1 DEF StreamInv, Reading
    <3>3. pc[q] \notin {"feed", "cmp", "body", "set", "load", "store", "reset"}
            => data[q] = << >>
      BY <3>2 DEF StreamOf
    <3>4. QED
      BY <3>1, <3>2, <3>3, StreamKept
  <2>4. QED
    BY <2>2, <2>3
<1>5. CASE Main
  <2>1. /\ UNCHANGED <<chan, out, data, line, printed, parsed, acked, drops>>
        /\ exit' = exit \/ exit' = [exit EXCEPT ![cur] = TRUE]
        /\ \/ pc' = pc
           \/ /\ main = "add" /\ pc' = [pc EXCEPT ![cur] = "top"]
              /\ exit' = exit
    BY <1>5 DEF Main, Proceed, AddReader, ReaderReady, ReaderNotReady,
        ReaderSleep, Poll, StopExit, StopClose, Stopped, Release, convertMacToIp,
        reader, history
  <2>2. exit[q] => exit'[q]
    BY <1>2, <2>1
  <2>3. pc'[q] = pc[q] \/ (pc[q] = "off" /\ pc'[q] = "top")
    <3>1. CASE pc' = pc
      BY <3>1
    <3>2. CASE main = "add" /\ pc' = [pc EXCEPT ![cur] = "top"]
      <4>1. cur \in Readers
        BY <3>2 DEF StartInv
      <4>2. cur >= cur
        BY <4>1, ReadersFact
      <4>3. pc[cur] = "off"
        BY <3>2, <4>1, <4>2 DEF StartInv
      <4>4. QED
        BY <1>2, <3>2, <4>1, <4>3
    <3>3. QED
      BY <2>1, <3>1, <3>2
  <2>4. StreamOf(q)
    <3>1. Reading(q)
      BY <1>3, <2>2, <2>3 DEF Reading
    <3>2. QED
      BY <1>3, <2>1, <3>1 DEF StreamInv
  <2>5. pc'[q] \notin {"feed", "cmp", "body", "set", "load", "store", "reset"}
            => data[q] = << >>
    BY <2>3, <2>4 DEF StreamOf
  <2>6. QED
    BY <2>1, <2>3, <2>4, <2>5, StreamKept
<1>6. CASE UNCHANGED vars
  <2>1. /\ UNCHANGED <<pc, exit, chan, out, data, line, printed, parsed>>
        /\ UNCHANGED <<acked, drops>>
    BY <1>6 DEF vars, reader, history
  <2>2. StreamOf(q)
    BY <1>3, <2>1 DEF StreamInv, Reading
  <2>3. pc[q] \notin {"feed", "cmp", "body", "set", "load", "store", "reset"}
            => data[q] = << >>
    BY <2>2 DEF StreamOf
  <2>4. QED
    BY <2>1, <2>2, <2>3, StreamKept
<1>7. QED
  BY <1>4, <1>5, <1>6 DEF Next

-----------------------------------------------------------------------------
(* One reader: the parser, the lines it was given and the cache.           *)

(* The line that the parser was given last, and the one it is given next.  *)
LEMMA LineAt ==
    ASSUME HistoryType, ReaderType, NEW r \in Readers, StreamOf(r),
           NEW i \in 1 .. Len(printed[r])
    PROVE  LET x == printed[r][i]
           IN  /\ x[1] \in Packets /\ x[2] \in 1 .. Len(Lines(x[1]))
               /\ Len(Lines(x[1])) \in 7 .. 8 /\ x = <<x[1], x[2]>>
<1> DEFINE x == printed[r][i]
<1>1. printed[r] \in Seq(Packets \X Nat)
  BY DEF HistoryType
<1>2. x \in Packets \X Nat
  BY <1>1, ElementOfSeq
<1>3. Follows(printed[r], i)
  BY DEF StreamOf
<1>4. x[2] \in 1 .. Len(Lines(x[1]))
  BY <1>3 DEF Follows
<1> HIDE DEF x
<1>5. x[1] \in Packets /\ x = <<x[1], x[2]>>
  BY <1>2
<1>6. Len(Lines(x[1])) \in 7 .. 8
  BY <1>5, LinesType
<1>7. QED
  BY <1>4, <1>5, <1>6 DEF x

(* The parser was given no more lines than were printed.                   *)
LEMMA ParsedRange ==
    ASSUME HistoryType, ReaderType, NEW r \in Readers, StreamOf(r)
    PROVE  /\ parsed[r] \in Nat /\ Len(printed[r]) \in Nat
           /\ Len(data[r]) \in Nat
           /\ parsed[r] + Len(data[r]) <= Len(printed[r])
           /\ parsed[r] > 0 => parsed[r] \in 1 .. Len(printed[r])
<1>1. /\ printed[r] \in Seq(Packets \X Nat) /\ parsed[r] \in Nat
      /\ data[r] \in Seq(Line)
  BY DEF HistoryType, ReaderType
<1>2. Len(printed[r]) \in Nat /\ Len(data[r]) \in Nat
  BY <1>1, LenProperties
<1>3. Len(Pending(r)) \in Nat
  BY PendingType, LenProperties
<1>4. Len(printed[r]) = parsed[r] + Len(data[r]) + Len(Pending(r))
  BY DEF StreamOf
<1>5. QED
  BY <1>1, <1>2, <1>3, <1>4

(* The last line of a reply leads to S_UNKNOWN, where the parser need not  *)
(* know anything of the next.                                              *)
LEMMA ReplyEnds ==
    ASSUME NEW p \in Packets
    PROVE  After(p, Len(Lines(p))) = "UNKNOWN" /\ Knows(p, 0)
<1>1. After(p, Len(Lines(p))) = "UNKNOWN"
  <2>1. CASE p.gw
    <3>1. Len(Lines(p)) = 8 /\ After(p, 8) = "UNKNOWN"
      BY Zenon, <2>1, LinesFacts, StateFacts
    <3>2. QED
      BY Zenon, <3>1
  <2>2. CASE ~ p.gw
    <3>1. Len(Lines(p)) = 7 /\ After(p, 7) = "UNKNOWN"
      BY Zenon, <2>2, LinesFacts, StateFacts
    <3>2. QED
      BY Zenon, <3>1
  <2>3. QED
    BY Zenon, <2>1, <2>2
<1>2. Knows(p, 0)
  <2> DEFINE L == Len(Lines(p))
  <2>1. L \in 7 .. 8
    BY LinesType
  <2> HIDE DEF L
  <2>2. ~ (0 >= L - 2) /\ ~ (0 >= 3)
    BY <2>1
  <2>3. QED
    BY <2>2 DEF Knows, L
<1>3. QED
  BY <1>1, <1>2

(* A step that gives the parser no line and takes none.                    *)
LEMMA ParserKept ==
    ASSUME NEW r \in Readers, ParserOf(r),
           UNCHANGED <<st, ip, mac>>, k'[r] = k[r], held'[r] = held[r],
           parsed'[r] = parsed[r],
           parsed[r] > 0 => printed'[r][parsed[r]] = printed[r][parsed[r]],
           \/ /\ pc[r] \in {"off", "top", "open", "loop", "feed"}
              /\ pc'[r] \in {"off", "top", "open", "loop", "feed", "dead"}
           \/ pc'[r] = pc[r] /\ parsed[r] > 0,
           parsed[r] \in Nat
    PROVE  ParserOf(r)'
<1>1. CASE parsed[r] > 0
  <2>1. printed'[r][parsed'[r]] = printed[r][parsed[r]]
    BY <1>1
  <2>2. QED
    BY <1>1, <2>1 DEF ParserOf, Knows
<1>2. CASE parsed[r] = 0
  BY <1>2 DEF ParserOf
<1>3. QED
  BY <1>1, <1>2

(* parse(): the next line is the one that the state of the parser is for.  *)
LEMMA ParserFeed ==
    ASSUME ReaderType, HistoryType, NEW r \in Readers, StreamOf(r), ParserOf(r),
           Feed(r)
    PROVE  ParserOf(r)'
<1>1. /\ pc \in [Readers -> {"off", "top", "open", "loop", "feed", "cmp", "body",
                             "set", "load", "store", "reset", "dead"}]
      /\ parsed \in [Readers -> Nat] /\ k \in [Readers -> 1 .. Len(Chain)]
      /\ data[r] \in Seq(Line)
  BY DEF ReaderType, HistoryType
<1>2. /\ pc[r] = "feed" /\ UNCHANGED <<st, ip, mac, held, printed>>
      /\ k'[r] = 1
  BY <1>1 DEF Feed, parser
<1>3. CASE data[r] = << >>
  <2>1. pc'[r] = "loop" /\ parsed'[r] = parsed[r]
    BY <1>1, <1>3 DEF Feed
  <2>2. QED
    BY <1>2, <2>1 DEF ParserOf, Knows
<1>4. CASE data[r] # << >>
  <2> DEFINE n == parsed[r]
             y == printed[r][n + 1]
             p == y[1]
             j == y[2]
  <2>1. pc'[r] = "cmp" /\ parsed'[r] = n + 1
    BY <1>1, <1>4 DEF Feed
  <2>2. n \in Nat /\ n + 1 \in 1 .. Len(printed[r])
    <3>1. Len(data[r]) > 0 /\ Len(data[r]) \in Nat
      BY <1>1, <1>4, EmptySeq, LenProperties
    <3>2. /\ n \in Nat /\ Len(printed[r]) \in Nat
          /\ n + Len(data[r]) <= Len(printed[r])
      BY ParsedRange
    <3>3. QED
      BY <3>1, <3>2
  <2>3. /\ p \in Packets /\ j \in 1 .. Len(Lines(p)) /\ Len(Lines(p)) \in 7 .. 8
        /\ n > 0 => /\ printed[r][n][1] \in Packets
                    /\ Len(Lines(printed[r][n][1])) \in 7 .. 8
    <3>1. n > 0 => n \in 1 .. Len(printed[r])
      BY ParsedRange
    <3>2. QED
      BY <2>2, <3>1, LineAt
  <2>4. IF n = 0 THEN st = "UNKNOWN"
        ELSE /\ st = After(printed[r][n][1], printed[r][n][2])
             /\ Knows(printed[r][n][1], printed[r][n][2])
    BY <1>2 DEF ParserOf
  <2>5. IF j = 1 THEN n = 0 \/ printed[r][n][2] = Len(Lines(printed[r][n][1]))
        ELSE n > 0 /\ printed[r][n] = <<p, j - 1>>
    <3>1. Follows(printed[r], n + 1)
      BY <2>2 DEF StreamOf
    <3>2. (n + 1) - 1 = n /\ (n + 1 = 1 <=> n = 0) /\ (n + 1 > 1 <=> n > 0)
      BY <2>2
    <3> HIDE DEF n
    <3>3. QED
      BY <3>1, <3>2 DEF Follows
  <2>6. st = Before(p, j) /\ Knows(p, j - 1)
    <3>1. CASE j = 1
      <4>1. Knows(p, j - 1)
        <5>1. Knows(p, 0) /\ j - 1 = 0
          BY <2>3, <3>1, ReplyEnds
        <5>2. QED
          BY <5>1
      <4>2. st = "UNKNOWN"
        <5>1. CASE n = 0
          BY <2>4, <5>1
        <5>2. CASE n # 0
          <6>1. n > 0 /\ printed[r][n][2] = Len(Lines(printed[r][n][1]))
            BY <2>2, <2>5, <3>1, <5>2
          <6> DEFINE z == printed[r][n][1]
          <6>2. z \in Packets
            BY <2>3, <6>1
          <6>3. st = After(z, Len(Lines(z)))
            BY <2>4, <5>2, <6>1
          <6> HIDE DEF z
          <6>4. QED
            BY <6>2, <6>3, ReplyEnds
        <5>3. QED
          BY <5>1, <5>2
      <4>3. QED
        BY <3>1, <4>1, <4>2 DEF Before
    <3>2. CASE j # 1
      <4>1. n # 0 /\ printed[r][n] = <<p, j - 1>>
        BY <2>2, <2>5, <3>2
      <4>2. printed[r][n][1] = p /\ printed[r][n][2] = j - 1
        BY <4>1
      <4> HIDE DEF n, p, j
      <4>3. st = After(p, j - 1) /\ Knows(p, j - 1)
        BY <2>4, <4>1, <4>2
      <4>4. QED
        BY <3>2, <4>3 DEF Before
    <3>3. QED
      BY <3>1, <3>2
  <2>7. printed'[r][parsed'[r]] = y
    BY <1>2, <2>1
  <2>8. QED
    BY <1>2, <2>1, <2>6, <2>7 DEF ParserOf, Knows
<1>5. QED
  BY <1>3, <1>4

(* What the invariant asks of the parser after a step, by the place of the *)
(* reader.                                                                 *)
LEMMA ParserNow ==
    ASSUME NEW r \in Readers, NEW p, NEW j, printed'[r][parsed'[r]] = <<p, j>>,
           parsed'[r] # 0,
           \/ pc'[r] = "feed" /\ st' = After(p, j) /\ Knows(p, j)'
           \/ /\ pc'[r] = "body" /\ st' = Before(p, j) /\ Knows(p, j - 1)'
              /\ Chain[k'[r]] = st'
           \/ pc'[r] = "set" /\ held'[r] = After(p, j) /\ Knows(p, j)'
           \/ /\ pc'[r] = "load" /\ j = Len(Lines(p)) /\ p.kind = "ack"
              /\ Knows(p, j)'
           \/ /\ pc'[r] = "store" /\ j = Len(Lines(p)) /\ p.kind = "ack"
              /\ held'[r] = ip' /\ Knows(p, j)'
           \/ pc'[r] = "reset" /\ After(p, j) = "UNKNOWN" /\ Knows(p, j)'
    PROVE  ParserOf(r)'
<1> DEFINE x == printed[r][parsed[r]]
           Kn(q, i) == /\ i >= 3 => ip' = q.ip
                       /\ i >= Len(Lines(q)) - 2 => mac' = <<q.mac, "AA:BB">>
<1>1. \A i : Kn(p, i) <=> Knows(p, i)'
  BY DEF Knows
<1>2. x' = <<p, j>> /\ x'[1] = p /\ x'[2] = j
  OBVIOUS
<1> HIDE DEF Kn, x
<1>3. ParserOf(r)' <=>
        /\ pc'[r] \in {"off", "top", "open", "loop", "feed"} =>
            IF parsed'[r] = 0 THEN st' = "UNKNOWN"
            ELSE st' = After(x'[1], x'[2]) /\ Kn(x'[1], x'[2])
        /\ pc'[r] \in {"cmp", "body"} =>
            st' = Before(x'[1], x'[2]) /\ Kn(x'[1], x'[2] - 1)
        /\ pc'[r] = "cmp" => k'[r] = 1
        /\ pc'[r] = "body" => Chain[k'[r]] = st'
        /\ pc'[r] = "set" => held'[r] = After(x'[1], x'[2])
        /\ pc'[r] \in {"load", "store"} =>
            x'[2] = Len(Lines(x'[1])) /\ x'[1].kind = "ack"
        /\ pc'[r] = "store" => held'[r] = ip'
        /\ pc'[r] = "reset" => After(x'[1], x'[2]) = "UNKNOWN"
        /\ pc'[r] \in {"set", "load", "store", "reset"} => Kn(x'[1], x'[2])
  BY DEF ParserOf, Knows, Kn, x
<1>4. CASE pc'[r] = "feed" /\ st' = After(p, j) /\ Knows(p, j)'
  BY <1>1, <1>2, <1>3, <1>4
<1>5. CASE /\ pc'[r] = "body" /\ st' = Before(p, j) /\ Knows(p, j - 1)'
           /\ Chain[k'[r]] = st'
  BY <1>1, <1>2, <1>3, <1>5
<1>6. CASE pc'[r] = "set" /\ held'[r] = After(p, j) /\ Knows(p, j)'
  BY <1>1, <1>2, <1>3, <1>6
<1>7. CASE /\ pc'[r] = "load" /\ j = Len(Lines(p)) /\ p.kind = "ack"
           /\ Knows(p, j)'
  BY <1>1, <1>2, <1>3, <1>7
<1>8. CASE /\ pc'[r] = "store" /\ j = Len(Lines(p)) /\ p.kind = "ack"
           /\ held'[r] = ip' /\ Knows(p, j)'
  BY <1>1, <1>2, <1>3, <1>8
<1>9. CASE pc'[r] = "reset" /\ After(p, j) = "UNKNOWN" /\ Knows(p, j)'
  BY <1>1, <1>2, <1>3, <1>9
<1>10. QED
  BY <1>4, <1>5, <1>6, <1>7, <1>8, <1>9

(* parse_line(): a line takes the one reader's parser from the state       *)
(* before it to the state after it.  Only the store takes an               *)
(* acknowledgement away.                                                   *)
LEMMA ParserLine ==
    ASSUME ParserType, ReaderType, HistoryType, NEW r \in Readers,
           Readers = {r}, StreamOf(r), ParserOf(r), ParseLine(r),
           NEW p \in Packets, NEW j \in 1 .. Len(Lines(p)),
           printed[r][parsed[r]] = <<p, j>>, parsed[r] # 0
    PROVE  /\ ParserOf(r)'
           /\ \/ StoreMac(r)
              \/ pc[r] \in {"cmp", "body", "load", "store"}
                    <=> pc'[r] \in {"cmp", "body", "load", "store"}
              \/ j # Len(Lines(p)) \/ p.kind # "ack"
<1> DEFINE L == Len(Lines(p))
           D == {"cmp", "body", "load", "store"}
<1>1. /\ pc \in [Readers -> {"off", "top", "open", "loop", "feed", "cmp", "body",
                             "set", "load", "store", "reset", "dead"}]
      /\ k \in [Readers -> 1 .. Len(Chain)] /\ st \in States
      /\ held \in [Readers -> Ips \cup States \cup {None}]
  BY DEF ReaderType, ParserType
<1>2. printed'[r][parsed'[r]] = <<p, j>> /\ parsed'[r] # 0
  <2>1. ASSUME Compare(r) \/ Advance(r) \/ SetState(r) \/ Message(r)
        PROVE  UNCHANGED <<printed, parsed>>
    BY <2>1 DEF Compare, Advance, SetState, Message, history
  <2>2. ASSUME NoMatch(r) \/ LoadIp(r) \/ StoreMac(r) \/ Reset(r)
        PROVE  UNCHANGED <<printed, parsed>>
    BY <2>2 DEF NoMatch, LoadIp, StoreMac, Reset, history
  <2>3. QED
    BY <2>1, <2>2 DEF ParseLine
<1>3. /\ L \in 7 .. 8 /\ L \in Nat /\ j \in Nat /\ j >= 1
      /\ printed[r][parsed[r]][1] = p /\ printed[r][parsed[r]][2] = j
  BY LinesType
<1>4. pc[r] \in {"cmp", "body"} => line[r] = Lines(p)[j]
  <2>1. LineOf(<<p, j>>) = Lines(p)[j]
    BY DEF LineOf
  <2>2. QED
    BY <2>1 DEF StreamOf
<1>5. /\ pc[r] \in {"cmp", "body"} => st = Before(p, j) /\ Knows(p, j - 1)
      /\ pc[r] = "cmp" => k[r] = 1
      /\ pc[r] = "body" => Chain[k[r]] = st
      /\ pc[r] = "set" => held[r] = After(p, j)
      /\ pc[r] \in {"load", "store"} => j = L /\ p.kind = "ack"
      /\ pc[r] = "store" => held[r] = ip
      /\ pc[r] = "reset" => After(p, j) = "UNKNOWN"
      /\ pc[r] \in {"set", "load", "store", "reset"} => Knows(p, j)
  BY <1>3 DEF ParserOf
<1>6. ASSUME NEW i, Knows(p, i), ip' = ip, mac' = mac PROVE Knows(p, i)'
  BY <1>6 DEF Knows
<1>7. CASE Compare(r)
  <2>1. Place(st) \in 1 .. 6 /\ Chain[Place(st)] = st
    BY <1>1, ChainFacts
  <2>2. /\ pc[r] = "cmp" /\ k[r] = 1 /\ ~ (k[r] > Place(st))
        /\ UNCHANGED <<st, ip, mac>>
    BY <1>5, <1>7, <2>1 DEF Compare, parser
  <2>3. pc'[r] = "body" /\ k'[r] = Place(st)
    BY <1>1, <1>7, <2>2 DEF Compare
  <2>4. Knows(p, j - 1)' /\ st' = Before(p, j) /\ Chain[k'[r]] = st'
    BY <1>5, <1>6, <2>1, <2>2, <2>3
  <2>5. ParserOf(r)'
    BY <1>2, <2>3, <2>4, ParserNow
  <2>6. QED
    BY <2>2, <2>3, <2>5
<1>8. CASE Advance(r)
  <2>1. pc[r] = "body" /\ pc'[r] = "set"
    BY <1>1, <1>8 DEF Advance
  <2>2. st = Before(p, j) /\ Chain[k[r]] = st /\ line[r] = Lines(p)[j]
    BY <1>4, <1>5, <2>1
  <2>3. PICK e \in Saw(r) :
            /\ held' = [held EXCEPT ![r] = e[3]]
            /\ ip' = IF e[2] = "your" THEN Group(line[r], "your") ELSE ip
            /\ mac' = IF e[2] = "mac"
                      THEN unify_mac_format(Group(line[r], "mac")) ELSE mac
    BY <1>8 DEF Advance
  <2>4. e \in Expect /\ e[1] = Before(p, j) /\ Matches(Lines(p)[j], e[2])
    BY <2>2, <2>3 DEF Saw
  <2>5. /\ e[3] = After(p, j) /\ j < L
        /\ IF e[2] = "your" THEN j = 3 /\ Group(Lines(p)[j], "your") = p.ip
           ELSE j # 3
        /\ IF e[2] = "mac"
           THEN /\ j = L - 2
                /\ Group(Lines(p)[j], "mac") = <<p.mac, "aa:bb">>
           ELSE j # L - 2
    BY <2>4, AdvanceFacts
  <2>6. held'[r] = After(p, j)
    BY <1>1, <2>3, <2>5
  <2>7. /\ j - 1 >= 3 => ip = p.ip
        /\ j - 1 >= L - 2 => mac = <<p.mac, "AA:BB">>
    BY <1>5, <2>1 DEF Knows
  <2>8. j >= 3 => ip' = p.ip
    <3>1. CASE e[2] = "your"
      BY <2>2, <2>3, <2>5, <3>1
    <3>2. CASE e[2] # "your"
      <4>1. ip' = ip /\ j # 3
        BY <2>3, <2>5, <3>2
      <4>2. j >= 3 => j - 1 >= 3
        BY <1>3, <4>1
      <4>3. QED
        BY <2>7, <4>1, <4>2
    <3>3. QED
      BY <3>1, <3>2
  <2>9. j >= L - 2 => mac' = <<p.mac, "AA:BB">>
    <3>1. CASE e[2] = "mac"
      <4>1. mac' = unify_mac_format(<<p.mac, "aa:bb">>)
        BY <2>2, <2>3, <2>5, <3>1
      <4>2. QED
        BY <4>1 DEF unify_mac_format
    <3>2. CASE e[2] # "mac"
      <4>1. mac' = mac /\ j # L - 2
        BY <2>3, <2>5, <3>2
      <4> HIDE DEF L
      <4>2. j >= L - 2 => j - 1 >= L - 2
        BY <1>3, <4>1
      <4>3. QED
        BY <2>7, <4>1, <4>2
    <3>3. QED
      BY <3>1, <3>2
  <2>10. Knows(p, j)'
    BY <2>8, <2>9 DEF Knows
  <2>11. ParserOf(r)'
    BY <1>2, <2>1, <2>6, <2>10, ParserNow
  <2> HIDE DEF L
  <2>12. j # L
    BY <1>3, <2>5
  <2>13. QED
    BY <2>11, <2>12 DEF L
<1>9. CASE SetState(r)
  <2>1. /\ pc[r] = "set" /\ pc'[r] = "feed" /\ st' = held[r]
        /\ UNCHANGED <<ip, mac>>
    BY <1>1, <1>9 DEF SetState
  <2>2. st' = After(p, j) /\ Knows(p, j)'
    BY <1>5, <1>6, <2>1
  <2>3. ParserOf(r)'
    BY <1>2, <2>1, <2>2, ParserNow
  <2>4. QED
    BY <2>1, <2>3
<1>10. CASE Message(r)
  <2>1. /\ pc[r] = "body" /\ Chain[k[r]] = "MSG"
        /\ pc'[r] = MessageStep(line[r]) /\ UNCHANGED <<st, ip, mac>>
    BY <1>1, <1>10 DEF Message, parser
  <2>2. Before(p, j) = "MSG" /\ st = "MSG" /\ line[r] = Lines(p)[j]
    BY <1>4, <1>5, <2>1
  <2>3. /\ pc'[r] \in {"feed", "load", "reset"}
        /\ pc'[r] = "feed" => j = L - 1 /\ After(p, j) = "MSG"
        /\ pc'[r] # "feed" => /\ j = L /\ After(p, j) = "UNKNOWN"
                              /\ pc'[r] = "load" <=> p.kind = "ack"
    BY <2>1, <2>2, MessageFacts
  <2>4. Knows(p, j)'
    <3>1. /\ j - 1 >= 3 => ip = p.ip
          /\ j - 1 >= L - 2 => mac = <<p.mac, "AA:BB">>
      BY <1>5, <2>1 DEF Knows
    <3>2. j - 1 >= 3 /\ j - 1 >= L - 2
      <4>1. j = L - 1 \/ j = L
        BY <2>3
      <4> HIDE DEF L
      <4>2. QED
        BY <1>3, <4>1
    <3>3. ip' = p.ip /\ mac' = <<p.mac, "AA:BB">>
      BY <2>1, <3>1, <3>2
    <3>4. QED
      BY <3>3 DEF Knows
  <2>5. ParserOf(r)'
    <3>1. CASE pc'[r] = "feed"
      <4>1. st' = After(p, j)
        BY <2>1, <2>2, <2>3, <3>1
      <4>2. QED
        BY <1>2, <2>4, <3>1, <4>1, ParserNow
    <3>2. CASE pc'[r] = "load"
      <4>1. j = Len(Lines(p)) /\ p.kind = "ack"
        BY <2>3, <3>2
      <4>2. QED
        BY <1>2, <2>4, <3>2, <4>1, ParserNow
    <3>3. CASE pc'[r] = "reset"
      <4>1. After(p, j) = "UNKNOWN"
        BY <2>3, <3>3
      <4>2. QED
        BY <1>2, <2>4, <3>3, <4>1, ParserNow
    <3>4. QED
      BY <2>3, <3>1, <3>2, <3>3
  <2>6. \/ pc'[r] \in D \/ j # L \/ p.kind # "ack"
    <3> HIDE DEF L
    <3>1. pc'[r] = "feed" => j # L
      BY <1>3, <2>3
    <3>2. pc'[r] = "reset" => p.kind # "ack"
      BY <2>3
    <3>3. QED
      BY <2>3, <3>1, <3>2
  <2>7. QED
    BY <2>1, <2>5, <2>6
<1>11. CASE NoMatch(r)
  <2>1. /\ pc[r] = "body" /\ Chain[k[r]] # "MSG" /\ Saw(r) = {}
        /\ pc'[r] = "reset" /\ UNCHANGED <<st, ip, mac>>
    BY <1>1, <1>11 DEF NoMatch, parser
  <2>2. /\ Before(p, j) # "MSG" /\ Chain[k[r]] = Before(p, j)
        /\ line[r] = Lines(p)[j]
    BY <1>4, <1>5, <2>1
  <2>3. \A e \in Expect : e[1] = Before(p, j) => ~ Matches(Lines(p)[j], e[2])
    BY <2>1, <2>2 DEF Saw
  <2>4. After(p, j) = "UNKNOWN"
    BY <2>2, <2>3, NoMatchFacts
  <2>5. j = 1
    BY <2>2, <2>4, LineCases
  <2>6. Knows(p, j)' /\ j # L
    <3> HIDE DEF L
    <3>1. ~ (j >= 3) /\ ~ (j >= L - 2) /\ j # L
      BY <1>3, <2>5
    <3>2. QED
      BY <3>1 DEF Knows, L
  <2>7. ParserOf(r)'
    BY <1>2, <2>1, <2>4, <2>6, ParserNow
  <2>8. QED
    BY <2>6, <2>7
<1>12. CASE LoadIp(r)
  <2>1. /\ pc[r] = "load" /\ pc'[r] = "store" /\ held'[r] = ip
        /\ UNCHANGED <<ip, mac>>
    BY <1>1, <1>12 DEF LoadIp, parser
  <2>2. Knows(p, j)' /\ j = Len(Lines(p)) /\ p.kind = "ack" /\ held'[r] = ip'
    BY <1>5, <1>6, <2>1
  <2>3. ParserOf(r)'
    BY <1>2, <2>1, <2>2, ParserNow
  <2>4. QED
    BY <2>1, <2>3
<1>13. CASE StoreMac(r)
  <2>1. pc[r] = "store" /\ pc'[r] = "reset" /\ UNCHANGED <<ip, mac>>
    BY <1>1, <1>13 DEF StoreMac
  <2>2. Knows(p, j)' /\ After(p, j) = "UNKNOWN"
    BY <1>5, <1>6, <2>1, ReplyEnds
  <2>3. ParserOf(r)'
    BY <1>2, <2>1, <2>2, ParserNow
  <2>4. QED
    BY <1>13, <2>3
<1>14. CASE Reset(r)
  <2>1. /\ pc[r] = "reset" /\ pc'[r] = "feed" /\ st' = "UNKNOWN"
        /\ UNCHANGED <<ip, mac>>
    BY <1>1, <1>14 DEF Reset
  <2>2. Knows(p, j)' /\ st' = After(p, j)
    BY <1>5, <1>6, <2>1
  <2>3. ParserOf(r)'
    BY <1>2, <2>1, <2>2, ParserNow
  <2>4. QED
    BY <2>1, <2>3
<1>15. QED
  BY <1>7, <1>8, <1>9, <1>10, <1>11, <1>12, <1>13, <1>14 DEF ParseLine

(* What a step that is not one of parse_line() does to the parser.         *)
LEMMA ParserOther ==
    ASSUME ReaderType, HistoryType, NEW r \in Readers, StreamOf(r), ParserOf(r),
           \/ Top(r) \/ Open(r) \/ OpenNone(r) \/ RecvStderr(r)
           \/ \E n \in 0 .. Len(Pending(r)), cut \in Cuts : Recv(r, n, cut)
           \/ \E p \in Replies : TcpdumpPrints(r, p)
    PROVE  ParserOf(r)'
<1>1. /\ pc \in [Readers -> {"off", "top", "open", "loop", "feed", "cmp", "body",
                             "set", "load", "store", "reset", "dead"}]
      /\ printed \in [Readers -> Seq(Packets \X Nat)]
      /\ parsed \in [Readers -> Nat]
  BY DEF ReaderType, HistoryType
<1>2. parsed[r] \in Nat
  BY <1>1
<1>3. ASSUME Top(r) \/ Open(r) \/ RecvStderr(r) PROVE ParserOf(r)'
  <2>1. /\ UNCHANGED <<st, ip, mac, k, held, printed, parsed>>
        /\ pc[r] \in {"top", "open", "loop"}
        /\ pc'[r] \in {"open", "loop", "feed", "dead"}
    BY <1>1, <1>3 DEF Top, Open, RecvStderr, parser, history
  <2>2. QED
    BY <1>2, <2>1, ParserKept
<1>4. ASSUME NEW n, NEW cut, Recv(r, n, cut) PROVE ParserOf(r)'
  <2>1. /\ UNCHANGED <<st, ip, mac, k, held, printed, parsed>>
        /\ pc[r] = "loop" /\ pc'[r] = "feed"
    BY <1>1, <1>4 DEF Recv, parser, history
  <2>2. QED
    BY <1>2, <2>1, ParserKept
<1>5. CASE OpenNone(r)
  <2>1. /\ UNCHANGED <<st, ip, mac>> /\ pc[r] = "open" /\ pc'[r] = "top"
        /\ parsed'[r] = 0
    BY <1>1, <1>5 DEF OpenNone, Leave, parser
  <2>2. printed[r] = << >>
    BY <2>1 DEF StreamOf
  <2>3. parsed[r] = 0
    <3>1. Len(printed[r]) = 0
      BY <2>2
    <3>2. QED
      BY <3>1, ParsedRange
  <2>4. st = "UNKNOWN"
    BY <2>1, <2>3 DEF ParserOf
  <2>5. QED
    BY <2>1, <2>4 DEF ParserOf
<1>6. ASSUME NEW p \in Replies, TcpdumpPrints(r, p) PROVE ParserOf(r)'
  <2>1. /\ UNCHANGED <<st, ip, mac, k, held, parsed>> /\ pc' = pc
        /\ pc[r] \notin {"off", "top", "open", "dead"}
        /\ printed'[r] = printed[r] \o Numbered(p)
    BY <1>1, <1>6 DEF TcpdumpPrints, Collecting, parser
  <2>2. \A i \in 1 .. Len(printed[r]) : Follows(printed[r], i)
    BY DEF StreamOf
  <2>3. p \in Packets /\ printed[r] \in Seq(Packets \X Nat)
    BY <1>1, LeasesAssumption
  <2>4. \A i \in 1 .. Len(printed[r]) : printed'[r][i] = printed[r][i]
    BY <2>1, <2>2, <2>3, FollowsGrows
  <2>5. parsed[r] > 0 => printed'[r][parsed[r]] = printed[r][parsed[r]]
    BY <2>4, ParsedRange
  <2>6. pc[r] \in {"loop", "feed"} \/ parsed[r] > 0
    <3>1. pc[r] \in {"cmp", "body", "set", "load", "store", "reset"} =>
            parsed[r] > 0
      BY DEF StreamOf
    <3>2. pc[r] \in {"off", "top", "open", "loop", "feed", "cmp", "body",
                     "set", "load", "store", "reset", "dead"}
      BY <1>1
    <3>3. QED
      BY <2>1, <3>1, <3>2
  <2>7. QED
    BY <1>2, <2>1, <2>5, <2>6, ParserKept
<1>7. QED
  BY <1>3, <1>4, <1>5, <1>6

(* A step after which the same acknowledgements are due.                   *)
LEMMA LatestKept ==
    ASSUME NEW r \in Readers, LatestOf(r), cache' = cache, last' = last,
           printed'[r] = printed[r], Len(printed[r]) \in Nat,
           \A a \in Macs, i \in 1 .. Len(printed[r]) :
                Due(r, a, i)' <=> Due(r, a, i)
    PROVE  LatestOf(r)'
<1> DEFINE N == Len(printed[r])
<1>1. SUFFICES ASSUME NEW a \in Macs
               PROVE  /\ (\A i \in 1 .. N : ~ Due(r, a, i)') =>
                            cache'[<<a, "AA:BB">>] = last'[a]
                      /\ \A i \in 1 .. N :
                            (/\ Due(r, a, i)'
                             /\ \A h \in i + 1 .. N : ~ Due(r, a, h)')
                                => last'[a] = printed[r][i][1].ip
  BY DEF LatestOf
<1>2. \A i \in 1 .. N : \A h \in i + 1 .. N : h \in 1 .. N
  <2>1. N \in Nat
    OBVIOUS
  <2> HIDE DEF N
  <2>2. QED
    BY <2>1
<1>3. /\ (\A i \in 1 .. N : ~ Due(r, a, i)) => cache[<<a, "AA:BB">>] = last[a]
      /\ \A i \in 1 .. N :
            (Due(r, a, i) /\ \A h \in i + 1 .. N : ~ Due(r, a, h))
                => last[a] = printed[r][i][1].ip
  BY DEF LatestOf
<1> HIDE DEF N
<1>4. \A i \in 1 .. N : Due(r, a, i)' <=> Due(r, a, i)
  BY DEF N
<1>5. QED
  BY <1>2, <1>3, <1>4

(* A step that neither parses nor prints an acknowledgement.               *)
LEMMA DueKept ==
    ASSUME NEW r \in Readers, printed'[r] = printed[r], parsed[r] \in Nat,
           LET x == printed[r][parsed[r]]
               D == {"cmp", "body", "load", "store"}
           IN  \/ parsed'[r] = parsed[r] + 1 /\ pc[r] = "feed" /\ pc'[r] = "cmp"
               \/ /\ parsed'[r] = parsed[r]
                  /\ \/ pc[r] \in D <=> pc'[r] \in D
                     \/ x[2] # Len(Lines(x[1])) \/ x[1].kind # "ack",
           NEW a, NEW i \in Nat
    PROVE  Due(r, a, i)' <=> Due(r, a, i)
<1> DEFINE D == {"cmp", "body", "load", "store"}
           x == printed[r][parsed[r]]
<1>1. CASE parsed'[r] = parsed[r] + 1 /\ pc[r] = "feed" /\ pc'[r] = "cmp"
  <2>1. i > parsed[r] <=> i > parsed'[r] \/ i = parsed'[r]
    BY <1>1
  <2>2. QED
    BY <1>1, <2>1 DEF Due
<1>2. CASE parsed'[r] = parsed[r] /\ (pc[r] \in D <=> pc'[r] \in D)
  BY <1>2 DEF Due
<1>3. CASE parsed'[r] = parsed[r] /\ (x[2] # Len(Lines(x[1])) \/ x[1].kind # "ack")
  BY <1>3 DEF Due
<1>4. QED
  BY <1>1, <1>2, <1>3

(* The store: the lease that was due is in the cache.                      *)
LEMMA LatestStore ==
    ASSUME ParserType, ReaderType, HistoryType, NEW r \in Readers,
           StreamOf(r), ParserOf(r), LatestOf(r), LeaseTrue, drops = 0,
           StoreMac(r)
    PROVE  LatestOf(r)' /\ LeaseTrue'
<1> DEFINE n == parsed[r]
           N == Len(printed[r])
           p == printed[r][n][1]
           S(a) == cache[<<a, "AA:BB">>]
<1>1. /\ pc[r] = "store" /\ UNCHANGED <<printed, parsed, last, acked, drops>>
      /\ cache' = [cache EXCEPT ![mac] = held[r]]
      /\ pc' = [pc EXCEPT ![r] = "reset"]
  BY DEF StoreMac, history
<1>2. /\ n \in 1 .. N /\ N \in Nat
  BY <1>1, ParsedRange DEF StreamOf
<1>3. /\ printed[r][n][2] = Len(Lines(p)) /\ p.kind = "ack"
      /\ held[r] = ip /\ Knows(p, printed[r][n][2])
  BY <1>1 DEF ParserOf
<1>4. p \in Packets /\ Len(Lines(p)) \in 7 .. 8
  BY <1>2, LineAt
<1>5. ip = p.ip /\ mac = <<p.mac, "AA:BB">>
  <2> DEFINE L == Len(Lines(p))
  <2>1. L \in 7 .. 8
    BY <1>4
  <2> HIDE DEF L
  <2>2. L >= 3 /\ L >= L - 2
    BY <2>1
  <2>3. QED
    BY <1>3, <2>2 DEF Knows, L
<1>6. p.mac \in Macs /\ p.ip \in Ips
  BY <1>4 DEF Packets
<1>7. <<p.mac, p.ip>> \in acked
  BY <1>2, <1>3 DEF StreamOf
<1>8. pc'[r] = "reset"
  BY <1>1 DEF ReaderType
<1>9. /\ cache'[<<p.mac, "AA:BB">>] = p.ip
      /\ \A a \in Macs : a # p.mac => cache'[<<a, "AA:BB">>] = S(a)
  <2>1. cache \in [Spelled -> Ips \cup {None}]
    BY DEF ParserType
  <2>2. \A a \in Macs : <<a, "AA:BB">> \in Spelled
    BY UnifyType DEF Spellings
  <2>3. cache' = [cache EXCEPT ![<<p.mac, "AA:BB">>] = p.ip]
    BY <1>1, <1>3, <1>5
  <2> HIDE DEF p
  <2>4. \A a \in Macs : a # p.mac => <<a, "AA:BB">> # <<p.mac, "AA:BB">>
    OBVIOUS
  <2>5. QED
    BY <1>6, <2>1, <2>2, <2>3, <2>4
<1>10. LeaseTrue'
  <2> HIDE DEF p
  <2>1. \A a \in Macs : S(a) # None => <<a, S(a)>> \in acked
    BY DEF LeaseTrue
  <2>2. QED
    BY <1>1, <1>7, <1>9, <2>1 DEF LeaseTrue
<1> DEFINE Ack(a, i) == /\ printed[r][i][1].kind = "ack"
                        /\ printed[r][i][1].mac = a
                        /\ printed[r][i][2] = Len(Lines(printed[r][i][1]))
<1>11. \A a, i : Due(r, a, i)' <=> Ack(a, i) /\ i > n
  BY <1>1, <1>8 DEF Due
<1>12. /\ \A a \in Macs, i \in 1 .. N : i # n => (Due(r, a, i)' <=> Due(r, a, i))
       /\ \A a \in Macs : Due(r, a, n) <=> a = p.mac
  <2>1. \A a, i : Due(r, a, i) <=> Ack(a, i) /\ (i > n \/ i = n)
    BY <1>1 DEF Due
  <2>2. \A a : Ack(a, n) <=> a = p.mac
    BY <1>3
  <2> HIDE DEF Ack
  <2>3. QED
    BY <1>11, <2>1, <2>2
<1>13. \A i \in 1 .. N, a \in Macs : Due(r, a, i)' => i > n
  BY <1>11
<1>14. ASSUME NEW a \in Macs
       PROVE  /\ (\A i \in 1 .. N : ~ Due(r, a, i)) => S(a) = last[a]
              /\ \A i \in 1 .. N :
                    (Due(r, a, i) /\ \A h \in i + 1 .. N : ~ Due(r, a, h))
                        => last[a] = printed[r][i][1].ip
  BY DEF LatestOf
<1>15. p.ip = printed[r][n][1].ip
  OBVIOUS
<1>16. SUFFICES ASSUME NEW a \in Macs
                PROVE  /\ (\A i \in 1 .. N : ~ Due(r, a, i)') =>
                            cache'[<<a, "AA:BB">>] = last[a]
                       /\ \A i \in 1 .. N :
                            (/\ Due(r, a, i)'
                             /\ \A h \in i + 1 .. N : ~ Due(r, a, h)')
                                => last[a] = printed[r][i][1].ip
  BY <1>1, <1>10 DEF LatestOf
<1> HIDE DEF n, N, p, S, Ack
<1>17. ASSUME \A i \in 1 .. N : ~ Due(r, a, i)'
       PROVE  cache'[<<a, "AA:BB">>] = last[a]
  <2>1. CASE a = p.mac
    <3>1. Due(r, a, n)
      BY <1>12, <2>1
    <3>2. \A h \in n + 1 .. N : h \in 1 .. N /\ h # n
      BY <1>2
    <3>3. \A h \in n + 1 .. N : ~ Due(r, a, h)
      BY <1>12, <1>17, <3>2
    <3>4. last[a] = printed[r][n][1].ip
      BY <1>2, <1>14, <3>1, <3>3
    <3>5. QED
      BY <1>9, <1>15, <2>1, <3>4
  <2>2. CASE a # p.mac
    <3>1. \A i \in 1 .. N : ~ Due(r, a, i)
      BY <1>12, <1>17, <2>2
    <3>2. QED
      BY <1>9, <1>14, <2>2, <3>1
  <2>3. QED
    BY <2>1, <2>2
<1>18. ASSUME NEW i \in 1 .. N, Due(r, a, i)',
              \A h \in i + 1 .. N : ~ Due(r, a, h)'
       PROVE  last[a] = printed[r][i][1].ip
  <2>1. i > n
    BY <1>13, <1>18
  <2>2. \A h \in i + 1 .. N : h \in 1 .. N /\ h # n
    BY <1>2, <2>1
  <2>3. i # n
    BY <1>2, <2>1
  <2>4. Due(r, a, i) /\ \A h \in i + 1 .. N : ~ Due(r, a, h)
    BY <1>12, <1>18, <2>2, <2>3
  <2>5. QED
    BY <1>14, <2>4
<1>19. QED
  BY <1>17, <1>18

(* tcpdump prints a reply: if it acknowledges a lease, that is the last    *)
(* one, and it is due.                                                     *)
LEMMA LatestPrints ==
    ASSUME ReaderType, HistoryType, NEW r \in Readers, StreamOf(r), LatestOf(r),
           NEW p \in Replies, TcpdumpPrints(r, p)
    PROVE  LatestOf(r)'
<1> DEFINE s == printed[r]
           w == printed'[r]
           n == parsed[r]
           N == Len(printed[r])
           L == Len(Lines(p))
           D == {"cmp", "body", "load", "store"}
           Ack(x, a) == /\ x[1].kind = "ack" /\ x[1].mac = a
                        /\ x[2] = Len(Lines(x[1]))
           Late(i) == i > n \/ (i = n /\ pc[r] \in D)
           Now(a, i) == Ack(w[i], a) /\ Late(i)
<1>1. /\ printed \in [Readers -> Seq(Packets \X Nat)] /\ p \in Packets
      /\ last \in [Macs -> Ips \cup {None}] /\ s \in Seq(Packets \X Nat)
  <2>1. p \in Packets
    BY LeasesAssumption
  <2>2. /\ printed \in [Readers -> Seq(Packets \X Nat)]
        /\ last \in [Macs -> Ips \cup {None}]
    BY DEF HistoryType
  <2>3. QED
    BY <2>1, <2>2
<1>2. /\ UNCHANGED <<parsed, pc, cache>>
      /\ printed' = [printed EXCEPT ![r] = @ \o Numbered(p)]
      /\ IF p.kind = "ack" THEN last' = [last EXCEPT ![p.mac] = p.ip]
         ELSE last' = last
  BY DEF TcpdumpPrints, parser
<1>3. w = s \o Numbered(p)
  BY <1>1, <1>2
<1>4. \A i \in 1 .. N : Follows(s, i)
  BY DEF StreamOf
<1>5. /\ Len(w) = N + L
      /\ \A i \in 1 .. N : w[i] = s[i]
      /\ \A j \in 1 .. L : w[N + j] = <<p, j>>
  <2>1. /\ Len(s \o Numbered(p)) = Len(s) + Len(Lines(p))
        /\ \A i \in 1 .. Len(s) : (s \o Numbered(p))[i] = s[i]
        /\ \A j \in 1 .. Len(Lines(p)) :
                (s \o Numbered(p))[Len(s) + j] = <<p, j>>
    BY <1>1, <1>4, FollowsGrows
  <2>2. QED
    BY <1>3, <2>1
<1>6. n \in Nat /\ N \in Nat /\ n <= N
  <2>1. /\ n \in Nat /\ N \in Nat /\ Len(data[r]) \in Nat
        /\ n + Len(data[r]) <= N
    BY ParsedRange
  <2> HIDE DEF n, N
  <2>2. QED
    BY <2>1
<1>7. L \in 7 .. 8
  BY <1>1, LinesType
<1>8. /\ p.mac \in Macs /\ p.ip \in Ips
  BY <1>1 DEF Packets
<1>9. /\ \A a, i : Due(r, a, i) <=> Ack(s[i], a) /\ Late(i)
      /\ \A a, i : Due(r, a, i)' <=> Now(a, i)
  BY <1>2 DEF Due
<1>10. ASSUME NEW j, NEW a
       PROVE  Ack(<<p, j>>, a) <=> p.kind = "ack" /\ p.mac = a /\ j = L
  OBVIOUS
<1>11. ASSUME NEW a \in Macs
       PROVE  /\ (\A i \in 1 .. N : ~ Due(r, a, i)) =>
                    cache[<<a, "AA:BB">>] = last[a]
              /\ \A i \in 1 .. N :
                    (Due(r, a, i) /\ \A h \in i + 1 .. N : ~ Due(r, a, h))
                        => last[a] = s[i][1].ip
  BY DEF LatestOf
<1> HIDE DEF Now
<1>12. SUFFICES ASSUME NEW a \in Macs
                PROVE  /\ (\A i \in 1 .. Len(w) : ~ Now(a, i)) =>
                            cache[<<a, "AA:BB">>] = last'[a]
                       /\ \A i \in 1 .. Len(w) :
                            (/\ Now(a, i)
                             /\ \A h \in i + 1 .. Len(w) : ~ Now(a, h))
                                => last'[a] = w[i][1].ip
  BY <1>2, <1>9 DEF LatestOf
<1> USE DEF Now
<1>13. p.kind = "ack" /\ p.mac = a => last'[a] = p.ip
  BY <1>1, <1>2
<1>14. ~ (p.kind = "ack" /\ p.mac = a) => last'[a] = last[a]
  BY <1>1, <1>2
<1> HIDE DEF s, w, n, N, L, D, Ack
<1>15. N + L \in 1 .. Len(w) /\ L \in 1 .. L /\ N + L > n /\ Len(w) \in Nat
  BY <1>5, <1>6, <1>7
<1>16. CASE p.kind = "ack" /\ p.mac = a
  <2>1. w[N + L] = <<p, L>>
    BY <1>5, <1>15
  <2>2. w[N + L][1].ip = p.ip
    BY <2>1
  <2>3. Now(a, N + L)
    <3>1. Ack(<<p, L>>, a)
      BY <1>10, <1>16
    <3>2. Late(N + L)
      BY <1>15
    <3>3. QED
      BY <2>1, <3>1, <3>2
  <2>4. ASSUME NEW i \in 1 .. Len(w), i # N + L PROVE N + L \in i + 1 .. Len(w)
    BY <1>5, <1>15, <2>4
  <2>5. ASSUME NEW i \in 1 .. Len(w), \A h \in i + 1 .. Len(w) : ~ Now(a, h)
        PROVE  last'[a] = w[i][1].ip
    <3>1. i = N + L
      BY <2>3, <2>4, <2>5
    <3>2. QED
      BY <1>13, <1>16, <2>2, <3>1
  <2>6. ~ \A i \in 1 .. Len(w) : ~ Now(a, i)
    BY <1>15, <2>3
  <2>7. QED
    BY <2>5, <2>6
<1>17. CASE ~ (p.kind = "ack" /\ p.mac = a)
  <2>1. ASSUME NEW i \in 1 .. N
        PROVE  (Now(a, i) <=> Due(r, a, i)) /\ w[i] = s[i]
    BY <1>5, <1>9
  <2>2. ASSUME NEW i \in 1 .. Len(w), ~ (i \in 1 .. N) PROVE ~ Now(a, i)
    <3> DEFINE j == i - N
    <3>1. j \in 1 .. L /\ N + j = i
      BY <1>5, <1>6, <1>7, <2>2
    <3> HIDE DEF j
    <3>2. w[i] = <<p, j>>
      BY <1>5, <3>1
    <3>3. QED
      BY <1>9, <1>10, <1>17, <3>2
  <2>3. \A i \in 1 .. N :
            /\ i \in 1 .. Len(w)
            /\ \A h \in i + 1 .. N : h \in i + 1 .. Len(w) /\ h \in 1 .. N
    BY <1>5, <1>6, <1>7
  <2>4. ASSUME \A i \in 1 .. Len(w) : ~ Now(a, i)
        PROVE  cache[<<a, "AA:BB">>] = last'[a]
    <3>1. \A i \in 1 .. N : ~ Due(r, a, i)
      BY <2>1, <2>3, <2>4
    <3>2. QED
      BY <1>11, <1>14, <1>17, <3>1
  <2>5. ASSUME NEW i \in 1 .. Len(w), Now(a, i),
               \A h \in i + 1 .. Len(w) : ~ Now(a, h)
        PROVE  last'[a] = w[i][1].ip
    <3>1. i \in 1 .. N
      BY <2>2, <2>5
    <3>2. Due(r, a, i) /\ w[i] = s[i]
      BY <2>1, <2>5, <3>1
    <3>3. \A h \in i + 1 .. N : ~ Due(r, a, h)
      BY <2>1, <2>3, <2>5, <3>1
    <3>4. QED
      BY <1>11, <1>14, <1>17, <3>1, <3>2, <3>3
  <2>6. QED
    BY <2>4, <2>5
<1>18. QED
  BY <1>16, <1>17

(* A step of the only reader.                                              *)
LEMMA OneReaderOwn ==
    ASSUME ParserType, ReaderType, HistoryType, NEW r \in Readers,
           Readers = {r}, drops' = 0,
           \/ Collect(r) \/ OpenFails(r) \/ Drop(r)
           \/ \E p \in Replies : TcpdumpPrints(r, p),
           drops = 0, LeaseTrue,
           Reading(r) => StreamOf(r) /\ ParserOf(r) /\ LatestOf(r)
    PROVE  LeaseTrue' /\ (Reading(r)' => ParserOf(r)' /\ LatestOf(r)')
<1> DEFINE D == {"cmp", "body", "load", "store"}
           Aim == LeaseTrue' /\ (Reading(r)' => ParserOf(r)' /\ LatestOf(r)')
<1>1. /\ pc \in [Readers -> {"off", "top", "open", "loop", "feed", "cmp", "body",
                             "set", "load", "store", "reset", "dead"}]
      /\ printed \in [Readers -> Seq(Packets \X Nat)]
      /\ parsed \in [Readers -> Nat]
  BY DEF ReaderType, HistoryType
<1>2. parsed[r] \in Nat
  BY <1>1
<1>3. ASSUME cache' = cache, acked \subseteq acked' PROVE LeaseTrue'
  BY <1>3 DEF LeaseTrue
<1>4. ASSUME StreamOf(r), LatestOf(r), cache' = cache, last' = last,
             printed'[r] = printed[r],
             \/ parsed'[r] = parsed[r] + 1 /\ pc[r] = "feed" /\ pc'[r] = "cmp"
             \/ /\ parsed'[r] = parsed[r]
                /\ LET x == printed[r][parsed[r]]
                   IN  \/ pc[r] \in D <=> pc'[r] \in D
                       \/ x[2] # Len(Lines(x[1])) \/ x[1].kind # "ack"
      PROVE  LatestOf(r)'
  <2>1. \A a \in Macs, i \in 1 .. Len(printed[r]) : Due(r, a, i)' <=> Due(r, a, i)
    BY <1>2, <1>4, DueKept
  <2>2. Len(printed[r]) \in Nat
    BY <1>4, ParsedRange
  <2>3. QED
    BY <1>4, <2>1, <2>2, LatestKept
<1>5. ASSUME ParseLine(r) PROVE Aim
  <2>1. /\ pc[r] \in {"cmp", "body", "set", "load", "store", "reset"}
        /\ UNCHANGED <<printed, parsed, last, acked>>
        /\ cache' = cache \/ StoreMac(r)
    <3>1. ASSUME Compare(r) \/ Advance(r) \/ SetState(r) \/ Message(r)
          PROVE  /\ UNCHANGED <<printed, parsed, last, acked, cache>>
                 /\ pc[r] \in {"cmp", "body", "set"}
      BY <3>1 DEF Compare, Advance, SetState, Message, history, parser
    <3>2. ASSUME NoMatch(r) \/ LoadIp(r) \/ Reset(r)
          PROVE  /\ UNCHANGED <<printed, parsed, last, acked, cache>>
                 /\ pc[r] \in {"body", "load", "reset"}
      BY <3>2 DEF NoMatch, LoadIp, Reset, history, parser
    <3>3. ASSUME StoreMac(r)
          PROVE  UNCHANGED <<printed, parsed, last, acked>> /\ pc[r] = "store"
      BY <3>3 DEF StoreMac, history
    <3>4. QED
      BY <1>5, <3>1, <3>2, <3>3 DEF ParseLine
  <2>2. StreamOf(r) /\ ParserOf(r) /\ LatestOf(r)
    BY <2>1 DEF Reading
  <2>3. parsed[r] > 0 /\ parsed[r] # 0
    BY <1>2, <2>1, <2>2 DEF StreamOf
  <2>4. parsed[r] \in 1 .. Len(printed[r])
    BY <2>2, <2>3, ParsedRange
  <2>5. PICK p \in Packets : \E j \in 1 .. Len(Lines(p)) :
            printed[r][parsed[r]] = <<p, j>>
    <3> DEFINE x == printed[r][parsed[r]]
    <3>1. x[1] \in Packets /\ x[2] \in 1 .. Len(Lines(x[1])) /\ x = <<x[1], x[2]>>
      BY <2>2, <2>4, LineAt
    <3> HIDE DEF x
    <3>2. \E j \in 1 .. Len(Lines(x[1])) : x = <<x[1], j>>
      BY <3>1
    <3>3. QED
      BY <3>1, <3>2 DEF x
  <2>6. PICK j \in 1 .. Len(Lines(p)) : printed[r][parsed[r]] = <<p, j>>
    BY <2>5
  <2>7. /\ ParserOf(r)'
        /\ \/ StoreMac(r) \/ (pc[r] \in D <=> pc'[r] \in D)
           \/ j # Len(Lines(p)) \/ p.kind # "ack"
    BY <1>5, <2>2, <2>3, <2>6, ParserLine
  <2>8. CASE StoreMac(r)
    BY <2>2, <2>7, <2>8, LatestStore
  <2>9. CASE ~ StoreMac(r)
    <3>1. LeaseTrue'
      BY <1>3, <2>1, <2>9
    <3>2. printed[r][parsed[r]][1] = p /\ printed[r][parsed[r]][2] = j
      BY <2>6
    <3>3. LatestOf(r)'
      BY <1>4, <2>1, <2>2, <2>7, <2>9, <3>2
    <3>4. QED
      BY <2>7, <3>1, <3>3
  <2>10. QED
    BY <2>8, <2>9
<1>6. ASSUME Top(r) \/ Open(r) \/ RecvStderr(r) PROVE Aim
  <2>1. /\ UNCHANGED <<printed, parsed, last, acked, cache, exit>>
        /\ pc[r] \in {"top", "open", "loop"}
        /\ pc'[r] \in {"open", "loop", "feed", "dead"}
        /\ pc[r] = "top" /\ exit[r] => pc'[r] = "dead"
    BY <1>1, <1>6 DEF Top, Open, RecvStderr, history, parser
  <2>2. LeaseTrue'
    BY <1>3, <2>1
  <2>3. ASSUME Reading(r)' PROVE ParserOf(r)' /\ LatestOf(r)'
    <3>1. StreamOf(r) /\ ParserOf(r) /\ LatestOf(r)
      BY <2>1, <2>3 DEF Reading
    <3>2. QED
      BY <1>4, <1>6, <2>1, <3>1, ParserOther
  <2>4. QED
    BY <2>2, <2>3
<1>7. ASSUME NEW n \in 0 .. Len(Pending(r)), NEW cut \in Cuts, Recv(r, n, cut)
      PROVE  Aim
  <2>1. /\ UNCHANGED <<printed, parsed, last, acked, cache>>
        /\ pc[r] = "loop" /\ pc'[r] = "feed"
    BY <1>1, <1>7 DEF Recv, history, parser
  <2>2. StreamOf(r) /\ ParserOf(r) /\ LatestOf(r)
    BY <2>1 DEF Reading
  <2>3. ParserOf(r)'
    BY <1>7, <2>2, ParserOther
  <2>4. QED
    BY <1>3, <1>4, <2>1, <2>2, <2>3
<1>8. ASSUME OpenNone(r) PROVE Aim
  <2>1. /\ UNCHANGED <<last, acked, cache>> /\ pc[r] = "open"
        /\ printed'[r] = << >> /\ parsed'[r] = 0 /\ pc'[r] = "top"
    BY <1>1, <1>8 DEF OpenNone, Leave, parser
  <2>2. StreamOf(r) /\ ParserOf(r) /\ LatestOf(r)
    BY <2>1 DEF Reading
  <2>3. ParserOf(r)'
    BY <1>8, <2>2, ParserOther
  <2>4. printed[r] = << >>
    BY <2>1, <2>2 DEF StreamOf
  <2>5. parsed[r] = 0
    <3>1. Len(printed[r]) = 0
      BY <2>4
    <3>2. QED
      BY <2>2, <3>1, ParsedRange
  <2>6. QED
    BY <1>3, <1>4, <2>1, <2>2, <2>3, <2>4, <2>5
<1>9. ASSUME Feed(r) PROVE Aim
  <2>1. /\ UNCHANGED <<printed, last, acked, cache>> /\ pc[r] = "feed"
        /\ \/ pc'[r] = "loop" /\ parsed'[r] = parsed[r]
           \/ pc'[r] = "cmp" /\ parsed'[r] = parsed[r] + 1
    BY <1>1, <1>9 DEF Feed, parser
  <2>2. StreamOf(r) /\ ParserOf(r) /\ LatestOf(r)
    BY <2>1 DEF Reading
  <2>3. ParserOf(r)'
    BY <1>9, <2>2, ParserFeed
  <2>4. QED
    BY <1>3, <1>4, <2>1, <2>2, <2>3
<1>10. ASSUME Finish(r) PROVE Aim
  <2>1. /\ UNCHANGED <<acked, cache, exit>> /\ exit[r] /\ pc'[r] = "top"
    BY <1>1, <1>10 DEF Finish, Leave, parser
  <2>2. ~ Reading(r)'
    BY <2>1 DEF Reading
  <2>3. QED
    BY <1>3, <2>1, <2>2
<1>11. ASSUME OpenFails(r) \/ Drop(r) PROVE FALSE
  BY <1>11 DEF OpenFails, Drop
<1>12. ASSUME NEW p \in Replies, TcpdumpPrints(r, p) PROVE Aim
  <2>1. acked \subseteq acked' /\ cache' = cache /\ Reading(r)
    BY <1>12 DEF TcpdumpPrints, Collecting, Reading, parser
  <2>2. StreamOf(r) /\ ParserOf(r) /\ LatestOf(r)
    BY <2>1
  <2>3. QED
    BY <1>3, <1>12, <2>1, <2>2, ParserOther, LatestPrints
<1>13. QED
  BY <1>5, <1>6, <1>7, <1>8, <1>9, <1>10, <1>11, <1>12 DEF Collect

(* Whatever the threads do, with one host the cache is true and current.   *)
LEMMA OneReaderStep ==
    ASSUME TypeOK, StartInv, StreamInv, OneReaderInv, [Next]_vars
    PROVE  OneReaderInv'
<1>1. ParserType /\ ReaderType /\ HistoryType
  BY DEF TypeOK
<1>2. SUFFICES ASSUME Hosts = 1, drops' = 0
               PROVE  LeaseTrue' /\ (Reading(1)' => ParserOf(1)' /\ LatestOf(1)')
  BY DEF OneReaderInv
<1>3. Readers = {1} /\ 1 \in Readers
  BY <1>2 DEF Readers
<1>4. /\ pc \in [Readers -> {"off", "top", "open", "loop", "feed", "cmp", "body",
                             "set", "load", "store", "reset", "dead"}]
      /\ exit \in [Readers -> BOOLEAN] /\ drops \in Nat /\ parsed[1] \in Nat
  BY <1>1, <1>3 DEF ReaderType, HistoryType
<1>5. drops = 0 => /\ LeaseTrue
                   /\ Reading(1) => StreamOf(1) /\ ParserOf(1) /\ LatestOf(1)
  BY <1>2, <1>3 DEF OneReaderInv, StreamInv
<1>6. ASSUME UNCHANGED <<chan, out, data, line, printed, parsed, acked, drops>>,
             UNCHANGED <<st, ip, mac, cache, k, held, last>>,
             exit[1] => exit'[1],
             pc'[1] = pc[1] \/ (pc[1] = "off" /\ pc'[1] = "top")
      PROVE  LeaseTrue' /\ (Reading(1)' => ParserOf(1)' /\ LatestOf(1)')
  <2>1. LeaseTrue'
    BY <1>2, <1>5, <1>6 DEF LeaseTrue
  <2>2. ASSUME Reading(1)' PROVE ParserOf(1)' /\ LatestOf(1)'
    <3>1. Reading(1)
      BY <1>6, <2>2 DEF Reading
    <3>2. StreamOf(1) /\ ParserOf(1) /\ LatestOf(1)
      BY <1>2, <1>5, <1>6, <3>1
    <3>3. \/ /\ pc[1] \in {"off", "top", "open", "loop", "feed"}
             /\ pc'[1] \in {"off", "top", "open", "loop", "feed", "dead"}
          \/ pc'[1] = pc[1] /\ parsed[1] > 0
      <4>1. pc[1] \in {"off", "top", "open", "loop", "feed", "cmp", "body",
                       "set", "load", "store", "reset", "dead"}
        BY <1>3, <1>4
      <4>2. pc[1] \in {"cmp", "body", "set", "load", "store", "reset"} =>
                parsed[1] > 0
        BY <3>2 DEF StreamOf
      <4>3. QED
        BY <1>6, <3>1, <4>1, <4>2 DEF Reading
    <3>4. ParserOf(1)'
      BY <1>3, <1>4, <1>6, <3>2, <3>3, ParserKept
    <3>5. \A a \in Macs, i \in 1 .. Len(printed[1]) : Due(1, a, i)' <=> Due(1, a, i)
      BY <1>3, <1>4, <1>6, DueKept
    <3>6. Len(printed[1]) \in Nat
      BY <1>1, <1>3, <3>2, ParsedRange
    <3>7. QED
      BY <1>3, <1>6, <3>2, <3>4, <3>5, <3>6, LatestKept
  <2>3. QED
    BY <2>1, <2>2
<1>7. ASSUME NEW r \in Readers,
             \/ Collect(r) \/ OpenFails(r) \/ Drop(r)
             \/ \E p \in Replies : TcpdumpPrints(r, p)
      PROVE  LeaseTrue' /\ (Reading(1)' => ParserOf(1)' /\ LatestOf(1)')
  <2>1. r = 1
    BY <1>3
  <2>2. drops = 0
    BY <1>2, <1>4, <1>7, DropsGrow
  <2>3. QED
    BY <1>1, <1>2, <1>3, <1>5, <1>7, <2>1, <2>2, OneReaderOwn
<1>8. CASE Main
  <2>1. /\ UNCHANGED <<chan, out, data, line, printed, parsed, acked, drops>>
        /\ UNCHANGED <<st, ip, mac, cache, k, held, last>>
        /\ exit' = exit \/ exit' = [exit EXCEPT ![cur] = TRUE]
        /\ pc' = pc \/ (main = "add" /\ pc' = [pc EXCEPT ![cur] = "top"])
    BY <1>8 DEF Main, Proceed, AddReader, ReaderReady, ReaderNotReady,
        ReaderSleep, Poll, StopExit, StopClose, Stopped, Release, convertMacToIp,
        reader, history, parser
  <2>2. exit[1] => exit'[1]
    BY <1>3, <1>4, <2>1
  <2>3. pc'[1] = pc[1] \/ (pc[1] = "off" /\ pc'[1] = "top")
    <3>1. main = "add" => cur = 1 /\ pc[1] = "off"
      BY <1>3 DEF StartInv
    <3>2. QED
      BY <1>3, <1>4, <2>1, <3>1
  <2>4. QED
    BY <1>6, <2>1, <2>2, <2>3
<1>9. CASE UNCHANGED vars
  <2>1. /\ UNCHANGED <<chan, out, data, line, printed, parsed, acked, drops>>
        /\ UNCHANGED <<st, ip, mac, cache, k, held, last, pc, exit>>
    BY <1>9 DEF vars, reader, history, parser
  <2>2. QED
    BY <1>6, <2>1
<1>10. QED
  BY <1>7, <1>8, <1>9 DEF Next

-----------------------------------------------------------------------------
(* The theorems.                                                           *)

(* The invariant holds before the first reader is added.                   *)
LEMMA InitLeasesInv ==
    ASSUME Init
    PROVE  LeasesInv
<1>1. TypeOK
  <2>1. << >> \in Seq(Line) /\ << >> \in Seq(Packets \X Nat) /\ {} \in Line
    BY DEF Line
  <2>2. ParserType
    BY ChainFacts DEF Init, ParserType
  <2>3. ReaderType
    BY <2>1, ChainFacts DEF Init, ReaderType
  <2>4. MainType
    <3>1. /\ Hosts \in Nat /\ Hosts > 0 /\ Attempts \in Nat /\ Attempts > 0
          /\ Timeout \in Nat /\ Step \in Nat
      BY LeasesAssumption
    <3>2. QED
      BY <3>1 DEF Init, MainType
  <2>5. HistoryType
    BY <2>1 DEF Init, HistoryType
  <2>6. QED
    BY <2>2, <2>3, <2>4, <2>5 DEF TypeOK
<1>2. StartInv
  BY ReadersFact DEF Init, StartInv
<1>3. StoreInv
  BY DEF Init, StoreInv, Has
<1>4. AnswerInv
  <2>1. \A a \in Macs, s \in Spellings : cache[<<a, s>>] = None
    BY UnifyType DEF Init
  <2>2. NoFalseMiss /\ main # "poll"
    BY LeasesAssumption DEF Init, NoFalseMiss
  <2>3. QED
    BY <2>1, <2>2 DEF AnswerInv
<1>5. ASSUME NEW r \in Readers
      PROVE  StreamOf(r) /\ ParserOf(r) /\ printed[r] = << >> /\ parsed[r] = 0
  <2>1. /\ pc[r] = "off" /\ out[r] = None /\ chan[r] = << >> /\ data[r] = << >>
        /\ printed[r] = << >> /\ parsed[r] = 0 /\ st = "UNKNOWN"
    BY DEF Init
  <2>2. Pending(r) = << >>
    BY <2>1 DEF Pending
  <2>3. \A s : s = << >> => Len(s) = 0 /\ 1 .. Len(s) = {}
    OBVIOUS
  <2>4. StreamOf(r)
    BY <2>1, <2>2, <2>3 DEF StreamOf
  <2>5. ParserOf(r)
    BY <2>1 DEF ParserOf
  <2>6. QED
    BY <2>1, <2>4, <2>5
<1>6. StreamInv
  BY <1>5 DEF StreamInv
<1>7. OneReaderInv
  <2>1. \A a \in Macs : cache[<<a, "AA:BB">>] = None /\ last[a] = None
    BY UnifyType DEF Init, Spellings
  <2>2. LeaseTrue
    BY <2>1 DEF LeaseTrue
  <2>3. LatestOf(1)
    <3>1. \A s : s = << >> => Len(s) = 0 /\ 1 .. Len(s) = {}
      OBVIOUS
    <3>2. 1 .. Len(printed[1]) = {}
      BY <1>5, <3>1, ReadersFact
    <3>3. QED
      BY <2>1, <3>2 DEF LatestOf
  <2>4. QED
    BY <1>5, <2>2, <2>3, ReadersFact DEF OneReaderInv
<1>8. QED
  BY <1>1, <1>2, <1>3, <1>4, <1>6, <1>7 DEF LeasesInv

(* The inductive invariant, for any number of hosts.                       *)
THEOREM LeasesInvariance == Spec => []LeasesInv
<1>1. Init => LeasesInv
  BY InitLeasesInv
<1>2. LeasesInv /\ [Next]_vars => LeasesInv'
  <2>1. SUFFICES ASSUME LeasesInv, [Next]_vars PROVE LeasesInv'
    OBVIOUS
  <2>2. TypeOK /\ StartInv /\ StoreInv /\ AnswerInv /\ StreamInv /\ OneReaderInv
    BY <2>1 DEF LeasesInv
  <2>3. TypeOK'
    BY <2>1, <2>2, ParserTypeStep, ReaderTypeStep, MainTypeStep, HistoryTypeStep
       DEF TypeOK
  <2>4. StartInv' /\ StoreInv' /\ AnswerInv'
    BY <2>1, <2>2, StartStep, StoreStep, AnswerStep
  <2>5. StreamInv' /\ OneReaderInv'
    BY <2>1, <2>2, StreamStep, OneReaderStep
  <2>6. QED
    BY <2>3, <2>4, <2>5 DEF LeasesInv
<1>3. QED
  BY <1>1, <1>2, PTL DEF Spec

(* convertMacToIp raises CanNotFindIP only if it had no lease of the MAC   *)
(* when it was called, with any number of hosts and lost connections       *)
(* (wrapper of convertMacToIp, DHCPLeasesCatcher.get_ip).                  *)
THEOREM NoFalseMissCorrect == Spec => []NoFalseMiss
<1>1. LeasesInv => NoFalseMiss
  BY DEF LeasesInv, AnswerInv
<1>2. QED
  BY <1>1, LeasesInvariance, PTL

(* With one host whose connection is not lost the cache holds leases only  *)
(* (TCPDumpParser.parse_line).                                             *)
THEOREM LeaseCorrect ==
    ASSUME Hosts = 1
    PROVE  Spec => []LeaseTrue
<1>1. LeasesInv => LeaseTrue
  <2>1. CASE drops = 0
    BY <2>1 DEF LeasesInv, OneReaderInv
  <2>2. CASE drops # 0
    BY <2>2 DEF LeaseTrue
  <2>3. QED
    BY <2>1, <2>2
<1>2. QED
  BY <1>1, LeasesInvariance, PTL

(* When all that tcpdump printed was parsed, however recv() cut it, the    *)
(* cache holds the last lease of every MAC (SSHProducer.collecting,        *)
(* TCPDumpParser.parse_line).                                              *)
THEOREM LatestCorrect == Spec => []LatestLease
<1>1. LeasesInv => LatestLease
  <2>1. SUFFICES ASSUME LeasesInv, Hosts = 1, drops = 0, pc[1] = "loop",
                        Pending(1) = << >>, NEW a \in Macs
                 PROVE  cache[<<a, "AA:BB">>] = last[a]
    BY DEF LatestLease
  <2>2. 1 \in Readers /\ Reading(1) /\ ReaderType /\ HistoryType
    BY <2>1, ReadersFact DEF Reading, LeasesInv, TypeOK
  <2>3. StreamOf(1) /\ LatestOf(1)
    BY <2>1, <2>2 DEF LeasesInv, StreamInv, OneReaderInv
  <2>4. Len(printed[1]) = parsed[1] /\ parsed[1] \in Nat
    <3>1. /\ data[1] = << >>
          /\ Len(printed[1]) = parsed[1] + Len(data[1]) + Len(Pending(1))
      BY <2>1, <2>3 DEF StreamOf
    <3>2. parsed[1] \in Nat
      BY <2>2 DEF HistoryType
    <3>3. Len(data[1]) = 0 /\ Len(Pending(1)) = 0
      BY <2>1, <3>1
    <3>4. QED
      BY <3>1, <3>2, <3>3
  <2>5. \A i \in 1 .. Len(printed[1]) : ~ Due(1, a, i)
    <3>1. \A i \in 1 .. Len(printed[1]) : ~ (i > parsed[1])
      BY <2>4
    <3>2. QED
      BY <2>1, <3>1 DEF Due
  <2>6. QED
    BY <2>3, <2>5 DEF LatestOf
<1>2. QED
  BY <1>1, LeasesInvariance, PTL
=============================================================================
