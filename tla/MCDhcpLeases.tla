---------------------------- MODULE MCDhcpLeases ----------------------------
(* Instances of DhcpLeases for TLC. *)
EXTENDS DhcpLeases

CONSTANTS m1, i1, i2

AskedNone == {}

AskedSpelling == {<<m1, "AA-BB">>}

\* A refused lease and an acknowledged one, whose reply may come over a relay.
NakAnd(gw) ==
    { [mac |-> m1, ip |-> i1, gw |-> FALSE, kind |-> "nak"],
      [mac |-> m1, ip |-> i2, gw |-> gw, kind |-> "ack"] }

NakAndAck == NakAnd(FALSE)

\* ... and a second lease of the same MAC, of another address: the one that
\* was refused, so that a MAC may be refused, leased and leased anew.
NakAndTwoLeases ==
    NakAnd(TRUE) \cup { [mac |-> m1, ip |-> i1, gw |-> FALSE, kind |-> "ack"] }

=============================================================================
