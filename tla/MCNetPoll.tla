----------------------------- MODULE MCNetPoll -----------------------------
(* Bounds for checking NetPoll: two hosts, two DHCP servers, two names and  *)
(* one socket; entries expire, so addresses are lost and resolved again.     *)
(* The servers leave the name server's address out of their ACKs.            *)
EXTENDS NetPoll, TLC
CONSTANTS h1, h2, s1, s2, n1, n2
MCCarries == [s \in Servers |-> [offer |-> Options, ack |-> Options \ {"dns"}, nak |-> {}]]
Symmetric == Permutations({s1, s2}) \cup Permutations({n1, n2})
=============================================================================
