------------------------------- MODULE MCTcp -------------------------------
\* Two sockets, two connections and a ring of two bytes: slots are reused, the
\* ring fills up and the peer repeats itself.
EXTENDS Tcp
=============================================================================
