-------------------------------- MODULE Tcp --------------------------------
(***************************************************************************)
(* The client sockets of net/tcp.c against one remote peer.                *)
(*                                                                         *)
(* A byte of the peer's stream is its position 1, 2, ...; the peer's       *)
(* initial sequence number is 0, so a byte's position is its sequence      *)
(* number.  Local ports are numbered in the order tcp_alloc_port gives     *)
(* them out.  The network may lose, delay, duplicate and reorder: whatever *)
(* the peer has sent on a connection may arrive at any later time, any     *)
(* number of times, cut into segments in any way.  A segment of the client *)
(* that is lost changes nothing here, as the client never resends one.     *)
(*                                                                         *)
(* One task calls the socket functions, which poll the card while they     *)
(* wait; between calls the card's interrupt runs the same handler.  The    *)
(* model assumes that the handler is not itself interrupted by the card    *)
(* and that the peer's hardware address is known.  A call from user mode   *)
(* runs with interrupts masked, so the timer does not tick until it        *)
(* returns; a call from the kernel shell runs with interrupts enabled, and *)
(* the card and the timer may come between any two steps of its loop.      *)
(***************************************************************************)
EXTENDS Naturals, Sequences, FiniteSets

CONSTANTS
    NSockets,      \* TCP_MAX_SOCKETS
    RingSize,      \* TCP_RX_BUF_SIZE, which is TCP_WINDOW too
    Mss,           \* largest payload of a segment
    Timeout,       \* ticks a blocking call waits
    MaxConnects,   \* bound: calls of tcp_connect
    MaxData,       \* bound: bytes the peer sends on a connection
    MaxSend        \* bound: segments the client sends on a connection

ASSUME TcpAssumption ==
    /\ {NSockets, RingSize, Mss, Timeout, MaxConnects} \subseteq Nat \ {0}
    /\ MaxData \in Nat /\ MaxSend \in Nat

Sockets == 0 .. NSockets - 1
Ports == 1 .. MaxConnects
NoPort == 0

VARIABLES
    sock,          \* tcp_sockets
    nextPort,      \* tcp_next_port
    peer,          \* what the peer has received and sent on each connection
    acked,         \* the highest acknowledgement sent on each connection
    got,           \* history: bytes tcp_recv has returned from each connection
    dropped,       \* history: bytes a full ring had no room for
    fds,           \* sockets tcp_connect has returned, not yet closed
    pc, cur,       \* the call under way and its socket
    masked,        \* the call runs with interrupts masked
    elapsed        \* ticks since the call began

calls == <<pc, cur, masked, elapsed>>
vars == <<sock, nextPort, peer, acked, got, dropped, fds, calls>>

\* A socket that was never opened, or that tcp_close has cleared.
Cleared == [open |-> FALSE, state |-> "CLOSED", port |-> NoPort,
            send |-> 0, recv |-> 0, ring |-> <<>>]

Init ==
    /\ sock = [i \in Sockets |-> Cleared]
    /\ nextPort = 1
    /\ peer = [p \in Ports |-> [syn |-> FALSE, sent |-> 0, fin |-> FALSE]]
    /\ acked = [p \in Ports |-> 0]
    /\ got = [p \in Ports |-> <<>>]
    /\ dropped = [p \in Ports |-> {}]
    /\ fds = {}
    /\ pc = "idle" /\ cur = 0 /\ masked = FALSE /\ elapsed = 0

-----------------------------------------------------------------------------
(* The peer, a correct TCP: it sends no more than the window it was given  *)
(* beyond what has been acknowledged.                                      *)

PeerSend(p) ==
    /\ acked[p] > 0 /\ ~peer[p].fin
    /\ peer[p].sent < MaxData
    /\ peer[p].sent + 1 < acked[p] + RingSize
    /\ peer' = [peer EXCEPT ![p].sent = @ + 1]
    /\ UNCHANGED <<sock, nextPort, acked, got, dropped, fds, calls>>

PeerFin(p) ==
    /\ acked[p] > 0 /\ ~peer[p].fin
    /\ peer' = [peer EXCEPT ![p].fin = TRUE]
    /\ UNCHANGED <<sock, nextPort, acked, got, dropped, fds, calls>>

\* The segments with data or a FIN that the peer has sent on a connection.
InFlight(p) ==
    {m \in [seq : 1 .. MaxData + 1, len : 0 .. Mss, fin : BOOLEAN] :
        /\ peer[p].syn
        /\ m.seq + m.len <= peer[p].sent + 1
        /\ m.fin => peer[p].fin /\ m.seq + m.len = peer[p].sent + 1
        /\ m.len > 0 \/ m.fin}

-----------------------------------------------------------------------------
(* tcp_receive. *)

\* tcp_find_socket
Owner(i, p) ==
    /\ sock[i].open /\ sock[i].port = p
    /\ \A j \in 0 .. i - 1 : ~(sock[j].open /\ sock[j].port = p)

\* The handler runs in the interrupt of the card or in the poll that ends a
\* round of a waiting loop, so not between the two tests of a masked tcp_recv.
CardServed == pc = "looked" => ~masked

ReceiveReset(p) ==
    /\ CardServed
    /\ peer[p].syn
    /\ \E i \in Sockets :
          /\ Owner(i, p)
          /\ sock' = [sock EXCEPT ![i].state = "CLOSED", ![i].open = FALSE]
    /\ UNCHANGED <<nextPort, peer, acked, got, dropped, fds, calls>>

\* SYN and ACK: the peer acknowledges the SYN it received, whose number is 0.
ReceiveSynAck(p) ==
    /\ CardServed
    /\ peer[p].syn
    /\ \E i \in Sockets :
          /\ Owner(i, p)
          /\ sock[i].state = "SYN_SENT"
          /\ sock[i].send = 1
          /\ sock' = [sock EXCEPT ![i].state = "ESTABLISHED", ![i].recv = 1]
    /\ acked' = [acked EXCEPT ![p] = IF @ = 0 THEN 1 ELSE @]
    /\ UNCHANGED <<nextPort, peer, got, dropped, fds, calls>>

\* Mutants: a ring filled to the last byte, a payload taken whatever its
\* sequence number is, or when it lies ahead of what is expected.
RoomWholeRing(s) == RingSize - Len(s.ring)
ExpectedAny(s, m) == m.len > 0
ExpectedAhead(s, m) == m.len > 0 /\ m.seq >= s.recv

\* tcp_rx_push keeps what there is room for: one place of the ring stays empty.
Room(s) == RingSize - 1 - Len(s.ring)

Expected(s, m) == m.len > 0 /\ m.seq = s.recv

\* The payload of segment m in socket state s, and then its FIN.
Payload(s, m) == [k \in 1 .. m.len |-> m.seq + k - 1]

Taken(s, m) ==
    IF ~Expected(s, m) THEN s
    ELSE LET kept == IF m.len <= Room(s) THEN m.len ELSE Room(s)
         IN  [s EXCEPT !.ring = @ \o SubSeq(Payload(s, m), 1, kept),
                       !.recv = m.seq + m.len]

Finished(s, m) ==
    IF ~m.fin THEN s
    ELSE LET closing == s.state \in {"ESTABLISHED", "CLOSE_WAIT"}
         IN  [s EXCEPT !.recv = @ + 1,
                       !.state = IF closing THEN "CLOSE_WAIT" ELSE @,
                       !.send = IF closing THEN @ + 1 ELSE @]

\* The bound is on the repeated FINs, each of which moves seq_recv.
ReceiveData(p) ==
    \E i \in Sockets, m \in InFlight(p) :
        LET s == sock[i]
            t == Finished(Taken(s, m), m)
        IN  /\ CardServed
            /\ Owner(i, p)
            /\ s.state # "SYN_SENT"
            /\ t # s
            /\ t.recv <= MaxData + 2
            /\ sock' = [sock EXCEPT ![i] = t]
            /\ acked' = [acked EXCEPT ![p] = IF @ < t.recv THEN t.recv ELSE @]
            /\ dropped' = [dropped EXCEPT ![p] = @ \cup
                  IF Expected(s, m) /\ m.len > Room(s)
                    THEN m.seq + Room(s) .. m.seq + m.len - 1 ELSE {}]
            /\ UNCHANGED <<nextPort, peer, got, fds, calls>>

-----------------------------------------------------------------------------
(* The calls of the task. *)

Wait(step, i) ==
    /\ pc = "idle"
    /\ pc' = step /\ cur' = i /\ elapsed' = 0
    /\ masked' \in BOOLEAN

Return == pc' = "idle" /\ cur' = 0 /\ elapsed' = 0 /\ masked' = FALSE

Opened(i) ==
    [open |-> TRUE, state |-> "SYN_SENT", port |-> nextPort,
     send |-> 1, recv |-> 0, ring |-> <<>>]

\* tcp_connect on the first socket that is not open, up to the SYN.
Connect(i) ==
    /\ nextPort \in Ports
    /\ ~sock[i].open
    /\ \A j \in 0 .. i - 1 : sock[j].open
    /\ nextPort' = nextPort + 1
    /\ UNCHANGED <<acked, got, dropped, fds>>
    /\ \/ /\ Wait("connecting", i)
          /\ sock' = [sock EXCEPT ![i] = Opened(i)]
          /\ peer' = [peer EXCEPT ![nextPort].syn = TRUE]
       \/ /\ pc = "idle"           \* the SYN cannot be sent
          /\ sock' = [sock EXCEPT ![i] =
                [Opened(i) EXCEPT !.open = FALSE, !.state = "CLOSED", !.send = 0]]
          /\ UNCHANGED <<peer, calls>>

Connected ==
    /\ pc = "connecting"
    /\ sock[cur].state = "ESTABLISHED"
    /\ fds' = fds \cup {cur}
    /\ Return
    /\ UNCHANGED <<sock, nextPort, peer, acked, got, dropped>>

\* Mutants: the slot is not given back; the wait ends only while the socket is
\* still in SYN_SENT.
ConnectExpiredLeaks ==
    /\ pc = "connecting"
    /\ elapsed = Timeout
    /\ sock' = [sock EXCEPT ![cur].state = "CLOSED"]
    /\ Return
    /\ UNCHANGED <<nextPort, peer, acked, got, dropped, fds>>

ConnectExpiredInSynSent ==
    /\ pc = "connecting"
    /\ sock[cur].state = "SYN_SENT"
    /\ elapsed = Timeout
    /\ sock' = [sock EXCEPT ![cur].open = FALSE, ![cur].state = "CLOSED"]
    /\ Return
    /\ UNCHANGED <<nextPort, peer, acked, got, dropped, fds>>

\* The loop ends without another look at the state: an answer that comes
\* between its last test and the end of the time is given up.
ConnectExpired ==
    /\ pc = "connecting"
    /\ elapsed = Timeout
    /\ sock' = [sock EXCEPT ![cur].open = FALSE, ![cur].state = "CLOSED"]
    /\ Return
    /\ UNCHANGED <<nextPort, peer, acked, got, dropped, fds>>

\* tcp_recv
Recv(i) ==
    /\ i \in fds /\ sock[i].open
    /\ Wait("receiving", i)
    /\ UNCHANGED <<sock, nextPort, peer, acked, got, dropped, fds>>

\* A round of its loop finds n bytes to return, ...
RecvBytes(n) ==
    /\ pc = "receiving" /\ elapsed < Timeout
    /\ n \in 1 .. Len(sock[cur].ring)
    /\ got' = [got EXCEPT ![sock[cur].port] = @ \o SubSeq(sock[cur].ring, 1, n)]
    /\ sock' = [sock EXCEPT ![cur].ring = SubSeq(@, n + 1, Len(@))]
    /\ Return
    /\ UNCHANGED <<nextPort, peer, acked, dropped, fds>>

\* ... or an empty ring, ...
RecvLook ==
    /\ pc = "receiving" /\ elapsed < Timeout
    /\ sock[cur].ring = <<>>
    /\ pc' = "looked"
    /\ UNCHANGED <<sock, nextPort, peer, acked, got, dropped, fds, cur, masked, elapsed>>

Ended(s) == ~s.open \/ s.state \in {"CLOSED", "CLOSE_WAIT"}

\* ... and then the end of the stream, ...
RecvEnd ==
    /\ pc = "looked" /\ Ended(sock[cur])
    /\ Return
    /\ UNCHANGED <<sock, nextPort, peer, acked, got, dropped, fds>>

\* ... or polls the card and goes round again, ...
RecvPoll ==
    /\ pc = "looked" /\ ~Ended(sock[cur])
    /\ pc' = "receiving"
    /\ UNCHANGED <<sock, nextPort, peer, acked, got, dropped, fds, cur, masked, elapsed>>

\* ... until the time is up.
RecvExpired ==
    /\ pc = "receiving" /\ elapsed = Timeout
    /\ Return
    /\ UNCHANGED <<sock, nextPort, peer, acked, got, dropped, fds>>

\* tcp_send: the segment carries the current acknowledgement.
Send(i) ==
    /\ pc = "idle"
    /\ i \in fds /\ sock[i].open /\ sock[i].state = "ESTABLISHED"
    /\ sock[i].send <= MaxSend
    /\ sock' = [sock EXCEPT ![i].send = @ + 1]
    /\ UNCHANGED <<nextPort, peer, acked, got, dropped, fds, calls>>

\* tcp_close sends a FIN when the socket is ESTABLISHED and clears the slot.
Close(i) ==
    /\ pc = "idle"
    /\ i \in fds
    /\ fds' = fds \ {i}
    /\ sock' = IF sock[i].open THEN [sock EXCEPT ![i] = Cleared] ELSE sock
    /\ UNCHANGED <<nextPort, peer, acked, got, dropped, calls>>

\* The timer's interrupt while a call waits.
Tick ==
    /\ pc # "idle" /\ ~masked
    /\ elapsed < Timeout
    /\ elapsed' = elapsed + 1
    /\ UNCHANGED <<sock, nextPort, peer, acked, got, dropped, fds, pc, cur, masked>>

-----------------------------------------------------------------------------
Loop ==
    \/ Connected \/ RecvLook \/ RecvEnd \/ RecvPoll \/ RecvExpired
    \/ \E n \in 1 .. RingSize : RecvBytes(n)
    \/ ConnectExpired

Next ==
    \/ \E p \in Ports :
          PeerSend(p) \/ PeerFin(p) \/ ReceiveReset(p) \/ ReceiveSynAck(p)
          \/ ReceiveData(p)
    \/ \E i \in Sockets : Connect(i) \/ Recv(i) \/ Send(i) \/ Close(i)
    \/ Loop \/ Tick

\* A waiting call keeps running, and with interrupts enabled the timer ticks.
Spec == Init /\ [][Next]_vars /\ WF_vars(Loop) /\ WF_vars(Tick)

-----------------------------------------------------------------------------
(* Properties. *)

States == {"CLOSED", "SYN_SENT", "ESTABLISHED", "CLOSE_WAIT"}

TypeOK ==
    /\ DOMAIN sock = Sockets
    /\ \A i \in Sockets :
          /\ sock[i].open \in BOOLEAN /\ sock[i].state \in States
          /\ sock[i].port \in Ports \cup {NoPort}
          /\ sock[i].send \in Nat /\ sock[i].recv \in 0 .. MaxData + 2
          /\ sock[i].ring \in Seq(1 .. MaxData) /\ Len(sock[i].ring) < RingSize
    /\ nextPort \in 1 .. MaxConnects + 1
    /\ peer \in [Ports -> [syn : BOOLEAN, sent : 0 .. MaxData, fin : BOOLEAN]]
    /\ acked \in [Ports -> 0 .. MaxData + 2]
    /\ fds \subseteq Sockets /\ cur \in Sockets
    /\ pc \in {"idle", "connecting", "receiving", "looked"}
    /\ masked \in BOOLEAN /\ elapsed \in 0 .. Timeout

Bytes(s) == {s[k] : k \in 1 .. Len(s)}

\* What the application has been given and will be given from the ring.
Stream(i) == got[sock[i].port] \o sock[i].ring

\* The application sees the bytes of its own connection in the order the peer
\* sent them, none twice, whatever the network repeats or reorders.
StreamInOrder ==
    \A i \in Sockets : sock[i].open =>
        LET s == Stream(i)
        IN  /\ \A k \in 1 .. Len(s) : s[k] <= peer[sock[i].port].sent
            /\ \A k \in 1 .. Len(s) - 1 : s[k] < s[k + 1]

\* On an established connection seq_recv has passed exactly the bytes that
\* were delivered, wait in the ring, or came when the ring was full.
Accounted ==
    \A i \in Sockets : sock[i].open /\ sock[i].state = "ESTABLISHED" =>
        LET p == sock[i].port
        IN  /\ Bytes(Stream(i)) \cup dropped[p] = 1 .. sock[i].recv - 1
            /\ Bytes(Stream(i)) \cap dropped[p] = {}

\* Every open slot belongs to a caller that can close it, or to the connect
\* under way: failed connects give their slot back.
NoLeakedSlot ==
    \A i \in Sockets : sock[i].open => i \in fds \/ (pc = "connecting" /\ cur = i)

\* With interrupts enabled, every blocking call returns.
ReturnsWhenTicking == (pc # "idle" /\ ~masked) ~> (pc = "idle")

\* Every blocking call returns: tcp_recv receives "with a timeout" (tcp.c:190).
Returns == (pc # "idle") ~> (pc = "idle")

\* A byte acknowledged to the peer is delivered or waits in the ring: an
\* incoming payload is appended to the ring (tcp.c:82) before it is
\* acknowledged.
NothingAckedIsLost ==
    \A i \in Sockets : sock[i].open /\ sock[i].state = "ESTABLISHED" =>
        1 .. acked[sock[i].port] - 1 \subseteq Bytes(Stream(i))
=============================================================================
