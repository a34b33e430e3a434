----------------------------- MODULE TcpProofs -----------------------------
(***************************************************************************)
(* Proofs about Tcp for any number of sockets, size of the ring, timeout   *)
(* and amount of data: type correctness, that no slot is left open without *)
(* an owner, and that the application sees the peer's bytes in order and   *)
(* each once, whatever the network does.                                   *)
(***************************************************************************)
EXTENDS Tcp, SequenceTheorems, TLAPS

Data == 1 .. MaxData

Socket ==
    [open : BOOLEAN, state : States, port : Ports \cup {NoPort}, send : Nat,
     recv : 0 .. MaxData + 2, ring : Seq(Data)]

Typing ==
    /\ sock \in [Sockets -> Socket]
    /\ \A i \in Sockets : Len(sock[i].ring) < RingSize
    /\ nextPort \in 1 .. MaxConnects + 1
    /\ peer \in [Ports -> [syn : BOOLEAN, sent : 0 .. MaxData, fin : BOOLEAN]]
    /\ acked \in [Ports -> 0 .. MaxData + 2]
    /\ got \in [Ports -> Seq(Data)]
    /\ fds \subseteq Sockets /\ cur \in Sockets
    /\ pc \in {"idle", "connecting", "receiving", "looked"}
    /\ masked \in BOOLEAN /\ elapsed \in 0 .. Timeout

\* No two sockets share a port, and a port is used once.
Owned ==
    /\ \A i \in Sockets : sock[i].port < nextPort
    /\ \A i, j \in Sockets : i # j /\ sock[i].port = sock[j].port => sock[i].port = NoPort
    /\ \A i \in Sockets : sock[i].open => sock[i].port # NoPort
    /\ pc # "idle" => sock[cur].port # NoPort

\* Nothing has come from a port that was not given out.
Unused == \A p \in Ports : p >= nextPort => got[p] = <<>>

Increasing(s) == \A k, l \in 1 .. Len(s) : k < l => s[k] < s[l]

\* What came over a socket was sent, in order, and lies below seq_recv; nothing
\* came before the connection was made.
Delivered(i) ==
    /\ sock[i].state = "SYN_SENT" => Stream(i) = <<>>
    /\ \A k \in 1 .. Len(Stream(i)) :
          Stream(i)[k] <= peer[sock[i].port].sent /\ Stream(i)[k] < sock[i].recv
    /\ Increasing(Stream(i))

AllDelivered == \A i \in Sockets : sock[i].open => Delivered(i)

IInv == Typing /\ Owned /\ Unused /\ NoLeakedSlot /\ AllDelivered

-----------------------------------------------------------------------------
(* What the constants and the type of a socket give. *)

LEMMA Constants ==
    /\ NSockets \in Nat \ {0} /\ RingSize \in Nat \ {0} /\ Mss \in Nat \ {0}
    /\ Timeout \in Nat \ {0} /\ MaxConnects \in Nat \ {0}
    /\ MaxData \in Nat /\ MaxSend \in Nat
    /\ 0 \in Sockets /\ NoPort \notin Ports
BY TcpAssumption DEF Sockets, Ports, NoPort

LEMMA PortOf ==
    ASSUME Typing, NEW i \in Sockets
    PROVE  /\ sock[i] \in Socket
           /\ sock[i].port # NoPort => sock[i].port \in Ports
BY DEF Typing, Socket

LEMMA StreamType ==
    ASSUME Typing, NEW i \in Sockets, sock[i].port \in Ports
    PROVE  /\ Stream(i) \in Seq(Data)
           /\ got[sock[i].port] \in Seq(Data) /\ sock[i].ring \in Seq(Data)
<1>1. got[sock[i].port] \in Seq(Data) /\ sock[i].ring \in Seq(Data)
  BY DEF Typing, Socket
<1> QED BY <1>1, ConcatProperties DEF Stream

LEMMA TypingImplies == Typing => TypeOK
<1> SUFFICES ASSUME Typing PROVE TypeOK
  OBVIOUS
<1>1. \A i \in Sockets : sock[i] \in Socket
  BY DEF Typing
<1> QED BY <1>1 DEF Typing, TypeOK, Socket, Data

\* A socket whose stream is as it was, whose seq_recv has not gone back and
\* whose peer has taken nothing back.
LEMMA DeliveredKept ==
    ASSUME Typing, Typing', NEW i \in Sockets, sock[i].port \in Ports, Delivered(i),
           sock'[i].port = sock[i].port, Stream(i)' = Stream(i),
           sock'[i].recv >= sock[i].recv,
           peer'[sock[i].port].sent >= peer[sock[i].port].sent,
           sock'[i].state = "SYN_SENT" => sock[i].state = "SYN_SENT"
    PROVE  Delivered(i)'
<1>1. Stream(i) \in Seq(Data)
  BY StreamType
<1>2. \A k \in 1 .. Len(Stream(i)) : Stream(i)[k] \in Int
  <2>1. Data \subseteq Int
    BY Constants DEF Data
  <2> QED BY <1>1, <2>1, ElementOfSeq
<1>3. /\ peer'[sock[i].port].sent \in Int /\ peer[sock[i].port].sent \in Int
      /\ sock'[i].recv \in Int /\ sock[i].recv \in Int
  <2>1. sock[i] \in Socket /\ sock'[i] \in Socket
    BY DEF Typing
  <2>2. peer[sock[i].port] \in [syn : BOOLEAN, sent : 0 .. MaxData, fin : BOOLEAN]
    BY DEF Typing
  <2>3. peer'[sock[i].port] \in [syn : BOOLEAN, sent : 0 .. MaxData, fin : BOOLEAN]
    BY DEF Typing
  <2> QED BY <2>1, <2>2, <2>3, Constants DEF Socket
<1>4. sock'[i].state = "SYN_SENT" => Stream(i)' = <<>>
  BY DEF Delivered
<1>5. ASSUME NEW k \in 1 .. Len(Stream(i))
      PROVE  Stream(i)[k] <= peer'[sock[i].port].sent /\ Stream(i)[k] < sock'[i].recv
  <2>1. Stream(i)[k] <= peer[sock[i].port].sent /\ Stream(i)[k] < sock[i].recv
    BY DEF Delivered
  <2> QED BY <1>2, <1>3, <2>1
<1>6. Increasing(Stream(i)')
  BY DEF Delivered
<1> QED BY <1>4, <1>5, <1>6 DEF Delivered

\* The rest of the invariant when sockets, ports and streams stay.
LEMMA SocketsKept ==
    ASSUME IInv, Typing', UNCHANGED <<sock, nextPort, got>>,
           \A p \in Ports : peer'[p].sent >= peer[p].sent,
           \A i \in Sockets : sock[i].open => i \in fds' \/ (pc' = "connecting" /\ cur' = i),
           pc' # "idle" => sock[cur'].port # NoPort
    PROVE  IInv'
<1>1. Typing /\ Owned /\ Unused /\ AllDelivered
  BY DEF IInv
<1>2. Owned'
  BY <1>1 DEF Owned
<1>3. Unused'
  BY <1>1 DEF Unused
<1>4. NoLeakedSlot'
  BY DEF NoLeakedSlot
<1>5. ASSUME NEW i \in Sockets, sock[i].open
      PROVE  Delivered(i)'
  <2>1. sock[i].port \in Ports
    BY <1>1, <1>5, PortOf DEF Owned
  <2>2. Delivered(i)
    BY <1>1, <1>5 DEF AllDelivered
  <2>3. sock[i].recv \in Int
    BY <1>1, PortOf, Constants DEF Socket
  <2>4. Stream(i)' = Stream(i) /\ sock'[i].recv >= sock[i].recv
    BY <2>3 DEF Stream
  <2> QED BY <1>1, <2>1, <2>2, <2>4, DeliveredKept
<1>6. AllDelivered'
  BY <1>5 DEF AllDelivered
<1> QED BY <1>2, <1>3, <1>4, <1>6 DEF IInv

LEMMA InitInv == Init => IInv
<1> SUFFICES ASSUME Init PROVE IInv
  OBVIOUS
<1>1. Cleared \in Socket
  BY Constants, EmptySeq DEF Cleared, Socket, States
<1>2. Typing
  <2>1. \A i \in Sockets : Len(sock[i].ring) = 0
    BY EmptySeq DEF Init, Cleared
  <2>2. sock \in [Sockets -> Socket] /\ nextPort \in 1 .. MaxConnects + 1
    BY <1>1, Constants DEF Init
  <2>3. /\ peer \in [Ports -> [syn : BOOLEAN, sent : 0 .. MaxData, fin : BOOLEAN]]
        /\ acked \in [Ports -> 0 .. MaxData + 2]
    BY Constants DEF Init
  <2>4. got \in [Ports -> Seq(Data)]
    BY EmptySeq DEF Init
  <2>5. /\ fds \subseteq Sockets /\ cur \in Sockets /\ pc = "idle"
        /\ elapsed \in 0 .. Timeout
    BY Constants DEF Init
  <2>7. masked \in BOOLEAN
    BY Zenon DEF Init
  <2>6. \A i \in Sockets : Len(sock[i].ring) < RingSize
    BY <2>1, Constants
  <2> QED BY <2>2, <2>3, <2>4, <2>5, <2>6, <2>7 DEF Typing
<1>3. \A i \in Sockets : sock[i].port = NoPort /\ sock[i].open = FALSE
  BY DEF Init, Cleared
<1>4. Owned
  BY <1>3, Constants DEF Owned, Init, NoPort
<1>5. Unused
  BY DEF Init, Unused
<1> QED BY <1>2, <1>3, <1>4, <1>5 DEF IInv, NoLeakedSlot, AllDelivered

-----------------------------------------------------------------------------
(* Steps that change one socket. *)

\* Ports and the caller's socket stay: so does who owns which port.
LEMMA OwnedKept ==
    ASSUME Owned, nextPort' = nextPort,
           \A j \in Sockets : sock'[j].port = sock[j].port /\ (sock'[j].open => sock[j].open),
           pc' # "idle" => cur' \in Sockets /\ sock[cur'].port # NoPort
    PROVE  Owned'
BY DEF Owned

\* A step that leaves every socket but one as it was.
LEMMA OneSocket ==
    ASSUME IInv, Typing', NEW i \in Sockets,
           \A j \in Sockets \ {i} : sock'[j] = sock[j],
           \A j \in Sockets \ {i} : sock[j].port \in Ports =>
               /\ got'[sock[j].port] = got[sock[j].port]
               /\ peer'[sock[j].port].sent >= peer[sock[j].port].sent,
           Owned', Unused', NoLeakedSlot',
           sock'[i].open => Delivered(i)'
    PROVE  IInv'
<1>1. Typing /\ Owned /\ AllDelivered
  BY DEF IInv
<1>2. ASSUME NEW j \in Sockets \ {i}, sock'[j].open
      PROVE  Delivered(j)'
  <2>1. sock[j].open /\ sock[j].port \in Ports
    BY <1>1, <1>2, PortOf DEF Owned
  <2>2. Delivered(j)
    BY <1>1, <2>1 DEF AllDelivered
  <2>3. sock[j].recv \in Int
    BY <1>1, PortOf, Constants DEF Socket
  <2>4. sock'[j] = sock[j]
    BY <1>2
  <2>5. got'[sock[j].port] = got[sock[j].port]
    BY <1>2, <2>1
  <2>6. peer'[sock[j].port].sent >= peer[sock[j].port].sent
    BY <1>2, <2>1
  <2>7. Stream(j)' = Stream(j) /\ sock'[j].recv >= sock[j].recv
    BY <2>3, <2>4, <2>5 DEF Stream
  <2> QED BY <1>1, <2>1, <2>2, <2>4, <2>6, <2>7, DeliveredKept
<1>3. AllDelivered'
  BY <1>2 DEF AllDelivered
<1> QED BY <1>3 DEF IInv

\* The same when no port, stream or caller changes.
LEMMA OneSocketKeepsPort ==
    ASSUME IInv, NEW i \in Sockets, NEW s \in Socket,
           sock' = [sock EXCEPT ![i] = s], Len(s.ring) < RingSize,
           s.port = sock[i].port, s.open => sock[i].open,
           UNCHANGED <<nextPort, peer, got>>,
           acked' \in [Ports -> 0 .. MaxData + 2],
           /\ fds' = fds
           /\ \/ UNCHANGED calls
              \/ Return /\ (pc = "connecting" => cur = i /\ ~s.open),
           s.open => Delivered(i)'
    PROVE  IInv'
<1>1. Typing /\ Owned /\ Unused /\ NoLeakedSlot
  BY DEF IInv
<1>2. /\ sock' \in [Sockets -> Socket] /\ sock'[i] = s
      /\ \A j \in Sockets \ {i} : sock'[j] = sock[j]
  BY <1>1 DEF Typing
<1>3. \A j \in Sockets : Len(sock'[j].ring) < RingSize
  BY <1>1, <1>2 DEF Typing
<1>4. /\ pc' \in {"idle", "connecting", "receiving", "looked"} /\ cur' \in Sockets
      /\ elapsed' \in 0 .. Timeout
  BY <1>1, Constants DEF Typing, calls, Return
<1>5. masked' \in BOOLEAN
  BY <1>1, Zenon DEF Typing, calls, Return
<1>6. Typing'
  BY <1>1, <1>2, <1>3, <1>4, <1>5 DEF Typing
<1>7. Owned'
  <2>1. pc' # "idle" => cur' \in Sockets /\ sock[cur'].port # NoPort
    BY <1>1, <1>4 DEF Owned, calls, Return
  <2> QED BY <1>1, <1>2, <2>1, OwnedKept
<1>8. Unused'
  BY <1>1 DEF Unused
<1>9. NoLeakedSlot'
  BY <1>1, <1>2 DEF NoLeakedSlot, calls, Return
<1>10. \A j \in Sockets \ {i} : sock[j].port \in Ports =>
           /\ got'[sock[j].port] = got[sock[j].port]
           /\ peer'[sock[j].port].sent >= peer[sock[j].port].sent
  <2> SUFFICES ASSUME NEW q \in Ports PROVE peer[q].sent >= peer[q].sent
    OBVIOUS
  <2>1. peer[q].sent \in Int
    BY <1>1, Constants DEF Typing
  <2> QED BY <2>1
<1> QED BY <1>2, <1>6, <1>7, <1>8, <1>9, <1>10, OneSocket

-----------------------------------------------------------------------------
(* Bytes that a segment brings and bytes that a call takes. *)

Segment == [seq : 1 .. MaxData + 1, len : 0 .. Mss, fin : BOOLEAN]

\* The head of a payload is consecutive bytes of the stream.
LEMMA PayloadHead ==
    ASSUME NEW s, NEW m \in Segment, m.seq + m.len <= MaxData + 1, NEW n \in 0 .. m.len
    PROVE  /\ SubSeq(Payload(s, m), 1, n) \in Seq(Data)
           /\ Len(SubSeq(Payload(s, m), 1, n)) = n
           /\ \A k \in 1 .. n : SubSeq(Payload(s, m), 1, n)[k] = m.seq + k - 1
<1>1. m.seq \in 1 .. MaxData + 1 /\ m.len \in Nat
  BY Constants DEF Segment
<1>2. \A k \in 1 .. n : Payload(s, m)[k] = m.seq + k - 1
  BY <1>1 DEF Payload
<1>3. \A k \in 1 .. n : Payload(s, m)[k] \in Data
  <2> SUFFICES ASSUME NEW k \in 1 .. n PROVE m.seq + k - 1 \in Data
    BY <1>2
  <2> QED BY <1>1, Constants DEF Data
<1>4. n \in Int /\ 1 \in Int
  BY <1>1
<1>5. /\ SubSeq(Payload(s, m), 1, n) \in Seq(Data)
      /\ Len(SubSeq(Payload(s, m), 1, n)) = IF 1 <= n THEN n - 1 + 1 ELSE 0
      /\ \A k \in 1 .. n - 1 + 1 : SubSeq(Payload(s, m), 1, n)[k] = Payload(s, m)[1 + k - 1]
  BY <1>3, <1>4, SubSeqProperties
<1> QED BY <1>1, <1>2, <1>5

\* What Taken and Finished leave of a socket.
LEMMA TakenFacts ==
    ASSUME NEW s \in Socket, Len(s.ring) < RingSize, NEW m \in Segment,
           m.seq + m.len <= MaxData + 1
    PROVE  /\ Taken(s, m) \in Socket
           /\ Len(Taken(s, m).ring) < RingSize
           /\ Taken(s, m).open = s.open /\ Taken(s, m).port = s.port
           /\ Taken(s, m).state = s.state
           /\ Expected(s, m) =>
                 /\ Taken(s, m).recv = m.seq + m.len
                 /\ \E n \in 0 .. m.len : Taken(s, m).ring = s.ring \o SubSeq(Payload(s, m), 1, n)
           /\ ~Expected(s, m) => Taken(s, m) = s
<1>1. CASE ~Expected(s, m)
  BY <1>1 DEF Taken
<1>2. CASE Expected(s, m)
  <2> DEFINE n == IF m.len <= Room(s) THEN m.len ELSE Room(s)
             r == s.ring \o SubSeq(Payload(s, m), 1, n)
  <2>1. s.ring \in Seq(Data) /\ Len(s.ring) \in Nat
    BY LenProperties DEF Socket
  <2>2. m.len \in Nat /\ m.seq + m.len \in 0 .. MaxData + 2
    BY Constants DEF Segment
  <2>3. n \in 0 .. m.len /\ Len(s.ring) + n < RingSize
    <3>1. Room(s) \in Nat /\ Len(s.ring) + Room(s) < RingSize
      BY <2>1, Constants DEF Room
    <3>2. CASE m.len <= Room(s)
      BY <2>1, <2>2, <3>1, <3>2, Constants
    <3>3. CASE ~(m.len <= Room(s))
      BY <2>1, <2>2, <3>1, <3>3, Constants
    <3> QED BY <3>2, <3>3
  <2>4. /\ SubSeq(Payload(s, m), 1, n) \in Seq(Data)
        /\ Len(SubSeq(Payload(s, m), 1, n)) = n
    BY <2>3, PayloadHead
  <2>5. r \in Seq(Data) /\ Len(r) = Len(s.ring) + n
    BY <2>1, <2>4, ConcatProperties
  <2>6. Taken(s, m) = [s EXCEPT !.ring = r, !.recv = m.seq + m.len]
    BY <1>2 DEF Taken
  <2> HIDE DEF r, n
  <2>7. Taken(s, m) \in Socket
    BY <2>2, <2>5, <2>6 DEF Socket
  <2>8. /\ Taken(s, m).ring = r /\ Taken(s, m).recv = m.seq + m.len
        /\ Taken(s, m).open = s.open /\ Taken(s, m).port = s.port
        /\ Taken(s, m).state = s.state
    BY <2>6 DEF Socket
  <2>9. r = s.ring \o SubSeq(Payload(s, m), 1, n)
    BY DEF r
  <2> QED BY <1>2, <2>3, <2>5, <2>7, <2>8, <2>9
<1> QED BY <1>1, <1>2

LEMMA FinishedFacts ==
    ASSUME NEW s \in Socket, NEW m \in Segment, Finished(s, m).recv <= MaxData + 2
    PROVE  /\ Finished(s, m) \in Socket
           /\ Finished(s, m).ring = s.ring /\ Finished(s, m).open = s.open
           /\ Finished(s, m).port = s.port
           /\ Finished(s, m).recv >= s.recv
           /\ Finished(s, m).state = "SYN_SENT" => s.state = "SYN_SENT"
<1>1. s.recv \in Nat /\ s.send \in Nat /\ s.state \in States /\ MaxData \in Nat
  BY Constants DEF Socket
<1>2. CASE ~m.fin
  BY <1>1, <1>2 DEF Finished
<1>3. CASE m.fin
  <2> DEFINE closing == s.state \in {"ESTABLISHED", "CLOSE_WAIT"}
  <2>1. Finished(s, m) = [s EXCEPT !.recv = s.recv + 1,
                              !.state = IF closing THEN "CLOSE_WAIT" ELSE s.state,
                              !.send = IF closing THEN s.send + 1 ELSE s.send]
    BY <1>3 DEF Finished
  <2>2. /\ Finished(s, m).recv = s.recv + 1 /\ Finished(s, m).ring = s.ring
        /\ Finished(s, m).open = s.open /\ Finished(s, m).port = s.port
        /\ Finished(s, m).state = IF closing THEN "CLOSE_WAIT" ELSE s.state
    BY <2>1 DEF Socket
  <2>3. s.recv + 1 \in 0 .. MaxData + 2
    BY <1>1, <2>2
  <2>4. Finished(s, m) \in Socket
    <3> DEFINE q == IF closing THEN "CLOSE_WAIT" ELSE s.state
               n == IF closing THEN s.send + 1 ELSE s.send
    <3>1. q \in States
      BY <1>1 DEF States
    <3>2. n \in Nat
      BY <1>1
    <3>3. Finished(s, m) = [s EXCEPT !.recv = s.recv + 1, !.state = q, !.send = n]
      BY <2>1
    <3> HIDE DEF q, n
    <3> QED BY <2>3, <3>1, <3>2, <3>3 DEF Socket
  <2> QED BY <1>1, <2>2, <2>4
<1> QED BY <1>2, <1>3

\* Consecutive bytes after an increasing sequence that lies below them.
LEMMA ExtendIncreasing ==
    ASSUME NEW s \in Seq(Data), NEW t \in Seq(Data), NEW lo \in Nat, NEW hi \in Nat,
           Increasing(s), \A k \in 1 .. Len(s) : s[k] < lo /\ s[k] <= hi,
           \A k \in 1 .. Len(t) : t[k] = lo + k - 1, lo + Len(t) <= hi + 1
    PROVE  /\ s \o t \in Seq(Data)
           /\ Increasing(s \o t)
           /\ \A k \in 1 .. Len(s \o t) : (s \o t)[k] < lo + Len(t) /\ (s \o t)[k] <= hi
<1>1. /\ s \o t \in Seq(Data) /\ Len(s \o t) = Len(s) + Len(t)
      /\ \A k \in 1 .. Len(s) + Len(t) :
            (s \o t)[k] = IF k <= Len(s) THEN s[k] ELSE t[k - Len(s)]
  BY ConcatProperties
<1>2. Len(s) \in Nat /\ Len(t) \in Nat
  BY LenProperties
<1>3. \A k \in 1 .. Len(s) : s[k] \in Int
  <2>1. Data \subseteq Int
    BY Constants DEF Data
  <2> QED BY <2>1, ElementOfSeq
<1>4. \A k \in 1 .. Len(s) + Len(t) :
          (s \o t)[k] = IF k <= Len(s) THEN s[k] ELSE lo + (k - Len(s)) - 1
  <2> SUFFICES ASSUME NEW k \in 1 .. Len(s) + Len(t), ~(k <= Len(s))
               PROVE  t[k - Len(s)] = lo + (k - Len(s)) - 1
    BY <1>1
  <2>1. k - Len(s) \in 1 .. Len(t)
    BY <1>2
  <2> QED BY <2>1
<1>5. ASSUME NEW k \in 1 .. Len(s \o t)
      PROVE  (s \o t)[k] < lo + Len(t) /\ (s \o t)[k] <= hi
  <2>1. CASE k <= Len(s)
    BY <1>1, <1>2, <1>3, <1>4, <2>1
  <2>2. CASE ~(k <= Len(s))
    BY <1>1, <1>2, <1>4, <2>2
  <2> QED BY <2>1, <2>2
<1>6. ASSUME NEW k \in 1 .. Len(s \o t), NEW l \in 1 .. Len(s \o t), k < l
      PROVE  (s \o t)[k] < (s \o t)[l]
  <2>1. CASE l <= Len(s)
    <3>1. k \in 1 .. Len(s) /\ l \in 1 .. Len(s)
      BY <1>1, <1>2, <1>6, <2>1
    <3>2. s[k] < s[l]
      BY <1>6, <3>1 DEF Increasing
    <3> QED BY <1>1, <1>2, <1>4, <3>1, <3>2
  <2>2. CASE k <= Len(s) /\ ~(l <= Len(s))
    BY <1>1, <1>2, <1>3, <1>4, <2>2
  <2>3. CASE ~(k <= Len(s)) /\ ~(l <= Len(s))
    BY <1>1, <1>2, <1>4, <1>6, <2>3
  <2> QED BY <1>1, <1>2, <1>6, <2>1, <2>2, <2>3
<1> QED BY <1>1, <1>5, <1>6 DEF Increasing

LEMMA Associative ==
    ASSUME NEW g \in Seq(Data), NEW a \in Seq(Data), NEW b \in Seq(Data)
    PROVE  (g \o a) \o b = g \o (a \o b)
BY ConcatAssociative

\* Bytes that move from the front of the ring to the caller leave the stream.
LEMMA MovedBytes ==
    ASSUME NEW g \in Seq(Data), NEW r \in Seq(Data), NEW n \in 1 .. Len(r)
    PROVE  /\ g \o SubSeq(r, 1, n) \in Seq(Data)
           /\ SubSeq(r, n + 1, Len(r)) \in Seq(Data)
           /\ Len(SubSeq(r, n + 1, Len(r))) < Len(r)
           /\ (g \o SubSeq(r, 1, n)) \o SubSeq(r, n + 1, Len(r)) = g \o r
<1>1. Len(r) \in Nat /\ n \in Nat /\ 1 \in 1 .. Len(r) + 1 /\ n \in 1 - 1 .. Len(r)
      /\ Len(r) \in n .. Len(r) /\ 1 \in Int /\ n + 1 \in Int
  BY LenProperties
<1>2. \A k \in 1 .. Len(r) : r[k] \in Data
  BY ElementOfSeq
<1>3. SubSeq(r, 1, n) \in Seq(Data)
  <2>1. \A k \in 1 .. n : r[k] \in Data
    BY <1>1, <1>2
  <2> QED BY <1>1, <2>1, SubSeqProperties
<1>4. /\ SubSeq(r, n + 1, Len(r)) \in Seq(Data)
      /\ Len(SubSeq(r, n + 1, Len(r))) = IF n + 1 <= Len(r) THEN Len(r) - (n + 1) + 1 ELSE 0
  <2>1. \A k \in n + 1 .. Len(r) : r[k] \in Data
    BY <1>1, <1>2
  <2> QED BY <1>1, <2>1, SubSeqProperties
<1>5. SubSeq(r, 1, n) \o SubSeq(r, n + 1, Len(r)) = SubSeq(r, 1, Len(r))
  BY <1>1, ConcatAdjacentSubSeq
<1>6. SubSeq(r, 1, Len(r)) = r
  BY SubSeqFull
<1> DEFINE a == SubSeq(r, 1, n)
           b == SubSeq(r, n + 1, Len(r))
<1>7. a \in Seq(Data) /\ b \in Seq(Data) /\ a \o b = r
  BY <1>3, <1>4, <1>5, <1>6, Zenon
<1>10. Len(b) < Len(r)
  BY <1>1, <1>4
<1> HIDE DEF a, b
<1>8. (g \o a) \o b = g \o r
  <2>1. (g \o a) \o b = g \o (a \o b)
    BY <1>7, Associative, ZenonT(40)
  <2> QED BY <1>7, <2>1, Zenon
<1>9. g \o a \in Seq(Data)
  BY <1>7, ConcatProperties
<1> QED BY <1>7, <1>8, <1>9, <1>10 DEF a, b

-----------------------------------------------------------------------------
(* Each action. *)

LEMMA CallTyping ==
    ASSUME IInv, UNCHANGED <<sock, nextPort, acked, got>>,
           peer' \in [Ports -> [syn : BOOLEAN, sent : 0 .. MaxData, fin : BOOLEAN]],
           fds' \subseteq Sockets, cur' \in Sockets,
           pc' \in {"idle", "connecting", "receiving", "looked"},
           masked' \in BOOLEAN, elapsed' \in 0 .. Timeout
    PROVE  Typing'
BY DEF IInv, Typing

\* A step of the peer.
LEMMA PeerInv ==
    ASSUME IInv, NEW p \in Ports, PeerSend(p) \/ PeerFin(p)
    PROVE  IInv'
<1>1. Typing /\ Owned /\ NoLeakedSlot
  BY DEF IInv
<1>2. UNCHANGED <<sock, nextPort, acked, got, fds, calls>>
  BY DEF PeerSend, PeerFin
<1>3. UNCHANGED <<pc, cur, masked, elapsed>>
  BY <1>2 DEF calls
<1>4. /\ peer' \in [Ports -> [syn : BOOLEAN, sent : 0 .. MaxData, fin : BOOLEAN]]
      /\ \A q \in Ports : peer'[q].sent >= peer[q].sent
  <2>1. peer \in [Ports -> [syn : BOOLEAN, sent : 0 .. MaxData, fin : BOOLEAN]]
    BY <1>1 DEF Typing
  <2>2. \A q \in Ports : peer[q].sent \in 0 .. MaxData
    BY <2>1
  <2>3. CASE PeerSend(p)
    <3>1. peer[p].sent + 1 \in 0 .. MaxData
      BY <2>2, <2>3, Constants DEF PeerSend
    <3>2. peer' = [peer EXCEPT ![p].sent = peer[p].sent + 1]
      BY <2>3 DEF PeerSend
    <3> QED BY <2>1, <2>2, <3>1, <3>2, Constants
  <2>4. CASE PeerFin(p)
    <3> DEFINE r == [peer[p] EXCEPT !.fin = TRUE]
    <3>1. peer' = [peer EXCEPT ![p] = r]
      BY <2>4 DEF PeerFin
    <3>2. r \in [syn : BOOLEAN, sent : 0 .. MaxData, fin : BOOLEAN] /\ r.sent = peer[p].sent
      BY <2>1
    <3> HIDE DEF r
    <3> QED BY <2>1, <2>2, <3>1, <3>2, Constants
  <2> QED BY <2>3, <2>4
<1>5. Typing'
  <2>1. /\ fds' \subseteq Sockets /\ cur' \in Sockets /\ elapsed' \in 0 .. Timeout
        /\ pc' \in {"idle", "connecting", "receiving", "looked"}
    BY <1>1, <1>2, <1>3 DEF Typing
  <2>2. masked' \in BOOLEAN
    BY <1>1, <1>3, Zenon DEF Typing
  <2> QED BY <1>2, <1>4, <2>1, <2>2, CallTyping
<1>6. /\ \A i \in Sockets : sock[i].open => i \in fds' \/ (pc' = "connecting" /\ cur' = i)
      /\ pc' # "idle" => sock[cur'].port # NoPort
  BY <1>1, <1>2, <1>3 DEF NoLeakedSlot, Owned
<1> QED BY <1>2, <1>4, <1>5, <1>6, SocketsKept

\* A step of a call that changes no socket.
LEMMA CallInv ==
    ASSUME IInv,
           \/ Connected \/ RecvLook \/ RecvEnd \/ RecvPoll \/ RecvExpired \/ Tick
           \/ \E i \in Sockets : Recv(i)
    PROVE  IInv'
<1>1. Typing /\ Owned /\ NoLeakedSlot
  BY DEF IInv
<1>2. UNCHANGED <<sock, nextPort, peer, acked, got>>
  BY DEF Connected, RecvLook, RecvEnd, RecvPoll, RecvExpired, Tick, Recv
<1>3. masked' \in BOOLEAN
  <2>1. masked \in BOOLEAN
    BY <1>1, Zenon DEF Typing
  <2>2. masked' \in BOOLEAN \/ masked' = masked \/ masked' = FALSE
    BY Zenon DEF Connected, RecvLook, RecvEnd, RecvPoll, RecvExpired, Tick, Recv, Return, Wait
  <2> QED BY <2>1, <2>2, Zenon
<1>4. /\ fds \subseteq fds' /\ fds' \subseteq Sockets /\ cur' \in Sockets
      /\ pc' \in {"idle", "connecting", "receiving", "looked"}
      /\ elapsed' \in 0 .. Timeout
  <2> USE <1>1, Constants DEF Typing
  <2>1. CASE Connected
    BY <2>1 DEF Connected, Return
  <2>2. CASE RecvLook \/ RecvPoll
    BY <2>2 DEF RecvLook, RecvPoll
  <2>3. CASE RecvEnd \/ RecvExpired
    BY <2>3 DEF RecvEnd, RecvExpired, Return
  <2>4. CASE Tick
    BY <2>4 DEF Tick
  <2>5. CASE \E i \in Sockets : Recv(i)
    BY <2>5 DEF Recv, Wait
  <2> QED BY <2>1, <2>2, <2>3, <2>4, <2>5
<1>5. Typing'
  BY <1>1, <1>2, <1>3, <1>4, CallTyping DEF Typing
<1>6. pc' = "idle" \/ (pc' # "idle" /\ sock[cur'].port # NoPort)
  <2>1. CASE Connected \/ RecvEnd \/ RecvExpired
    BY <2>1 DEF Connected, RecvEnd, RecvExpired, Return
  <2>2. CASE RecvLook \/ RecvPoll \/ Tick
    BY <1>1, <2>2 DEF RecvLook, RecvPoll, Tick, Owned
  <2>3. CASE \E i \in Sockets : Recv(i)
    BY <1>1, <2>3 DEF Recv, Wait, Owned
  <2> QED BY <2>1, <2>2, <2>3
<1>7. \A i \in Sockets : sock[i].open => i \in fds' \/ (pc' = "connecting" /\ cur' = i)
  <2>1. CASE pc # "connecting"
    BY <1>1, <1>4, <2>1 DEF NoLeakedSlot
  <2>2. CASE pc = "connecting"
    <3>1. Connected \/ Tick
      BY <2>2 DEF RecvLook, RecvEnd, RecvPoll, RecvExpired, Recv, Wait
    <3> QED BY <1>1, <2>2, <3>1 DEF NoLeakedSlot, Connected, Tick
  <2> QED BY <2>1, <2>2
<1>8. \A p \in Ports : peer'[p].sent >= peer[p].sent
  <2> SUFFICES ASSUME NEW p \in Ports PROVE peer[p].sent >= peer[p].sent
    BY <1>2
  <2>1. peer[p].sent \in Int
    BY <1>1, Constants DEF Typing
  <2> QED BY <2>1
<1> QED BY <1>2, <1>5, <1>6, <1>7, <1>8, SocketsKept

LEMMA ResetInv ==
    ASSUME IInv, NEW p \in Ports, ReceiveReset(p)
    PROVE  IInv'
<1>1. Typing
  BY DEF IInv
<1>2. PICK i \in Sockets :
          sock' = [sock EXCEPT ![i].state = "CLOSED", ![i].open = FALSE]
  BY DEF ReceiveReset
<1> DEFINE s == [sock[i] EXCEPT !.state = "CLOSED", !.open = FALSE]
<1>3. sock[i] \in Socket /\ Len(sock[i].ring) < RingSize
  BY <1>1 DEF Typing
<1>4. s \in Socket /\ ~s.open /\ s.port = sock[i].port /\ s.ring = sock[i].ring
  BY <1>3 DEF Socket, States
<1>5. sock' = [sock EXCEPT ![i] = s]
  BY <1>1, <1>2 DEF Typing
<1>6. UNCHANGED <<nextPort, peer, acked, got, fds, calls>>
  BY DEF ReceiveReset
<1>7. acked' \in [Ports -> 0 .. MaxData + 2]
  BY <1>1, <1>6 DEF Typing
<1> HIDE DEF s
<1> QED BY <1>3, <1>4, <1>5, <1>6, <1>7, OneSocketKeepsPort

LEMMA SynAckInv ==
    ASSUME IInv, NEW p \in Ports, ReceiveSynAck(p)
    PROVE  IInv'
<1>1. Typing /\ AllDelivered
  BY DEF IInv
<1>2. PICK i \in Sockets :
          /\ Owner(i, p) /\ sock[i].state = "SYN_SENT"
          /\ sock' = [sock EXCEPT ![i].state = "ESTABLISHED", ![i].recv = 1]
  BY DEF ReceiveSynAck
<1> DEFINE s == [sock[i] EXCEPT !.state = "ESTABLISHED", !.recv = 1]
<1>3. sock[i] \in Socket /\ Len(sock[i].ring) < RingSize
  BY <1>1 DEF Typing
<1>4. s \in Socket /\ s.port = sock[i].port /\ s.ring = sock[i].ring
  <2>1. 1 \in 0 .. MaxData + 2 /\ "ESTABLISHED" \in States
    BY Constants DEF States
  <2>2. s \in Socket
    BY <1>3, <2>1 DEF Socket
  <2>3. s.port = sock[i].port /\ s.ring = sock[i].ring
    BY <1>3 DEF Socket
  <2> QED BY <2>2, <2>3
<1>13. s.open => sock[i].open
  BY <1>3 DEF Socket
<1>5. sock' = [sock EXCEPT ![i] = s]
  BY <1>1, <1>2 DEF Typing
<1>6. UNCHANGED <<nextPort, peer, got, fds, calls>>
  BY DEF ReceiveSynAck
<1>7. acked' \in [Ports -> 0 .. MaxData + 2]
  <2>1. acked \in [Ports -> 0 .. MaxData + 2] /\ 1 \in 0 .. MaxData + 2
    BY <1>1, Constants DEF Typing
  <2>2. acked' = [acked EXCEPT ![p] = IF acked[p] = 0 THEN 1 ELSE acked[p]]
    BY DEF ReceiveSynAck
  <2> QED BY <2>1, <2>2
<1>8. s.state = "ESTABLISHED"
  BY <1>3 DEF Socket
<1> HIDE DEF s
<1>9. Stream(i) = <<>>
  BY <1>1, <1>2 DEF AllDelivered, Delivered, Owner
<1>10. sock'[i] = s
  BY <1>1, <1>5 DEF Typing
<1>11. Stream(i)' = <<>>
  BY <1>4, <1>6, <1>9, <1>10 DEF Stream
<1>12. Delivered(i)'
  BY <1>11, EmptySeq DEF Delivered, Increasing
<1> QED BY <1>3, <1>4, <1>5, <1>6, <1>7, <1>12, <1>13, OneSocketKeepsPort

\* The stream of a socket that takes segment m.
LEMMA SegmentDelivered ==
    ASSUME Typing, NEW i \in Sockets, sock[i].port \in Ports, Delivered(i),
           sock[i].state # "SYN_SENT", NEW m \in Segment,
           m.seq + m.len <= peer[sock[i].port].sent + 1,
           Finished(Taken(sock[i], m), m).recv <= MaxData + 2,
           sock'[i] = Finished(Taken(sock[i], m), m), UNCHANGED <<peer, got>>
    PROVE  /\ sock'[i] \in Socket /\ Len(sock'[i].ring) < RingSize
           /\ sock'[i].open = sock[i].open /\ sock'[i].port = sock[i].port
           /\ Delivered(i)'
<1> DEFINE s == sock[i]
           u == Taken(sock[i], m)
           t == Finished(Taken(sock[i], m), m)
           sent == peer[sock[i].port].sent
<1>1. s \in Socket /\ Len(s.ring) < RingSize /\ sent \in 0 .. MaxData
  BY DEF Typing
<1>2. m.seq \in Nat /\ m.len \in Nat /\ m.seq + m.len <= MaxData + 1
  BY <1>1, Constants DEF Segment
<1>3. /\ u \in Socket /\ Len(u.ring) < RingSize
      /\ u.open = s.open /\ u.port = s.port /\ u.state = s.state
      /\ Expected(s, m) =>
            /\ u.recv = m.seq + m.len
            /\ \E n \in 0 .. m.len : u.ring = s.ring \o SubSeq(Payload(s, m), 1, n)
      /\ ~Expected(s, m) => u = s
  BY <1>1, <1>2, TakenFacts
<1>4. /\ t \in Socket /\ t.ring = u.ring /\ t.open = u.open /\ t.port = u.port
      /\ t.recv >= u.recv
      /\ t.state = "SYN_SENT" => u.state = "SYN_SENT"
  BY <1>3, FinishedFacts
<1>5. t.open = s.open /\ t.port = s.port /\ t.state # "SYN_SENT"
  BY <1>3, <1>4, Zenon
<1>6. t.recv \in Nat /\ u.recv \in Nat /\ s.recv \in Nat
  BY <1>1, <1>3, <1>4, Constants DEF Socket
<1>7. sock'[i] = t
  OBVIOUS
<1>8. /\ Stream(i) \in Seq(Data) /\ got[s.port] \in Seq(Data) /\ s.ring \in Seq(Data)
      /\ Increasing(Stream(i))
      /\ \A k \in 1 .. Len(Stream(i)) : Stream(i)[k] <= sent /\ Stream(i)[k] < s.recv
  BY StreamType DEF Delivered
<1>9. Stream(i) = got[s.port] \o s.ring
  BY DEF Stream
<1>13. peer'[sock'[i].port].sent = sent
  BY <1>5
<1> HIDE DEF s, u, t, sent
<1>10. Stream(i)' = got[s.port] \o u.ring
  BY <1>4, <1>5, <1>7 DEF Stream
<1> DEFINE Fine(q) ==
             /\ Increasing(q)
             /\ \A k \in 1 .. Len(q) : q[k] <= sent /\ q[k] < t.recv
<1>11. ASSUME ~Expected(s, m) PROVE Fine(Stream(i)')
  <2>1. Stream(i)' = Stream(i) /\ u.recv = s.recv
    BY <1>3, <1>9, <1>10, <1>11
  <2>2. \A k \in 1 .. Len(Stream(i)) : Stream(i)[k] \in Int
    <3>1. Data \subseteq Int
      BY Constants DEF Data
    <3> QED BY <1>8, <3>1, ElementOfSeq
  <2>3. \A k \in 1 .. Len(Stream(i)) : Stream(i)[k] <= sent /\ Stream(i)[k] < t.recv
    BY <1>4, <1>6, <1>8, <2>1, <2>2
  <2>4. Fine(Stream(i))
    BY <1>8, <2>3
  <2> HIDE DEF Fine
  <2> QED BY <2>1, <2>4
<1>12. ASSUME Expected(s, m) PROVE Fine(Stream(i)')
  <2>1. PICK n \in 0 .. m.len : u.ring = s.ring \o SubSeq(Payload(s, m), 1, n)
    BY <1>3, <1>12
  <2> DEFINE h == SubSeq(Payload(s, m), 1, n)
             q == Stream(i) \o h
  <2>2. h \in Seq(Data) /\ Len(h) = n /\ \A k \in 1 .. n : h[k] = m.seq + k - 1
    BY <1>2, PayloadHead
  <2>3. u.ring = s.ring \o h
    BY <2>1
  <2> HIDE DEF h
  <2>4. Stream(i)' = q
    <3>1. (got[s.port] \o s.ring) \o h = got[s.port] \o (s.ring \o h)
      BY <1>8, <2>2, Associative
    <3> QED BY <1>9, <1>10, <2>3, <3>1
  <2>5. m.seq = s.recv /\ u.recv = m.seq + m.len
    BY <1>3, <1>12 DEF Expected
  <2>6. m.seq + Len(h) <= sent + 1
    <3>1. m.seq + m.len <= sent + 1
      BY DEF sent
    <3> QED BY <1>1, <1>2, <2>2, <3>1
  <2>7. \A k \in 1 .. Len(Stream(i)) : Stream(i)[k] < m.seq /\ Stream(i)[k] <= sent
    BY <1>8, <2>5
  <2>8. /\ q \in Seq(Data) /\ Increasing(q)
        /\ \A k \in 1 .. Len(q) : q[k] < m.seq + Len(h) /\ q[k] <= sent
    <3>1. sent \in Nat /\ m.seq \in Nat
      BY <1>1, <1>2, Constants
    <3>2. \A k \in 1 .. Len(h) : h[k] = m.seq + k - 1
      BY <2>2
    <3>3. Stream(i) \in Seq(Data) /\ Increasing(Stream(i)) /\ h \in Seq(Data)
      BY <1>8, <2>2
    <3> QED BY <2>6, <2>7, <3>1, <3>2, <3>3, ExtendIncreasing
  <2> HIDE DEF q
  <2>9. \A k \in 1 .. Len(q) : q[k] \in Int
    <3>1. Data \subseteq Int
      BY Constants DEF Data
    <3> QED BY <2>8, <3>1, ElementOfSeq
  <2>10. \A k \in 1 .. Len(q) : q[k] < t.recv
    <3>1. m.seq + Len(h) <= t.recv /\ m.seq + Len(h) \in Int /\ t.recv \in Int
      BY <1>2, <1>4, <1>6, <2>2, <2>5
    <3> QED BY <2>8, <2>9, <3>1
  <2>11. Fine(q)
    BY <2>8, <2>10
  <2> HIDE DEF Fine
  <2> QED BY <2>4, <2>11
<1>14. Fine(Stream(i)')
  BY <1>11, <1>12
<1>15. Delivered(i)'
  BY <1>5, <1>7, <1>13, <1>14 DEF Delivered
<1>16. sock'[i] \in Socket /\ Len(sock'[i].ring) < RingSize
  BY <1>3, <1>4, <1>7
<1>17. sock'[i].open = sock[i].open /\ sock'[i].port = sock[i].port
  BY <1>5, <1>7 DEF s
<1> QED BY <1>15, <1>16, <1>17

LEMMA DataInv ==
    ASSUME IInv, NEW p \in Ports, ReceiveData(p)
    PROVE  IInv'
<1>1. Typing /\ AllDelivered
  BY DEF IInv
<1>2. PICK i \in Sockets, m \in InFlight(p) :
          LET t == Finished(Taken(sock[i], m), m)
          IN  /\ Owner(i, p) /\ sock[i].state # "SYN_SENT"
              /\ t.recv <= MaxData + 2
              /\ sock' = [sock EXCEPT ![i] = t]
              /\ acked' = [acked EXCEPT ![p] = IF @ < t.recv THEN t.recv ELSE @]
  BY DEF ReceiveData
<1> DEFINE t == Finished(Taken(sock[i], m), m)
<1>3. UNCHANGED <<nextPort, peer, got, fds, calls>>
  BY DEF ReceiveData
<1>4. /\ sock[i].open /\ sock[i].port = p /\ sock[i].port \in Ports
      /\ sock[i].state # "SYN_SENT" /\ Delivered(i)
  BY <1>1, <1>2 DEF Owner, AllDelivered
<1>5. m \in Segment /\ m.seq + m.len <= peer[sock[i].port].sent + 1
  BY <1>4 DEF InFlight, Segment
<1>6. sock'[i] = t /\ sock' = [sock EXCEPT ![i] = t] /\ t.recv <= MaxData + 2
  BY <1>1, <1>2 DEF Typing
<1>7. /\ sock'[i] \in Socket /\ Len(sock'[i].ring) < RingSize
      /\ sock'[i].open = sock[i].open /\ sock'[i].port = sock[i].port
      /\ Delivered(i)'
  BY <1>1, <1>3, <1>4, <1>5, <1>6, SegmentDelivered
<1>8. acked' \in [Ports -> 0 .. MaxData + 2]
  <2>1. acked \in [Ports -> 0 .. MaxData + 2]
    BY <1>1 DEF Typing
  <2>2. t.recv \in 0 .. MaxData + 2
    BY <1>6, <1>7 DEF Socket
  <2>3. acked' = [acked EXCEPT ![p] = IF acked[p] < t.recv THEN t.recv ELSE acked[p]]
    BY <1>2
  <2> HIDE DEF t
  <2> QED BY <2>1, <2>2, <2>3
<1> HIDE DEF t
<1>9. /\ t \in Socket /\ Len(t.ring) < RingSize /\ t.port = sock[i].port
      /\ t.open => sock[i].open
  BY <1>4, <1>6, <1>7
<1>10. IInv /\ UNCHANGED <<nextPort, peer, got>> /\ fds' = fds /\ UNCHANGED calls
  BY <1>3
<1> QED BY <1>6, <1>7, <1>8, <1>9, <1>10, OneSocketKeepsPort

LEMMA ConnectExpiredInv ==
    ASSUME IInv, ConnectExpired
    PROVE  IInv'
<1>1. Typing
  BY DEF IInv
<1> DEFINE s == [sock[cur] EXCEPT !.open = FALSE, !.state = "CLOSED"]
<1>2. cur \in Sockets /\ sock[cur] \in Socket /\ Len(sock[cur].ring) < RingSize
  BY <1>1 DEF Typing
<1>3. s \in Socket /\ ~s.open /\ s.port = sock[cur].port /\ s.ring = sock[cur].ring
  BY <1>2 DEF Socket, States
<1>4. sock' = [sock EXCEPT ![cur] = s]
  BY <1>1 DEF Typing, ConnectExpired
<1>5. UNCHANGED <<nextPort, peer, acked, got, fds>> /\ Return
  BY DEF ConnectExpired
<1>6. acked' \in [Ports -> 0 .. MaxData + 2]
  BY <1>1, <1>5 DEF Typing
<1> HIDE DEF s
<1> QED BY <1>2, <1>3, <1>4, <1>5, <1>6, OneSocketKeepsPort

LEMMA SendInv ==
    ASSUME IInv, NEW i \in Sockets, Send(i)
    PROVE  IInv'
<1>1. Typing /\ AllDelivered
  BY DEF IInv
<1> DEFINE s == [sock[i] EXCEPT !.send = sock[i].send + 1]
<1>2. sock[i] \in Socket /\ Len(sock[i].ring) < RingSize /\ sock[i].open
  BY <1>1 DEF Typing, Send
<1>3. /\ s \in Socket /\ s.port = sock[i].port /\ s.ring = sock[i].ring
      /\ s.state = sock[i].state /\ s.recv = sock[i].recv
  BY <1>2 DEF Socket
<1>4. sock' = [sock EXCEPT ![i] = s]
  BY DEF Send
<1>5. UNCHANGED <<nextPort, peer, acked, got, fds, calls>>
  BY DEF Send
<1>6. acked' \in [Ports -> 0 .. MaxData + 2]
  BY <1>1, <1>5 DEF Typing
<1> HIDE DEF s
<1>7. sock'[i] = s
  BY <1>1, <1>4 DEF Typing
<1>8. Delivered(i)'
  <2>1. Delivered(i)
    BY <1>1, <1>2 DEF AllDelivered
  <2>2. Stream(i)' = Stream(i)
    BY <1>3, <1>5, <1>7 DEF Stream
  <2> QED BY <1>3, <1>5, <1>7, <2>1, <2>2 DEF Delivered
<1> QED BY <1>2, <1>3, <1>4, <1>5, <1>6, <1>8, OneSocketKeepsPort

LEMMA RecvBytesInv ==
    ASSUME IInv, NEW n \in 1 .. RingSize, RecvBytes(n)
    PROVE  IInv'
<1>1. Typing /\ Owned /\ Unused /\ NoLeakedSlot /\ AllDelivered
  BY DEF IInv
<1>17. PICK i \in Sockets : i = cur
  BY <1>1 DEF Typing
<1> DEFINE p == sock[i].port
           r == sock[i].ring
           a == SubSeq(r, 1, n)
           b == SubSeq(r, n + 1, Len(r))
           s == [sock[i] EXCEPT !.ring = b]
<1>2. /\ sock[i] \in Socket /\ Len(r) < RingSize
      /\ r \in Seq(Data) /\ n \in 1 .. Len(r)
  BY <1>1, <1>17 DEF Typing, Socket, RecvBytes
<1>3. p \in Ports /\ p < nextPort
  BY <1>1, <1>17, PortOf DEF Owned, RecvBytes
<1>4. got[p] \in Seq(Data) /\ got \in [Ports -> Seq(Data)]
  BY <1>1, <1>3 DEF Typing
<1>5. /\ got[p] \o a \in Seq(Data) /\ b \in Seq(Data) /\ Len(b) < Len(r)
      /\ (got[p] \o a) \o b = got[p] \o r
  BY <1>2, <1>4, MovedBytes
<1>6. /\ got' = [got EXCEPT ![p] = got[p] \o a]
      /\ sock' = [sock EXCEPT ![i] = s]
      /\ UNCHANGED <<nextPort, peer, acked, dropped, fds>> /\ Return
  BY <1>17 DEF RecvBytes
<1> HIDE DEF r, a, b
<1>7. Len(b) < RingSize
  <2>1. Len(b) \in Nat /\ Len(r) \in Nat
    BY <1>2, <1>5, LenProperties
  <2> QED BY <1>2, <1>5, <2>1, Constants
<1>8. /\ s \in Socket /\ s.ring = b /\ s.port = p /\ s.state = sock[i].state
      /\ s.recv = sock[i].recv /\ s.open = sock[i].open
  BY <1>2, <1>5 DEF Socket
<1> HIDE DEF s
<1>9. /\ sock' \in [Sockets -> Socket] /\ sock'[i] = s
      /\ \A j \in Sockets \ {i} : sock'[j] = sock[j]
  BY <1>1, <1>2, <1>6, <1>8 DEF Typing
<1>10. /\ got' \in [Ports -> Seq(Data)] /\ got'[p] = got[p] \o a
       /\ \A q \in Ports \ {p} : got'[q] = got[q]
  BY <1>3, <1>4, <1>5, <1>6
<1>11. Typing'
  <2>1. \A j \in Sockets : Len(sock'[j].ring) < RingSize
    BY <1>1, <1>7, <1>8, <1>9 DEF Typing
  <2>2. pc' = "idle" /\ cur' \in Sockets /\ elapsed' \in 0 .. Timeout
    BY <1>6, Constants DEF Return
  <2>3. masked' \in BOOLEAN
    BY <1>6, Zenon DEF Return
  <2> QED BY <1>1, <1>6, <1>9, <1>10, <2>1, <2>2, <2>3 DEF Typing
<1>12. Owned'
  <2>1. pc' = "idle" /\ nextPort' = nextPort
    BY <1>6 DEF Return
  <2>2. \A j \in Sockets : sock'[j].port = sock[j].port /\ sock'[j].open = sock[j].open
    BY <1>8, <1>9
  <2> QED BY <1>1, <2>1, <2>2, OwnedKept
<1>13. Unused'
  <2>1. \A q \in Ports : q >= nextPort => q # p
    BY <1>1, <1>3 DEF Typing, Ports
  <2> QED BY <1>1, <1>6, <1>10, <2>1 DEF Unused
<1>14. NoLeakedSlot'
  BY <1>1, <1>6, <1>8, <1>9 DEF NoLeakedSlot, RecvBytes
<1>15. \A j \in Sockets \ {i} : sock[j].port \in Ports =>
           /\ got'[sock[j].port] = got[sock[j].port]
           /\ peer'[sock[j].port].sent >= peer[sock[j].port].sent
  <2> SUFFICES ASSUME NEW j \in Sockets \ {i}, sock[j].port \in Ports
               PROVE  /\ got'[sock[j].port] = got[sock[j].port]
                      /\ peer'[sock[j].port].sent >= peer[sock[j].port].sent
    OBVIOUS
  <2>1. sock[j].port # p
    BY <1>1, <1>2, <1>3, Constants DEF Owned
  <2>2. peer[sock[j].port].sent \in Int
    BY <1>1, Constants DEF Typing
  <2> QED BY <1>6, <1>10, <2>1, <2>2
<1>16. ASSUME sock'[i].open PROVE Delivered(i)'
  <2>1. Delivered(i)
    BY <1>1, <1>2, <1>8, <1>9, <1>16 DEF AllDelivered
  <2>2. Stream(i) = got[p] \o r
    BY DEF Stream, r
  <2>3. Stream(i)' = Stream(i)
    BY <1>5, <1>8, <1>9, <1>10, <2>2 DEF Stream
  <2>4. /\ sock'[i].port = sock[i].port /\ sock'[i].state = sock[i].state
        /\ sock'[i].recv = sock[i].recv /\ peer' = peer
    BY <1>6, <1>8, <1>9
  <2> QED BY <2>1, <2>3, <2>4 DEF Delivered
<1> QED BY <1>9, <1>11, <1>12, <1>13, <1>14, <1>15, <1>16, OneSocket

LEMMA ConnectInv ==
    ASSUME IInv, NEW i \in Sockets, Connect(i)
    PROVE  IInv'
<1>1. Typing /\ Owned /\ Unused /\ NoLeakedSlot
  BY DEF IInv
<1>2. PICK s \in {Opened(i), [Opened(i) EXCEPT !.open = FALSE, !.state = "CLOSED", !.send = 0]} :
          /\ sock' = [sock EXCEPT ![i] = s]
          /\ s.open => pc' = "connecting" /\ cur' = i
  <2>1. CASE Wait("connecting", i) /\ sock' = [sock EXCEPT ![i] = Opened(i)]
    BY <2>1 DEF Wait
  <2>2. CASE sock' = [sock EXCEPT ![i] =
                [Opened(i) EXCEPT !.open = FALSE, !.state = "CLOSED", !.send = 0]]
    BY <2>2 DEF Opened
  <2> QED BY <2>1, <2>2 DEF Connect
<1>3. nextPort \in Ports /\ nextPort' = nextPort + 1 /\ nextPort # NoPort
  BY Constants DEF Connect
<1>4. /\ s \in Socket /\ s.port = nextPort /\ s.ring = <<>>
  <2>1. Opened(i) \in Socket
    BY <1>3, Constants, EmptySeq DEF Opened, Socket, States
  <2>2. [Opened(i) EXCEPT !.open = FALSE, !.state = "CLOSED", !.send = 0] \in Socket
    BY <2>1 DEF Socket, States
  <2>3. s.port = nextPort /\ s.ring = <<>>
    <3>1. CASE s = Opened(i)
      BY <3>1 DEF Opened
    <3>2. CASE s = [Opened(i) EXCEPT !.open = FALSE, !.state = "CLOSED", !.send = 0]
      BY <3>2 DEF Opened
    <3> QED BY <3>1, <3>2
  <2> QED BY <1>2, <2>1, <2>2, <2>3
<1>5. /\ sock' \in [Sockets -> Socket] /\ sock'[i] = s
      /\ \A j \in Sockets \ {i} : sock'[j] = sock[j]
  BY <1>1, <1>2, <1>4 DEF Typing
<1>6. /\ peer' \in [Ports -> [syn : BOOLEAN, sent : 0 .. MaxData, fin : BOOLEAN]]
      /\ \A q \in Ports : peer'[q].sent = peer[q].sent
  <2>1. peer \in [Ports -> [syn : BOOLEAN, sent : 0 .. MaxData, fin : BOOLEAN]]
    BY <1>1 DEF Typing
  <2> DEFINE r == [peer[nextPort] EXCEPT !.syn = TRUE]
  <2>2. r \in [syn : BOOLEAN, sent : 0 .. MaxData, fin : BOOLEAN] /\ r.sent = peer[nextPort].sent
    BY <1>3, <2>1
  <2>3. peer' = peer \/ peer' = [peer EXCEPT ![nextPort] = r]
    BY DEF Connect
  <2> HIDE DEF r
  <2> QED BY <1>3, <2>1, <2>2, <2>3
<1>7. UNCHANGED <<acked, got, fds>> /\ pc = "idle"
  BY DEF Connect, Wait
<1>8. /\ pc' = "connecting" /\ cur' = i /\ elapsed' = 0 /\ masked' \in BOOLEAN
      \/ UNCHANGED <<pc, cur, masked, elapsed>>
  BY Zenon DEF Connect, Wait, calls
<1>9. Typing'
  <2>1. \A j \in Sockets : Len(sock'[j].ring) < RingSize
    <3>1. Len(s.ring) < RingSize
      BY <1>4, Constants, EmptySeq
    <3> QED BY <1>1, <1>5, <3>1 DEF Typing
  <2>2. nextPort' \in 1 .. MaxConnects + 1
    BY <1>3, Constants DEF Ports
  <2>3. /\ pc' \in {"idle", "connecting", "receiving", "looked"} /\ cur' \in Sockets
        /\ elapsed' \in 0 .. Timeout
    BY <1>1, <1>8, Constants DEF Typing
  <2>4. masked' \in BOOLEAN
    BY <1>1, <1>8, Zenon DEF Typing
  <2> QED BY <1>1, <1>5, <1>6, <1>7, <2>1, <2>2, <2>3, <2>4 DEF Typing
<1>10. Owned'
  <2>1. \A j \in Sockets : sock[j].port \in Nat /\ sock[j].port < nextPort
    BY <1>1, PortOf, Constants DEF Owned, Ports, NoPort
  <2>2. \A j \in Sockets : sock'[j].port < nextPort'
    BY <1>3, <1>4, <1>5, <2>1 DEF Ports
  <2>3. \A j, k \in Sockets :
           j # k /\ sock'[j].port = sock'[k].port => sock'[j].port = NoPort
    BY <1>1, <1>3, <1>4, <1>5, <2>1 DEF Owned, Ports
  <2>4. \A j \in Sockets : sock'[j].open => sock'[j].port # NoPort
    BY <1>1, <1>3, <1>4, <1>5 DEF Owned
  <2>5. pc' # "idle" => sock'[cur'].port # NoPort
    BY <1>3, <1>4, <1>5, <1>7, <1>8
  <2> QED BY <2>2, <2>3, <2>4, <2>5 DEF Owned
<1>11. Unused'
  BY <1>1, <1>3, <1>7 DEF Unused, Ports
<1>12. NoLeakedSlot'
  BY <1>1, <1>2, <1>5, <1>7 DEF NoLeakedSlot
<1>13. \A j \in Sockets \ {i} : sock[j].port \in Ports =>
           /\ got'[sock[j].port] = got[sock[j].port]
           /\ peer'[sock[j].port].sent >= peer[sock[j].port].sent
  <2>1. \A q \in Ports : peer[q].sent \in Int
    BY <1>1, Constants DEF Typing
  <2> QED BY <1>6, <1>7, <2>1
<1>14. Delivered(i)'
  <2>1. got[nextPort] = <<>>
    BY <1>1, <1>3 DEF Unused, Ports
  <2>2. Stream(i)' = <<>>
    <3>1. Stream(i)' = got'[nextPort] \o <<>>
      BY <1>4, <1>5 DEF Stream
    <3>2. <<>> \o <<>> = <<>>
      OBVIOUS
    <3> QED BY <1>7, <2>1, <3>1, <3>2
  <2> QED BY <2>2, EmptySeq DEF Delivered, Increasing
<1> QED BY <1>5, <1>9, <1>10, <1>11, <1>12, <1>13, <1>14, OneSocket

LEMMA CloseInv ==
    ASSUME IInv, NEW i \in Sockets, Close(i)
    PROVE  IInv'
<1>1. Typing /\ Owned /\ Unused /\ NoLeakedSlot
  BY DEF IInv
<1>2. PICK s \in {Cleared, sock[i]} :
          sock' = [sock EXCEPT ![i] = s] /\ ~s.open
  <2>1. CASE sock[i].open
    BY <2>1 DEF Close, Cleared
  <2>2. CASE ~sock[i].open
    BY <1>1, <2>2 DEF Close, Typing
  <2> QED BY <2>1, <2>2
<1>3. /\ s \in Socket /\ Len(s.ring) < RingSize
      /\ s.port = NoPort \/ s.port = sock[i].port
  <2>1. Cleared \in Socket /\ Cleared.port = NoPort /\ Cleared.ring = <<>>
    BY Constants, EmptySeq DEF Cleared, Socket, States
  <2> QED BY <1>1, <1>2, <2>1, EmptySeq, Constants DEF Typing
<1>4. /\ sock' \in [Sockets -> Socket] /\ sock'[i] = s
      /\ \A j \in Sockets \ {i} : sock'[j] = sock[j]
  BY <1>1, <1>2, <1>3 DEF Typing
<1>5. /\ UNCHANGED <<nextPort, peer, acked, got, pc, cur, masked, elapsed>>
      /\ pc = "idle" /\ fds' = fds \ {i}
  BY DEF Close, calls
<1>6. Typing'
  <2>1. \A j \in Sockets : Len(sock'[j].ring) < RingSize
    BY <1>1, <1>3, <1>4 DEF Typing
  <2>2. masked' \in BOOLEAN
    BY <1>1, <1>5, Zenon DEF Typing
  <2> QED BY <1>1, <1>4, <1>5, <2>1, <2>2 DEF Typing
<1>7. Owned'
  <2>1. \A j \in Sockets : sock'[j].port = NoPort \/ sock'[j].port = sock[j].port
    BY <1>3, <1>4
  <2>2. NoPort < nextPort
    BY <1>1, Constants DEF Typing, NoPort
  <2>3. \A j \in Sockets : sock'[j].open => sock[j].open /\ sock'[j].port = sock[j].port
    BY <1>2, <1>4
  <2> QED BY <1>1, <1>5, <2>1, <2>2, <2>3 DEF Owned
<1>8. Unused'
  BY <1>1, <1>5 DEF Unused
<1>9. NoLeakedSlot'
  BY <1>1, <1>2, <1>4, <1>5 DEF NoLeakedSlot
<1>10. \A j \in Sockets \ {i} : sock[j].port \in Ports =>
           /\ got'[sock[j].port] = got[sock[j].port]
           /\ peer'[sock[j].port].sent >= peer[sock[j].port].sent
  <2>1. \A q \in Ports : peer[q].sent \in Int
    BY <1>1, Constants DEF Typing
  <2> QED BY <1>5, <2>1
<1> QED BY <1>2, <1>4, <1>6, <1>7, <1>8, <1>9, <1>10, OneSocket

-----------------------------------------------------------------------------
(* The specification. *)

LEMMA NextInv == IInv /\ [Next]_vars => IInv'
<1> SUFFICES ASSUME IInv, [Next]_vars PROVE IInv'
  OBVIOUS
<1>1. CASE \E p \in Ports : PeerSend(p) \/ PeerFin(p)
  BY <1>1, PeerInv
<1>2. CASE \E p \in Ports : ReceiveReset(p)
  BY <1>2, ResetInv
<1>3. CASE \E p \in Ports : ReceiveSynAck(p)
  BY <1>3, SynAckInv
<1>4. CASE \E p \in Ports : ReceiveData(p)
  BY <1>4, DataInv
<1>5. CASE \E i \in Sockets : Connect(i)
  BY <1>5, ConnectInv
<1>6. CASE \E i \in Sockets : Send(i)
  BY <1>6, SendInv
<1>7. CASE \E i \in Sockets : Close(i)
  BY <1>7, CloseInv
<1>8. CASE \/ Connected \/ RecvLook \/ RecvEnd \/ RecvPoll \/ RecvExpired \/ Tick
           \/ \E i \in Sockets : Recv(i)
  BY <1>8, CallInv
<1>9. CASE \E n \in 1 .. RingSize : RecvBytes(n)
  BY <1>9, RecvBytesInv
<1>10. CASE ConnectExpired
  BY <1>10, ConnectExpiredInv
<1>11. CASE UNCHANGED vars
  BY <1>11 DEF vars, calls, IInv, Typing, Owned, Unused, NoLeakedSlot, AllDelivered,
              Delivered, Stream
<1> QED BY <1>1, <1>2, <1>3, <1>4, <1>5, <1>6, <1>7, <1>8, <1>9, <1>10, <1>11
        DEF Next, Loop

LEMMA Invariance == Spec => []IInv
<1> QED BY InitInv, NextInv, PTL DEF Spec

\* What the application reads of a connection is in the order of the bytes the
\* peer has sent.
LEMMA InOrder == IInv => StreamInOrder
<1> SUFFICES ASSUME IInv, NEW i \in Sockets, sock[i].open
             PROVE  LET s == Stream(i)
                    IN  /\ \A k \in 1 .. Len(s) : s[k] <= peer[sock[i].port].sent
                        /\ \A k \in 1 .. Len(s) - 1 : s[k] < s[k + 1]
  BY DEF StreamInOrder
<1>1. Delivered(i) /\ sock[i].port \in Ports /\ Typing
  BY PortOf DEF IInv, AllDelivered, Owned
<1>2. Stream(i) \in Seq(Data)
  BY <1>1, StreamType
<1>3. Len(Stream(i)) \in Nat
  BY <1>2, LenProperties
<1>4. \A k \in 1 .. Len(Stream(i)) - 1 : Stream(i)[k] < Stream(i)[k + 1]
  <2> SUFFICES ASSUME NEW k \in 1 .. Len(Stream(i)) - 1
               PROVE  Stream(i)[k] < Stream(i)[k + 1]
    OBVIOUS
  <2>1. k \in 1 .. Len(Stream(i)) /\ k + 1 \in 1 .. Len(Stream(i)) /\ k < k + 1
    BY <1>3
  <2> QED BY <1>1, <2>1 DEF Delivered, Increasing
<1> QED BY <1>1, <1>4 DEF Delivered

\* Every variable of the sockets and of the call under way keeps its type; in
\* particular a ring never holds its whole size, so that a full ring is not
\* taken for an empty one (tcp_rx_push).
THEOREM TypeCorrect == Spec => []TypeOK
<1>1. IInv => TypeOK
  BY TypingImplies DEF IInv
<1> QED BY <1>1, Invariance, PTL

\* Every open slot is owned by a caller that can close it or by the connect
\* under way, whatever resets, timeouts and failures tcp_connect meets.
THEOREM NoSlotLeaks == Spec => []NoLeakedSlot
<1>1. IInv => NoLeakedSlot
  BY DEF IInv
<1> QED BY <1>1, Invariance, PTL

\* Whatever the network loses, repeats and reorders, tcp_recv returns only bytes
\* the peer has sent on this connection, in order and each once.
THEOREM StreamOrdered == Spec => []StreamInOrder
<1> QED BY InOrder, Invariance, PTL

-----------------------------------------------------------------------------
(* Every byte below seq_recv is accounted for.  Nothing has been dropped    *)
(* before the connection is made, and none on a port not yet given out.    *)

Untouched == \A p \in Ports : p >= nextPort => dropped[p] = {}

Exact(i) ==
    sock[i].open =>
        /\ sock[i].state = "SYN_SENT" => dropped[sock[i].port] = {}
        /\ sock[i].state = "ESTABLISHED" =>
              /\ Bytes(Stream(i)) \cup dropped[sock[i].port] = 1 .. sock[i].recv - 1
              /\ Bytes(Stream(i)) \cap dropped[sock[i].port] = {}

Tally ==
    /\ IInv
    /\ dropped \in [Ports -> SUBSET Nat]
    /\ Untouched
    /\ \A i \in Sockets : Exact(i)

\* The bytes of two sequences one after the other.
LEMMA BytesConcat ==
    ASSUME NEW s \in Seq(Data), NEW t \in Seq(Data)
    PROVE  Bytes(s \o t) = Bytes(s) \cup Bytes(t)
<1>1. /\ Len(s \o t) = Len(s) + Len(t)
      /\ \A k \in 1 .. Len(s) + Len(t) :
            (s \o t)[k] = IF k <= Len(s) THEN s[k] ELSE t[k - Len(s)]
  BY ConcatProperties
<1>2. Len(s) \in Nat /\ Len(t) \in Nat
  BY LenProperties
<1>3. ASSUME NEW k \in 1 .. Len(s \o t) PROVE (s \o t)[k] \in Bytes(s) \cup Bytes(t)
  <2>1. CASE k <= Len(s)
    BY <1>1, <1>2, <2>1 DEF Bytes
  <2>2. CASE ~(k <= Len(s))
    <3>1. k - Len(s) \in 1 .. Len(t) /\ (s \o t)[k] = t[k - Len(s)]
      BY <1>1, <1>2, <2>2
    <3> QED BY <3>1 DEF Bytes
  <2> QED BY <2>1, <2>2
<1>4. ASSUME NEW k \in 1 .. Len(s) PROVE s[k] \in Bytes(s \o t)
  <2>1. k \in 1 .. Len(s \o t) /\ (s \o t)[k] = s[k]
    BY <1>1, <1>2
  <2> QED BY <2>1 DEF Bytes
<1>5. ASSUME NEW k \in 1 .. Len(t) PROVE t[k] \in Bytes(s \o t)
  <2>1. k + Len(s) \in 1 .. Len(s \o t) /\ (s \o t)[k + Len(s)] = t[k]
    BY <1>1, <1>2
  <2> QED BY <2>1 DEF Bytes
<1> QED BY <1>3, <1>4, <1>5 DEF Bytes

\* A payload that is expected is kept up to the room there is.
LEMMA KeptBytes ==
    ASSUME NEW s \in Socket, Len(s.ring) < RingSize, NEW m \in Segment,
           m.seq + m.len <= MaxData + 1, Expected(s, m), NEW g \in Seq(Data)
    PROVE  \E n \in 0 .. m.len :
              /\ n = IF m.len <= Room(s) THEN m.len ELSE Room(s)
              /\ Taken(s, m).recv = m.seq + m.len
              /\ Bytes(g \o Taken(s, m).ring) =
                    Bytes(g \o s.ring) \cup (m.seq .. m.seq + n - 1)
<1> DEFINE n == IF m.len <= Room(s) THEN m.len ELSE Room(s)
           h == SubSeq(Payload(s, m), 1, n)
<1>1. s.ring \in Seq(Data) /\ Len(s.ring) \in Nat
  BY LenProperties DEF Socket
<1>2. m.len \in Nat /\ m.seq \in Nat
  BY Constants DEF Segment
<1>3. n \in 0 .. m.len
  <2>1. Room(s) \in Nat
    BY <1>1, Constants DEF Room
  <2> QED BY <1>2, <2>1
<1>4. h \in Seq(Data) /\ Len(h) = n /\ \A k \in 1 .. n : h[k] = m.seq + k - 1
  BY <1>3, PayloadHead
<1>5. Taken(s, m) = [s EXCEPT !.ring = s.ring \o h, !.recv = m.seq + m.len]
  BY DEF Taken
<1>6. n = IF m.len <= Room(s) THEN m.len ELSE Room(s)
  OBVIOUS
<1> HIDE DEF h, n
<1>7. Taken(s, m).ring = s.ring \o h /\ Taken(s, m).recv = m.seq + m.len
  BY <1>5 DEF Socket
<1>8. g \o (s.ring \o h) = (g \o s.ring) \o h /\ g \o s.ring \in Seq(Data)
  BY <1>1, <1>4, Associative, ConcatProperties
<1>9. Bytes(h) = m.seq .. m.seq + n - 1
  <2>1. \A k \in 1 .. n : h[k] \in m.seq .. m.seq + n - 1
    BY <1>2, <1>3, <1>4
  <2>2. ASSUME NEW b \in m.seq .. m.seq + n - 1 PROVE b \in Bytes(h)
    <3>1. b - m.seq + 1 \in 1 .. n /\ h[b - m.seq + 1] = b
      BY <1>2, <1>3, <1>4
    <3> QED BY <1>4, <3>1 DEF Bytes
  <2> QED BY <1>4, <2>1, <2>2 DEF Bytes
<1>10. Bytes(g \o Taken(s, m).ring) = Bytes(g \o s.ring) \cup (m.seq .. m.seq + n - 1)
  <2> DEFINE w == g \o s.ring
  <2>1. w \in Seq(Data) /\ g \o Taken(s, m).ring = w \o h
    BY <1>7, <1>8
  <2> HIDE DEF w
  <2>2. Bytes(w \o h) = Bytes(w) \cup Bytes(h)
    BY <1>4, <2>1, BytesConcat
  <2> QED BY <1>9, <2>1, <2>2 DEF w
<1> QED BY <1>3, <1>6, <1>7, <1>10

\* A socket that is closed, or keeps its stream, seq_recv and what was dropped.
LEMMA ExactKept ==
    ASSUME NEW i \in Sockets, Exact(i),
           sock'[i].open =>
              /\ sock[i].open
              /\ sock'[i].port = sock[i].port /\ sock'[i].state = sock[i].state
              /\ sock'[i].recv = sock[i].recv /\ Stream(i)' = Stream(i)
              /\ dropped'[sock[i].port] = dropped[sock[i].port]
    PROVE  Exact(i)'
BY DEF Exact, Bytes

\* A step that changes one socket and what came from its port at most.
LEMMA TallyKept ==
    ASSUME Tally, IInv', NEW i \in Sockets, dropped' \in [Ports -> SUBSET Nat], Untouched',
           \A j \in Sockets \ {i} : sock'[j] = sock[j],
           \A j \in Sockets \ {i} : sock[j].open =>
               /\ got'[sock[j].port] = got[sock[j].port]
               /\ dropped'[sock[j].port] = dropped[sock[j].port],
           Exact(i)'
    PROVE  Tally'
<1>1. ASSUME NEW j \in Sockets \ {i} PROVE Exact(j)'
  <2>1. Exact(j) /\ sock'[j] = sock[j]
    BY DEF Tally
  <2>2. sock[j].open =>
            Stream(j)' = Stream(j) /\ dropped'[sock[j].port] = dropped[sock[j].port]
    BY <2>1 DEF Stream
  <2> QED BY <2>1, <2>2, ExactKept
<1> QED BY <1>1 DEF Tally

\* The same when nothing comes or is dropped.
LEMMA TallyOne ==
    ASSUME Tally, IInv', NEW i \in Sockets, UNCHANGED <<nextPort, got, dropped>>,
           \A j \in Sockets \ {i} : sock'[j] = sock[j], Exact(i)'
    PROVE  Tally'
<1>1. Untouched' /\ dropped' \in [Ports -> SUBSET Nat]
  BY DEF Tally, Untouched
<1> QED BY <1>1, TallyKept

LEMMA TallyStutter ==
    ASSUME Tally, IInv', UNCHANGED <<sock, nextPort, got, dropped>>
    PROVE  Tally'
<1>1. Untouched' /\ dropped' \in [Ports -> SUBSET Nat]
  BY DEF Tally, Untouched
<1>2. ASSUME NEW i \in Sockets PROVE Exact(i)'
  <2>1. Exact(i) /\ Stream(i)' = Stream(i)
    BY DEF Tally, Stream
  <2> QED BY <2>1, ExactKept
<1> QED BY <1>1, <1>2 DEF Tally

LEMMA TallyClosed ==
    ASSUME Tally, IInv', NEW i \in Sockets, UNCHANGED <<nextPort, got, dropped>>,
           \A j \in Sockets \ {i} : sock'[j] = sock[j], ~sock'[i].open
    PROVE  Tally'
<1>1. Exact(i)'
  BY DEF Exact
<1> QED BY <1>1, TallyOne

LEMMA SynAckTally ==
    ASSUME Tally, IInv', NEW p \in Ports, ReceiveSynAck(p)
    PROVE  Tally'
<1>1. Typing /\ AllDelivered
  BY DEF Tally, IInv
<1>2. PICK i \in Sockets :
          /\ Owner(i, p) /\ sock[i].state = "SYN_SENT"
          /\ sock' = [sock EXCEPT ![i].state = "ESTABLISHED", ![i].recv = 1]
  BY DEF ReceiveSynAck
<1>3. sock[i] \in Socket /\ sock[i].open
  BY <1>1, <1>2 DEF Typing, Owner
<1>4. /\ sock'[i].state = "ESTABLISHED" /\ sock'[i].recv = 1
      /\ sock'[i].port = sock[i].port /\ sock'[i].ring = sock[i].ring
      /\ \A j \in Sockets \ {i} : sock'[j] = sock[j]
  BY <1>1, <1>2, <1>3 DEF Typing, Socket
<1>5. UNCHANGED <<nextPort, got, dropped>>
  BY DEF ReceiveSynAck
<1>6. Stream(i)' = <<>>
  <2>1. Stream(i) = <<>>
    BY <1>1, <1>2, <1>3 DEF AllDelivered, Delivered
  <2> QED BY <1>4, <1>5, <2>1 DEF Stream
<1>7. dropped'[sock'[i].port] = {}
  BY <1>2, <1>3, <1>4, <1>5 DEF Tally, Exact
<1>8. Bytes(Stream(i))' = {}
  BY <1>6, EmptySeq DEF Bytes
<1>9. Exact(i)'
  <2>1. 1 .. sock'[i].recv - 1 = {}
    BY <1>4
  <2> QED BY <1>4, <1>7, <1>8, <2>1 DEF Exact
<1> QED BY <1>4, <1>5, <1>9, TallyOne

LEMMA SendTally ==
    ASSUME Tally, IInv', NEW i \in Sockets, Send(i)
    PROVE  Tally'
<1>1. Typing
  BY DEF Tally, IInv
<1>2. sock[i] \in Socket /\ sock' = [sock EXCEPT ![i].send = sock[i].send + 1]
  BY <1>1 DEF Typing, Send
<1>3. /\ sock'[i].open = sock[i].open /\ sock'[i].port = sock[i].port
      /\ sock'[i].state = sock[i].state /\ sock'[i].recv = sock[i].recv
      /\ sock'[i].ring = sock[i].ring
      /\ \A j \in Sockets \ {i} : sock'[j] = sock[j]
  BY <1>1, <1>2 DEF Typing, Socket
<1>4. UNCHANGED <<nextPort, got, dropped>>
  BY DEF Send
<1>5. Stream(i)' = Stream(i)
  BY <1>3, <1>4 DEF Stream
<1>6. Exact(i)
  BY DEF Tally
<1>7. Exact(i)'
  BY <1>3, <1>4, <1>5, <1>6, ExactKept
<1> QED BY <1>3, <1>4, <1>7, TallyOne

LEMMA ConnectTally ==
    ASSUME Tally, IInv', NEW i \in Sockets, Connect(i)
    PROVE  Tally'
<1>1. Typing /\ Owned /\ Unused
  BY DEF Tally, IInv
<1>2. PICK s \in {Opened(i), [Opened(i) EXCEPT !.open = FALSE, !.state = "CLOSED", !.send = 0]} :
          sock' = [sock EXCEPT ![i] = s]
  BY Zenon DEF Connect
<1>3. nextPort \in Ports /\ nextPort' = nextPort + 1 /\ UNCHANGED <<got, dropped>>
  BY DEF Connect
<1>4. /\ sock'[i] = s /\ s.port = nextPort
      /\ s.open => s.state = "SYN_SENT"
      /\ \A j \in Sockets \ {i} : sock'[j] = sock[j]
  <2>1. s.port = nextPort /\ (s.open => s.state = "SYN_SENT")
    <3>1. CASE s = Opened(i)
      BY <3>1 DEF Opened
    <3>2. CASE s = [Opened(i) EXCEPT !.open = FALSE, !.state = "CLOSED", !.send = 0]
      BY <3>2 DEF Opened
    <3> QED BY <1>2, <3>1, <3>2
  <2> QED BY <1>1, <1>2, <2>1 DEF Typing
<1>5. Exact(i)'
  <2>1. dropped'[nextPort] = {}
    BY <1>3 DEF Tally, Untouched, Ports
  <2> QED BY <1>4, <2>1 DEF Exact
<1>6. Untouched' /\ dropped' \in [Ports -> SUBSET Nat]
  BY <1>3 DEF Tally, Untouched, Ports
<1> QED BY <1>3, <1>4, <1>5, <1>6, TallyKept

LEMMA RecvBytesTally ==
    ASSUME Tally, IInv', NEW n \in 1 .. RingSize, RecvBytes(n)
    PROVE  Tally'
<1>1. Typing /\ Owned
  BY DEF Tally, IInv
<1>2. PICK i \in Sockets : i = cur
  BY <1>1 DEF Typing
<1> DEFINE p == sock[i].port
           r == sock[i].ring
           a == SubSeq(r, 1, n)
           b == SubSeq(r, n + 1, Len(r))
<1>3. sock[i] \in Socket /\ r \in Seq(Data) /\ n \in 1 .. Len(r)
  BY <1>1, <1>2 DEF Typing, Socket, RecvBytes
<1>4. p \in Ports
  BY <1>1, <1>2, PortOf DEF Owned, RecvBytes
<1>5. got[p] \in Seq(Data) /\ got \in [Ports -> Seq(Data)]
  BY <1>1, <1>4 DEF Typing
<1>6. (got[p] \o a) \o b = got[p] \o r
  BY <1>3, <1>5, MovedBytes
<1>7. /\ got' = [got EXCEPT ![p] = got[p] \o a]
      /\ sock' = [sock EXCEPT ![i].ring = b]
      /\ UNCHANGED <<nextPort, dropped>>
  BY <1>2 DEF RecvBytes
<1> HIDE DEF a, b
<1>8. /\ sock'[i].open = sock[i].open /\ sock'[i].port = p
      /\ sock'[i].state = sock[i].state /\ sock'[i].recv = sock[i].recv
      /\ sock'[i].ring = b
      /\ \A j \in Sockets \ {i} : sock'[j] = sock[j]
  BY <1>1, <1>3, <1>7 DEF Typing, Socket
<1>9. got'[p] = got[p] \o a /\ \A q \in Ports \ {p} : got'[q] = got[q]
  BY <1>4, <1>5, <1>7
<1>10. Stream(i)' = Stream(i)
  BY <1>6, <1>8, <1>9 DEF Stream
<1>11. Exact(i)'
  <2>1. Exact(i)
    BY DEF Tally
  <2> QED BY <1>7, <1>8, <1>10, <2>1, ExactKept
<1>12. ASSUME NEW j \in Sockets \ {i}, sock[j].open
       PROVE  got'[sock[j].port] = got[sock[j].port]
  <2>1. sock[j].port \in Ports /\ sock[j].port # p
    BY <1>1, <1>4, <1>12, PortOf, Constants DEF Owned
  <2> QED BY <1>9, <2>1
<1>13. Untouched' /\ dropped' \in [Ports -> SUBSET Nat]
  BY <1>7 DEF Tally, Untouched
<1> QED BY <1>7, <1>8, <1>11, <1>12, <1>13, TallyKept

\* A segment on an established connection: what is kept of an expected payload
\* joins the stream, and the rest what was dropped.
LEMMA SegmentExact ==
    ASSUME Tally, NEW i \in Sockets, NEW p \in Ports, sock[i].open, sock[i].port = p,
           sock[i].state # "SYN_SENT", NEW m \in Segment, m.seq + m.len <= MaxData + 1,
           sock'[i] = Finished(Taken(sock[i], m), m), sock'[i] # sock[i], got' = got,
           dropped'[p] = dropped[p] \cup
              IF Expected(sock[i], m) /\ m.len > Room(sock[i])
                THEN m.seq + Room(sock[i]) .. m.seq + m.len - 1 ELSE {}
    PROVE  Exact(i)'
<1> DEFINE s == sock[i]
           u == Taken(s, m)
           t == Finished(u, m)
<1>1. Typing
  BY DEF Tally, IInv
<1>2. s \in Socket /\ Len(s.ring) < RingSize /\ got[p] \in Seq(Data)
  BY <1>1 DEF Typing
<1>3. /\ u \in Socket /\ u.open = s.open /\ u.port = s.port /\ u.state = s.state
      /\ ~Expected(s, m) => u = s
  BY <1>2, TakenFacts
<1>4. CASE s.state # "ESTABLISHED" \/ m.fin
  <2>1. t.state \notin {"SYN_SENT", "ESTABLISHED"}
    <3>1. CASE m.fin
      BY <1>3, <3>1 DEF Finished, Socket
    <3>2. CASE ~m.fin
      BY <1>3, <1>4, <3>2 DEF Finished
    <3> QED BY <3>1, <3>2
  <2> QED BY <2>1 DEF Exact
<1>5. CASE s.state = "ESTABLISHED" /\ ~m.fin
  <2>1. t = u
    BY <1>5 DEF Finished
  <2>2. Expected(s, m)
    BY <1>3, <2>1
  <2>3. PICK n \in 0 .. m.len :
            /\ n = IF m.len <= Room(s) THEN m.len ELSE Room(s)
            /\ u.recv = m.seq + m.len
            /\ Bytes(got[p] \o u.ring) = Bytes(got[p] \o s.ring) \cup (m.seq .. m.seq + n - 1)
    BY <1>2, <2>2, KeptBytes
  <2>4. m.seq = s.recv /\ m.seq \in Nat /\ m.len \in Nat /\ m.seq >= 1
    BY <2>2, Constants DEF Expected, Segment
  <2>5. /\ Bytes(Stream(i)) \cup dropped[p] = 1 .. m.seq - 1
        /\ Bytes(Stream(i)) \cap dropped[p] = {}
    BY <1>5, <2>4 DEF Tally, Exact
  <2>6. Bytes(Stream(i))' = Bytes(Stream(i)) \cup (m.seq .. m.seq + n - 1)
    <3>1. Stream(i)' = got[p] \o u.ring
      BY <1>3, <2>1 DEF Stream
    <3>2. Bytes(Stream(i))' = Bytes(Stream(i)')
      BY DEF Bytes
    <3>3. Stream(i) = got[p] \o s.ring
      BY DEF Stream
    <3> QED BY <2>3, <3>1, <3>2, <3>3
  <2>7. dropped'[p] = dropped[p] \cup (m.seq + n .. m.seq + m.len - 1)
    <3>1. CASE m.len > Room(s)
      <4>1. n = Room(s)
        <5>1. Room(s) \in Int
          <6>1. Len(s.ring) \in Nat
            BY <1>2, LenProperties DEF Socket
          <6> QED BY <6>1, Constants DEF Room
        <5> QED BY <2>3, <2>4, <3>1, <5>1
      <4> QED BY <2>2, <3>1, <4>1
    <3>2. CASE ~(m.len > Room(s))
      <4>1. n = m.len
        <5>1. Room(s) \in Int
          <6>1. Len(s.ring) \in Nat
            BY <1>2, LenProperties DEF Socket
          <6> QED BY <6>1, Constants DEF Room
        <5> QED BY <2>3, <2>4, <3>2, <5>1
      <4>2. m.seq + n .. m.seq + m.len - 1 = {}
        BY <2>4, <4>1
      <4> QED BY <3>2, <4>2
    <3> QED BY <3>1, <3>2
  <2> HIDE DEF s, u, t
  <2> DEFINE B == Bytes(Stream(i))
             D == dropped[p]
  <2>8. /\ (B \cup (m.seq .. m.seq + n - 1)) \cup (D \cup (m.seq + n .. m.seq + m.len - 1))
              = 1 .. m.seq + m.len - 1
        /\ (B \cup (m.seq .. m.seq + n - 1)) \cap (D \cup (m.seq + n .. m.seq + m.len - 1))
              = {}
    <3>1. B \cup D = 1 .. m.seq - 1 /\ B \cap D = {}
      BY <2>5
    <3> HIDE DEF B, D
    <3>2. n \in Nat /\ n <= m.len
      BY <2>3, <2>4
    <3>3. \A x : x \in 1 .. m.seq + m.len - 1 <=>
              \/ x \in 1 .. m.seq - 1
              \/ x \in m.seq .. m.seq + n - 1
              \/ x \in m.seq + n .. m.seq + m.len - 1
      BY <2>4, <3>2
    <3>4. \A x : ~(x \in m.seq .. m.seq + n - 1 /\ x \in m.seq + n .. m.seq + m.len - 1)
      BY <2>4, <3>2
    <3>5. \A x \in 1 .. m.seq - 1 :
              x \notin m.seq .. m.seq + n - 1 /\ x \notin m.seq + n .. m.seq + m.len - 1
      BY <2>4, <3>2
    <3> QED BY <3>1, <3>3, <3>4, <3>5, Zenon
  <2>9. sock'[i].recv = m.seq + m.len /\ sock'[i].port = p
    BY <1>3, <2>1, <2>3 DEF s, u, t
  <2>10. sock'[i].state = "ESTABLISHED"
    BY <1>3, <1>5, <2>1 DEF s, u, t
  <2>11. /\ Bytes(Stream(i))' \cup dropped'[p] = 1 .. sock'[i].recv - 1
         /\ Bytes(Stream(i))' \cap dropped'[p] = {}
    <3>1. /\ Bytes(Stream(i))' = B \cup (m.seq .. m.seq + n - 1)
          /\ dropped'[p] = D \cup (m.seq + n .. m.seq + m.len - 1)
      BY <2>6, <2>7
    <3>2. 1 .. sock'[i].recv - 1 = 1 .. m.seq + m.len - 1
      BY <2>4, <2>9
    <3> HIDE DEF B, D
    <3> QED BY <2>8, <3>1, <3>2
  <2> QED BY <2>9, <2>10, <2>11 DEF Exact
<1> QED BY <1>4, <1>5

LEMMA DataTally ==
    ASSUME Tally, IInv', NEW p \in Ports, ReceiveData(p)
    PROVE  Tally'
<1>1. Typing /\ Owned
  BY DEF Tally, IInv
<1>2. PICK i \in Sockets, m \in InFlight(p) :
          LET s == sock[i]
              t == Finished(Taken(s, m), m)
          IN  /\ Owner(i, p) /\ s.state # "SYN_SENT" /\ t # s
              /\ sock' = [sock EXCEPT ![i] = t]
              /\ dropped' = [dropped EXCEPT ![p] = dropped[p] \cup
                    IF Expected(s, m) /\ m.len > Room(s)
                      THEN m.seq + Room(s) .. m.seq + m.len - 1 ELSE {}]
  BY DEF ReceiveData
<1> DEFINE t == Finished(Taken(sock[i], m), m)
           D == IF Expected(sock[i], m) /\ m.len > Room(sock[i])
                  THEN m.seq + Room(sock[i]) .. m.seq + m.len - 1 ELSE {}
<1>3. UNCHANGED <<nextPort, got>>
  BY DEF ReceiveData
<1>4. /\ sock[i].open /\ sock[i].port = p /\ sock[i].state # "SYN_SENT"
      /\ t # sock[i] /\ sock' = [sock EXCEPT ![i] = t]
      /\ dropped' = [dropped EXCEPT ![p] = dropped[p] \cup D]
  BY <1>2 DEF Owner
<1>5. m \in Segment /\ m.seq + m.len <= MaxData + 1
  <2>1. m \in Segment /\ m.seq + m.len <= peer[p].sent + 1
    BY DEF InFlight, Segment
  <2>2. peer[p].sent \in 0 .. MaxData
    BY <1>1 DEF Typing
  <2>3. m.seq \in Nat /\ m.len \in Nat
    BY <2>1, Constants DEF Segment
  <2> QED BY <2>1, <2>2, <2>3, Constants
<1>6. D \subseteq Nat
  <2>1. m.seq \in Nat /\ m.len \in Nat
    BY <1>5, Constants DEF Segment
  <2>2. Room(sock[i]) \in Nat
    <3>1. Len(sock[i].ring) \in Nat /\ Len(sock[i].ring) < RingSize
      BY <1>1, LenProperties DEF Typing, Socket
    <3> QED BY <3>1, Constants DEF Room
  <2> QED BY <2>1, <2>2
<1>7. dropped \in [Ports -> SUBSET Nat]
  BY DEF Tally
<1> HIDE DEF t, D
<1>8. /\ dropped' \in [Ports -> SUBSET Nat] /\ dropped'[p] = dropped[p] \cup D
      /\ \A q \in Ports \ {p} : dropped'[q] = dropped[q]
  BY <1>4, <1>6, <1>7
<1>9. sock'[i] = t /\ \A j \in Sockets \ {i} : sock'[j] = sock[j]
  BY <1>1, <1>4 DEF Typing
<1>10. Exact(i)'
  BY <1>3, <1>4, <1>5, <1>8, <1>9, SegmentExact DEF t, D
<1>11. Untouched'
  <2>1. p < nextPort /\ nextPort \in Nat
    BY <1>1, <1>4 DEF Owned, Typing
  <2>2. \A q \in Ports : q >= nextPort => q # p
    BY <2>1 DEF Ports
  <2> QED BY <1>3, <1>8, <2>2 DEF Tally, Untouched
<1>12. ASSUME NEW j \in Sockets \ {i}, sock[j].open
       PROVE  dropped'[sock[j].port] = dropped[sock[j].port]
  <2>1. sock[j].port \in Ports /\ sock[j].port # p
    BY <1>1, <1>4, <1>12, PortOf, Constants DEF Owned
  <2> QED BY <1>8, <2>1
<1> QED BY <1>3, <1>8, <1>9, <1>10, <1>11, <1>12, TallyKept

LEMMA TallyInv == Tally /\ [Next]_vars => Tally'
<1> SUFFICES ASSUME Tally, [Next]_vars PROVE Tally'
  OBVIOUS
<1>1. IInv' /\ Typing
  BY NextInv DEF Tally, IInv
<1>2. CASE \E p \in Ports : PeerSend(p) \/ PeerFin(p)
  BY <1>1, <1>2, TallyStutter DEF PeerSend, PeerFin
<1>3. CASE \E p \in Ports : ReceiveReset(p)
  <2>1. PICK i \in Sockets :
            sock' = [sock EXCEPT ![i].state = "CLOSED", ![i].open = FALSE]
    BY <1>3 DEF ReceiveReset
  <2>2. ~sock'[i].open /\ \A j \in Sockets \ {i} : sock'[j] = sock[j]
    BY <1>1, <2>1 DEF Typing, Socket
  <2>3. UNCHANGED <<nextPort, got, dropped>>
    BY <1>3 DEF ReceiveReset
  <2> QED BY <1>1, <2>2, <2>3, TallyClosed
<1>4. CASE \E p \in Ports : ReceiveSynAck(p)
  BY <1>1, <1>4, SynAckTally
<1>5. CASE \E p \in Ports : ReceiveData(p)
  BY <1>1, <1>5, DataTally
<1>6. CASE \E i \in Sockets : Connect(i)
  BY <1>1, <1>6, ConnectTally
<1>7. CASE \E i \in Sockets : Send(i)
  BY <1>1, <1>7, SendTally
<1>8. CASE \E i \in Sockets : Close(i)
  <2>1. PICK i \in Sockets :
            sock' = IF sock[i].open THEN [sock EXCEPT ![i] = Cleared] ELSE sock
    BY <1>8 DEF Close
  <2>2. ~sock'[i].open /\ \A j \in Sockets \ {i} : sock'[j] = sock[j]
    BY <1>1, <2>1 DEF Typing, Socket, Cleared
  <2>3. UNCHANGED <<nextPort, got, dropped>>
    BY <1>8 DEF Close
  <2> QED BY <1>1, <2>2, <2>3, TallyClosed
<1>9. CASE \/ Connected \/ RecvLook \/ RecvEnd \/ RecvPoll \/ RecvExpired \/ Tick
           \/ \E i \in Sockets : Recv(i)
  <2>1. UNCHANGED <<sock, nextPort, got, dropped>>
    BY <1>9 DEF Connected, RecvLook, RecvEnd, RecvPoll, RecvExpired, Tick, Recv
  <2> QED BY <1>1, <2>1, TallyStutter
<1>10. CASE \E n \in 1 .. RingSize : RecvBytes(n)
  BY <1>1, <1>10, RecvBytesTally
<1>11. CASE ConnectExpired
  <2>1. PICK i \in Sockets : i = cur
    BY <1>1 DEF Typing
  <2>2. ~sock'[i].open /\ \A j \in Sockets \ {i} : sock'[j] = sock[j]
    BY <1>1, <1>11, <2>1 DEF Typing, Socket, ConnectExpired
  <2>3. UNCHANGED <<nextPort, got, dropped>>
    BY <1>11 DEF ConnectExpired
  <2> QED BY <1>1, <2>2, <2>3, TallyClosed
<1>12. CASE UNCHANGED vars
  BY <1>1, <1>12, TallyStutter DEF vars
<1> QED BY <1>2, <1>3, <1>4, <1>5, <1>6, <1>7, <1>8, <1>9, <1>10, <1>11, <1>12
        DEF Next, Loop

\* On an established connection seq_recv has passed exactly the bytes that were
\* delivered, wait in the ring, or found the ring full: no other byte is
\* acknowledged, none is both delivered and dropped (tcp_receive, tcp_rx_push).
THEOREM AllAccounted == Spec => []Accounted
<1>1. Init => Tally
  <2> SUFFICES ASSUME Init PROVE Tally
    OBVIOUS
  <2>1. IInv
    BY InitInv
  <2>2. Untouched /\ dropped \in [Ports -> SUBSET Nat]
    BY DEF Init, Untouched
  <2>3. \A i \in Sockets : sock[i].open = FALSE
    BY DEF Init, Cleared
  <2> QED BY <2>1, <2>2, <2>3 DEF Tally, Exact
<1>2. Tally => Accounted
  BY DEF Tally, Exact, Accounted
<1> QED BY <1>1, <1>2, TallyInv, PTL DEF Spec

=============================================================================
