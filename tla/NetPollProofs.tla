---------------------------- MODULE NetPollProofs ----------------------------
(***************************************************************************)
(* Proofs about NetPoll, for any hosts, servers, names, cache sizes and    *)
(* bounds.  Each part of the invariant speaks of few variables; for each   *)
(* there is a lemma that says which actions touch them.                    *)
(***************************************************************************)
EXTENDS NetPoll, SequenceTheorems, FiniteSetTheorems, TLAPS

-----------------------------------------------------------------------------
(* What is received has been sent. *)

Queries == [name : Names, id : Nat]

\* The frames that may have come by now.
Sent ==
         [kind : {"arp", "echo"}, host : Hosts]
    \cup [kind : {"answer"}, query : asked]
    \cup [kind : {"pong"}, to : pinged]
    \cup [kind : {"offer"}, server : Servers]
    \cup [kind : {"ack", "nak"}, server : requested]

\* The packet in the buffer is a well-formed query if it is one.
Built == packet.kind = "query" => packet.query \in Queries

Received == ring \in Seq(Sent) /\ asked \subseteq Queries /\ Built /\ tick \in Nat

LEMMA NetworkSent == Network \subseteq Sent
BY DEF Network, Sent

LEMMA SentGrows ==
    ASSUME asked \subseteq asked', pinged \subseteq pinged', requested \subseteq requested'
    PROVE  Sent \subseteq Sent'
BY DEF Sent

LEMMA RingGrows ==
    ASSUME ring \in Seq(Sent), Sent \subseteq Sent'
    PROVE  ring \in Seq(Sent')
<1>1. ring \in [1 .. Len(ring) -> Sent] /\ Len(ring) \in Nat
  OBVIOUS
<1>2. ring \in [1 .. Len(ring) -> Sent']
  BY <1>1
<1> QED BY <1>1, <1>2

\* What a packet adds to what was sent.
LEMMA TransmitGrows ==
    ASSUME NEW p, Transmit(p), asked \subseteq Queries,
           p.kind = "query" => p.query \in Queries
    PROVE  /\ asked \subseteq asked' /\ asked' \subseteq Queries
           /\ pinged \subseteq pinged' /\ requested' = requested
BY DEF Transmit

LEMMA SendGrows ==
    ASSUME NEW s, NEW h, NEW p, Send(s, h, p), asked \subseteq Queries,
           p.kind = "query" => p.query \in Queries
    PROVE  /\ asked \subseteq asked' /\ asked' \subseteq Queries /\ Built'
           /\ pinged \subseteq pinged' /\ requested' = requested
BY TransmitGrows DEF Send, network, Built

LEMMA NetworkTouched ==
    ASSUME [Next]_vars
    PROVE  \/ Arrive \/ Tick \/ ResolveLook \/ HandleEcho \/ DhcpRequest
           \/ \E n \in Names : DnsStart(n)
           \/ \E h \in Hosts : PingStart(h)
           \/ UNCHANGED <<ring, packet, tick, network>>
<1>1. ASSUME Interrupt \/ ResolvePoll \/ ResolveExpired
             \/ PollEmpty \/ Read \/ ScanSlot \/ StoreSlot \/ ConcludeDhcp \/ Load \/ Advance
      PROVE  UNCHANGED <<ring, packet, tick, network>>
  BY <1>1 DEF Interrupt, ResolvePoll, ResolveExpired, PollEmpty, Read,
              ScanSlot, StoreSlot, ConcludeDhcp, Load, Advance, card
<1>2. ASSUME HandleArp \/ HandlePong \/ HandleAnswer \/ HandleDhcp
      PROVE  UNCHANGED <<ring, packet, tick, network>>
  BY <1>2 DEF HandleArp, HandlePong, HandleAnswer, HandleDhcp, Dispatch
<1>3. ASSUME IdlePoll \/ WaitPoll \/ WaitLook \/ WaitExpired \/ DhcpDiscover \/ DhcpBind
             \/ DnsSent \/ DnsEnd \/ PingSent \/ PingEnd
      PROVE  UNCHANGED <<ring, packet, tick, network>>
  BY <1>3 DEF IdlePoll, WaitPoll, WaitLook, WaitExpired, DhcpDiscover, DhcpFails, DhcpBind,
              DnsSent, DnsEnd, PingSent, PingEnd, card, network
<1>4. CASE UNCHANGED vars
  BY <1>4 DEF vars, card
<1> QED BY <1>1, <1>2, <1>3, <1>4 DEF Next, Handle, Task

LEMMA ReceivedStep ==
    ASSUME Received, [Next]_vars
    PROVE  /\ Received'
           /\ asked \subseteq asked' /\ pinged \subseteq pinged' /\ requested \subseteq requested'
<1> DEFINE More == /\ asked \subseteq asked' /\ asked' \subseteq Queries
                   /\ pinged \subseteq pinged' /\ requested \subseteq requested'
<1> USE DEF Received
<1>1. ASSUME More, Built', tick' \in Nat, ring' = ring
      PROVE  Received' /\ More
  BY <1>1, SentGrows, RingGrows
<1>2. CASE Arrive
  <2>1. PICK f \in Network : ring' = Append(ring, f)
    BY <1>2 DEF Arrive
  <2>2. UNCHANGED <<packet, tick, network>>
    BY <1>2 DEF Arrive
  <2>3. Sent' = Sent
    BY <2>2 DEF Sent, network
  <2>4. ring' \in Seq(Sent')
    BY <2>1, <2>3, NetworkSent
  <2> QED BY <2>2, <2>4 DEF Built, network
<1>3. CASE Tick
  BY <1>1, <1>3 DEF Tick, card, network, Built
<1>4. CASE ResolveLook
  <2>1. UNCHANGED <<ring, packet, tick>>
    BY <1>4 DEF ResolveLook, card
  <2>2. Transmit(packet) \/ UNCHANGED network
    BY <1>4 DEF ResolveLook
  <2>3. More
    BY <2>2, TransmitGrows DEF Built, network
  <2> QED BY <1>1, <2>1, <2>3 DEF Built
<1>5. CASE HandleEcho
  <2>1. UNCHANGED <<ring, tick>>
    BY <1>5 DEF HandleEcho, Dispatch
  <2>2. \/ Send(TopAt("handled"), Frame.host, [kind |-> "reply"])
        \/ UNCHANGED <<packet, network>>
    BY <1>5 DEF HandleEcho
  <2>3. More /\ Built'
    BY <2>2, SendGrows DEF Built, network
  <2> QED BY <1>1, <2>1, <2>3
<1>6. CASE DhcpRequest
  <2>1. UNCHANGED <<ring, packet, tick, asked, pinged>> /\ requested \subseteq requested'
    BY <1>6 DEF DhcpRequest, DhcpFails, card, network
  <2> QED BY <1>1, <2>1 DEF Built
<1>7. ASSUME NEW n \in Names, DnsStart(n)
      PROVE  Received' /\ More
  <2>1. /\ UNCHANGED <<ring, tick>>
        /\ Send(<<>>, DnsHost, [kind |-> "query", query |-> [name |-> n, id |-> tick]])
    BY <1>7 DEF DnsStart, card
  <2>2. [name |-> n, id |-> tick] \in Queries
    BY DEF Queries
  <2>3. More /\ Built'
    BY <2>1, <2>2, SendGrows
  <2> QED BY <1>1, <2>1, <2>3
<1>8. ASSUME NEW h \in Hosts, PingStart(h)
      PROVE  Received' /\ More
  <2>1. /\ UNCHANGED <<ring, tick>>
        /\ Send(<<>>, h, [kind |-> "ping", to |-> [host |-> h, id |-> tick]])
    BY <1>8 DEF PingStart, card
  <2>2. More /\ Built'
    BY <2>1, SendGrows
  <2> QED BY <1>1, <2>1, <2>2
<1>9. CASE UNCHANGED <<ring, packet, tick, network>>
  BY <1>1, <1>9 DEF Built, network
<1> QED BY <1>2, <1>3, <1>4, <1>5, <1>6, <1>7, <1>8, <1>9, NetworkTouched

LEMMA ReceivedInit == Init => Received
BY DEF Init, Received, Built, Queries

-----------------------------------------------------------------------------
(* The stack of calls.  It is looked at only for the polls on it that are in *)
(* the middle of a frame.                                                    *)

Polls == [kind : {"poll"}, irq : BOOLEAN, at : {"test"} \cup Middle, frame : Nat,
          slot : Nat, free : Nat]
Activations ==
    Polls \cup [kind : {"resolve"}, at : {"wait", "look"}, host : Hosts, since : Nat]

\* Where a stack is in the middle of a frame, and where in an interrupt.
Middles(s) == {i \in 1 .. Len(s) : s[i].at \in Middle}
Irqs(s) == {i \in 1 .. Len(s) : s[i].kind = "poll" /\ s[i].irq = TRUE}

\* The polls in the middle of a frame stand in t as they do in s.
Alike(s, t) ==
    /\ t \in Seq(Activations)
    /\ Middles(t) = Middles(s)
    /\ \A i \in Middles(s) : t[i] = s[i]

\* Moreover no interrupt has come and no call too many.
Kept(s, t) ==
    /\ Alike(s, t)
    /\ Irqs(t) \subseteq Irqs(s)
    /\ Len(s) <= MaxDepth => Len(t) <= MaxDepth

\* What a poll in the middle of a frame remembers of it.
Framed(a) ==
    /\ a.at \in {"frame", "arp", "dhcp"} => a.frame \in 1 .. Len(ring)
    /\ a.at = "arp" => ring[a.frame].kind = "arp" /\ a.slot \in Nat \ {0}
    /\ a.at = "dhcp" => ring[a.frame].kind \in {"offer", "ack", "nak"}

\* Above a poll in the middle of a frame no other has taken one, or else where
\* the lower one stands is in the history.
Ordered == \A i, j \in Middles(stack) : i < j => stack[i].at \in nested

Stacked ==
    /\ stack \in Seq(Activations)
    /\ rxPtr \in Nat \ {0} /\ nested \subseteq Middle
    /\ Len(ring) \in 0 .. MaxFrames
    /\ Ordered
    /\ \A i \in Middles(stack) : Framed(stack[i])

\* A frame that is handled is one of those that were sent.
LEMMA FrameSent ==
    ASSUME Received, Stacked, stack # <<>>, Top.at \in {"frame", "arp", "dhcp"}
    PROVE  /\ Top.frame \in 1 .. Len(ring) /\ Frame \in Sent
           /\ Top.at = "arp" => Frame.kind = "arp"
           /\ Top.at = "dhcp" => Frame.kind \in {"offer", "ack", "nak"}
<1>1. Len(stack) \in Middles(stack)
  BY DEF Stacked, Middles, Middle, Top
<1>2. Framed(Top)
  BY <1>1 DEF Stacked, Top
<1> QED BY <1>2 DEF Framed, Received, Frame

LEMMA Pushed ==
    ASSUME NEW s \in Seq(Activations), NEW a \in Activations, a.at \notin Middle
    PROVE  /\ Alike(s, Append(s, a)) /\ Len(Append(s, a)) = Len(s) + 1
           /\ ~(a.kind = "poll" /\ a.irq = TRUE) => Irqs(Append(s, a)) \subseteq Irqs(s)
<1>1. /\ Append(s, a) \in Seq(Activations) /\ Len(Append(s, a)) = Len(s) + 1
      /\ \A i \in 1 .. Len(s) : Append(s, a)[i] = s[i]
      /\ Append(s, a)[Len(s) + 1] = a
  OBVIOUS
<1>2. 1 .. Len(s) + 1 = (1 .. Len(s)) \cup {Len(s) + 1} /\ Len(s) + 1 \notin 1 .. Len(s)
  OBVIOUS
<1> QED BY <1>1, <1>2 DEF Middles, Irqs, Alike

LEMMA Popped ==
    ASSUME NEW s \in Seq(Activations), s # <<>>, s[Len(s)].at \notin Middle
    PROVE  Kept(s, SubSeq(s, 1, Len(s) - 1))
<1> DEFINE n == Len(s) - 1
           t == SubSeq(s, 1, n)
<1>1. n \in Nat /\ Len(s) = n + 1
  OBVIOUS
<1>2. \A i \in 1 .. n : s[i] \in Activations
  OBVIOUS
<1> HIDE DEF n
<1>3. /\ t \in Seq(Activations)
      /\ Len(t) = IF 1 <= n THEN n - 1 + 1 ELSE 0
      /\ \A i \in 1 .. n - 1 + 1 : t[i] = s[1 + i - 1]
  BY <1>1, <1>2, SubSeqProperties
<1> HIDE DEF t
<1>4. Len(t) = n /\ \A i \in 1 .. n : t[i] = s[i]
  BY <1>1, <1>3
<1>5. Alike(s, t)
  BY <1>1, <1>3, <1>4 DEF Middles, Alike
<1>6. Irqs(t) \subseteq Irqs(s)
  BY <1>1, <1>4 DEF Irqs
<1>7. Len(s) <= MaxDepth => Len(t) <= MaxDepth
  BY <1>1, <1>4, NetAssumption
<1> QED BY <1>5, <1>6, <1>7 DEF Kept, n, t

\* The activation on top becomes a.
LEMMA Replaced ==
    ASSUME NEW s \in Seq(Activations), s # <<>>, NEW a \in Activations,
           a.kind = "poll" => s[Len(s)].kind = "poll" /\ a.irq = s[Len(s)].irq
    PROVE  LET t == [s EXCEPT ![Len(s)] = a]
           IN  /\ t \in Seq(Activations) /\ t # <<>> /\ Len(t) = Len(s)
               /\ Middles(t) = IF a.at \in Middle THEN Middles(s) \cup {Len(s)}
                                                  ELSE Middles(s) \ {Len(s)}
               /\ \A i \in 1 .. Len(s) : t[i] = IF i = Len(s) THEN a ELSE s[i]
               /\ Irqs(t) \subseteq Irqs(s)
<1> DEFINE n == Len(s)
           t == [s EXCEPT ![n] = a]
<1>1. n \in 1 .. n
  OBVIOUS
<1>2. /\ t \in Seq(Activations) /\ Len(t) = n
      /\ \A i \in 1 .. n : t[i] = IF i = n THEN a ELSE s[i]
  BY <1>1
<1> HIDE DEF t
<1>3. Middles(t) = IF a.at \in Middle THEN Middles(s) \cup {n} ELSE Middles(s) \ {n}
  BY <1>1, <1>2 DEF Middles
<1>4. t # <<>>
  BY <1>1, <1>2
<1>5. Irqs(t) \subseteq Irqs(s)
  BY <1>1, <1>2 DEF Irqs
<1> QED BY <1>2, <1>3, <1>4, <1>5 DEF t

LEMMA Called ==
    ASSUME NEW s \in Seq(Activations), NEW a \in Activations, Call(s, a),
           a.at \notin Middle, ~(a.kind = "poll" /\ a.irq = TRUE)
    PROVE  Kept(s, stack')
<1>1. Len(s) \in Nat /\ MaxDepth \in Nat
  BY NetAssumption
<1>2. Len(s) < MaxDepth /\ stack' = Append(s, a)
  BY DEF Call
<1>3. Alike(s, stack') /\ Len(stack') = Len(s) + 1 /\ Irqs(stack') \subseteq Irqs(s)
  BY <1>2, Pushed
<1>4. Len(stack') <= MaxDepth
  BY <1>1, <1>2, <1>3
<1> QED BY <1>3, <1>4 DEF Kept

LEMMA KeptItself ==
    ASSUME NEW s \in Seq(Activations)
    PROVE  Kept(s, s)
BY DEF Kept, Alike

LEMMA KeptChain ==
    ASSUME NEW s, NEW t, NEW u, Kept(s, t), Kept(t, u)
    PROVE  Kept(s, u)
BY DEF Kept, Alike

LEMMA SentStack ==
    ASSUME NEW s \in Seq(Activations), NEW h \in Hosts, NEW p, Send(s, h, p), tick \in Nat
    PROVE  Kept(s, stack')
<1>1. Resolve(h) \in Activations /\ Resolve(h).at \notin Middle /\ Resolve(h).kind # "poll"
  BY DEF Resolve, Activations, Middle
<1>2. CASE stack' = s
  BY <1>2, KeptItself
<1>3. CASE Call(s, Resolve(h))
  BY <1>1, <1>3, Called
<1> QED BY <1>2, <1>3 DEF Send

LEMMA PollCalled ==
    /\ \A irq \in BOOLEAN : /\ Poll(irq) \in Activations /\ Poll(irq).at \notin Middle
                            /\ Poll(irq).kind = "poll" /\ Poll(irq).irq = irq
BY DEF Poll, Polls, Activations, Middle

LEMMA EmptyStack == <<>> \in Seq(Activations)
OBVIOUS

\* A resolution on top goes on or returns, a poll returns.
LEMMA ResolveMoves ==
    ASSUME stack \in Seq(Activations), stack # <<>>, Top.kind = "resolve"
    PROVE  /\ Kept(stack, Below)
           /\ \A step \in {"wait", "look"} : Kept(stack, TopAt(step))
<1>1. Top \in Activations /\ Top.at \notin Middle
  BY DEF Top, Polls, Activations, Middle
<1>2. Kept(stack, Below)
  BY <1>1, Popped DEF Below, Top
<1>3. ASSUME NEW step \in {"wait", "look"}
      PROVE  Kept(stack, TopAt(step))
  <2> DEFINE a == [Top EXCEPT !.at = step]
  <2>1. a \in Activations /\ a.at \notin Middle /\ a.kind = "resolve"
    BY <1>1 DEF Polls, Activations, Middle
  <2> HIDE DEF a
  <2>2. LET t == Becomes(a)
        IN  /\ t \in Seq(Activations) /\ Len(t) = Len(stack)
            /\ Middles(t) = Middles(stack) \ {Len(stack)}
            /\ \A i \in 1 .. Len(stack) : t[i] = IF i = Len(stack) THEN a ELSE stack[i]
            /\ Irqs(t) \subseteq Irqs(stack)
    BY <2>1, Replaced DEF Becomes
  <2>3. Len(stack) \notin Middles(stack)
    BY <1>1 DEF Middles, Top
  <2>4. Kept(stack, Becomes(a))
    BY <2>2, <2>3 DEF Kept, Alike, Middles
  <2> QED BY <2>4 DEF TopAt, a
<1> QED BY <1>2, <1>3

LEMMA CallsKept ==
    ASSUME stack \in Seq(Activations),
           ResolvePoll \/ ResolveLook \/ ResolveExpired \/ PollEmpty
    PROVE  Kept(stack, stack')
<1>1. CASE ResolvePoll
  <2>1. stack # <<>> /\ Top.kind = "resolve" /\ Call(TopAt("look"), Poll(FALSE))
    BY <1>1 DEF ResolvePoll, Resolving
  <2>2. Kept(stack, TopAt("look")) /\ TopAt("look") \in Seq(Activations)
    BY <2>1, ResolveMoves DEF Kept, Alike
  <2>3. Kept(TopAt("look"), stack')
    BY <2>1, <2>2, Called, PollCalled
  <2> QED BY <2>2, <2>3, KeptChain
<1>2. CASE ResolveLook
  <2>1. stack # <<>> /\ Top.kind = "resolve" /\ stack' \in {Below, TopAt("wait")}
    BY <1>2 DEF ResolveLook, Resolving
  <2> QED BY <2>1, ResolveMoves
<1>3. CASE ResolveExpired
  <2>1. stack # <<>> /\ Top.kind = "resolve" /\ stack' = Below
    BY <1>3 DEF ResolveExpired, Resolving
  <2> QED BY <2>1, ResolveMoves
<1>4. CASE PollEmpty
  <2>1. stack # <<>> /\ Top.at = "test" /\ stack' = Below
    BY <1>4 DEF PollEmpty, Polling
  <2> QED BY <2>1, Popped DEF Top, Below, Middle
<1> QED BY <1>1, <1>2, <1>3, <1>4

LEMMA InterruptStack ==
    ASSUME stack \in Seq(Activations), Interrupt
    PROVE  Alike(stack, stack') /\ Len(stack') <= MaxDepth /\ ~masked
<1>1. Len(stack) < MaxDepth /\ stack' = Append(stack, Poll(TRUE)) /\ ~masked
  BY DEF Interrupt, Call, Masked
<1>2. Len(stack) \in Nat /\ MaxDepth \in Nat
  BY NetAssumption
<1>3. Alike(stack, stack') /\ Len(stack') = Len(stack) + 1
  BY <1>1, Pushed, PollCalled
<1>4. Len(stack') <= MaxDepth
  BY <1>1, <1>2, <1>3
<1> QED BY <1>1, <1>3, <1>4

\* The task acts on an empty stack, and leaves the frames alone.
LEMMA TaskKept ==
    ASSUME Task, tick \in Nat
    PROVE  /\ stack = <<>> /\ Kept(stack, stack')
           /\ ring' = ring /\ UNCHANGED <<rxPtr, count, nested, tick>>
<1>1. ring' = ring /\ UNCHANGED <<rxPtr, count, nested, tick>> /\ stack = <<>>
  BY DEF Task, IdlePoll, WaitPoll, WaitLook, WaitExpired, DhcpDiscover, DhcpRequest, DhcpFails,
         DhcpBind, DnsStart, DnsSent, DnsEnd, PingStart, PingSent, PingEnd, card, TaskAt
<1>2. stack \in Seq(Activations)
  BY <1>1, EmptyStack
<1>3. Kept(stack, stack')
  <2>1. CASE IdlePoll \/ WaitPoll
    BY <1>2, <2>1, Called, PollCalled DEF IdlePoll, WaitPoll
  <2>2. CASE \/ WaitLook \/ WaitExpired \/ DhcpDiscover \/ DhcpRequest \/ DhcpBind
             \/ DnsSent \/ DnsEnd \/ PingSent \/ PingEnd
    <3>1. stack' = stack
      BY <2>2 DEF WaitLook, WaitExpired, DhcpDiscover, DhcpRequest, DhcpFails, DhcpBind,
                  DnsSent, DnsEnd, PingSent, PingEnd
    <3> QED BY <1>2, <3>1, KeptItself
  <2>3. ASSUME NEW n \in Names, DnsStart(n)
        PROVE  Kept(stack, stack')
    <3>1. Send(<<>>, DnsHost, [kind |-> "query", query |-> [name |-> n, id |-> tick]])
      BY <2>3 DEF DnsStart
    <3> QED BY <1>1, <3>1, SentStack, EmptyStack, NetAssumption
  <2>4. ASSUME NEW h \in Hosts, PingStart(h)
        PROVE  Kept(stack, stack')
    <3>1. Send(<<>>, h, [kind |-> "ping", to |-> [host |-> h, id |-> tick]])
      BY <2>4 DEF PingStart
    <3> QED BY <1>1, <3>1, SentStack, EmptyStack
  <2> QED BY <2>1, <2>2, <2>3, <2>4 DEF Task
<1> QED BY <1>1, <1>3

-----------------------------------------------------------------------------
(* A poll on top works on its frame. *)

\* It becomes a, and may call something.
Worked(a) ==
    /\ stack # <<>> /\ Top.kind = "poll"
    /\ a \in Activations /\ a.kind = "poll" /\ a.irq = Top.irq
    /\ Kept(Becomes(a), stack')

LEMMA WorkedStack ==
    ASSUME stack \in Seq(Activations), NEW a, Worked(a)
    PROVE  /\ stack' \in Seq(Activations) /\ Len(stack) \in 1 .. Len(stack)
           /\ Middles(stack') = IF a.at \in Middle THEN Middles(stack) \cup {Len(stack)}
                                                   ELSE Middles(stack) \ {Len(stack)}
           /\ \A i \in Middles(stack') : stack'[i] = IF i = Len(stack) THEN a ELSE stack[i]
           /\ \A i \in Middles(stack) : i <= Len(stack)
           /\ Irqs(stack') \subseteq Irqs(stack)
           /\ Len(stack) <= MaxDepth => Len(stack') <= MaxDepth
<1> DEFINE t == Becomes(a)
<1>1. /\ t \in Seq(Activations) /\ Len(t) = Len(stack)
      /\ Middles(t) = IF a.at \in Middle THEN Middles(stack) \cup {Len(stack)}
                                         ELSE Middles(stack) \ {Len(stack)}
      /\ \A i \in 1 .. Len(stack) : t[i] = IF i = Len(stack) THEN a ELSE stack[i]
      /\ Irqs(t) \subseteq Irqs(stack)
  BY Replaced DEF Worked, Becomes, Top
<1>2. Kept(t, stack')
  BY DEF Worked
<1> HIDE DEF t
<1>3. Middles(t) \subseteq 1 .. Len(stack) /\ Middles(stack) \subseteq 1 .. Len(stack)
  BY <1>1 DEF Middles
<1>4. Len(stack) \in 1 .. Len(stack)
  BY DEF Worked
<1> QED BY <1>1, <1>2, <1>3, <1>4 DEF Kept, Alike

\* Where a poll on top stands, and that it is an activation.
LEMMA TopPoll ==
    ASSUME stack \in Seq(Activations), stack # <<>>, Top.kind = "poll"
    PROVE  /\ Top \in Activations
           /\ Top \in Polls
           /\ Top.irq \in BOOLEAN /\ Top.frame \in Nat /\ Top.slot \in Nat /\ Top.free \in Nat
           /\ Top.at \in Middle => Len(stack) \in Middles(stack)
BY DEF Top, Polls, Activations, Middles

LEMMA BecomesWorked ==
    ASSUME stack \in Seq(Activations), stack # <<>>, Top.kind = "poll",
           NEW a \in Polls, a.irq = Top.irq,
           Kept(Becomes(a), stack') \/ stack' = Becomes(a)
    PROVE  Worked(a)
<1>1. a \in Activations /\ a.kind = "poll"
  BY DEF Polls, Activations
<1>2. Becomes(a) \in Seq(Activations)
  BY <1>1, Replaced DEF Becomes, Top
<1>3. Kept(Becomes(a), stack')
  BY <1>2, KeptItself
<1> QED BY <1>1, <1>3 DEF Worked

\* The poll takes the frame at the pointer.
LEMMA ReadWorks ==
    ASSUME Stacked, Read
    PROVE  LET a == [Top EXCEPT !.at = "frame", !.frame = rxPtr]
           IN  /\ Worked(a) /\ Top.at = "test"
               /\ a.at = "frame" /\ a.frame = rxPtr /\ rxPtr \in DOMAIN ring
<1>1. stack # <<>> /\ Top.kind = "poll" /\ Top.at = "test" /\ rxPtr \in DOMAIN ring
      /\ stack' = Becomes([Top EXCEPT !.at = "frame", !.frame = rxPtr])
  BY DEF Read, Polling
<1> DEFINE a == [Top EXCEPT !.at = "frame", !.frame = rxPtr]
<1>2. Top \in Polls /\ rxPtr \in Nat
  BY <1>1, TopPoll DEF Stacked
<1>3. a \in Polls /\ a.irq = Top.irq /\ a.at = "frame" /\ a.frame = rxPtr
  BY <1>2 DEF Polls, Middle
<1> HIDE DEF a
<1>4. Worked(a)
  BY <1>1, <1>3, BecomesWorked DEF Stacked, a
<1> QED BY <1>1, <1>3, <1>4 DEF a

\* The poll handles it: what follows is ARP's, DHCP's or the end.
HandledAs(a) ==
    /\ Worked(a) /\ Top.at = "frame" /\ a.frame = Top.frame
    /\ \/ HandleArp /\ a.at = "arp" /\ a.slot = 1 /\ Frame.kind = "arp"
       \/ HandleDhcp /\ a.at = "dhcp" /\ Frame.kind \in {"offer", "ack", "nak"}
          /\ DhcpSocket \in udp
       \/ ~HandleArp /\ (HandleDhcp => dhcp' = dhcp) /\ a.at = "handled"

LEMMA HandleWorks ==
    ASSUME Stacked, Received, Handle
    PROVE  \E a : HandledAs(a)
<1>1. PICK kinds : Dispatch(kinds)
  BY DEF Handle, HandleArp, HandleEcho, HandlePong, HandleAnswer, HandleDhcp
<1>2. /\ stack \in Seq(Activations) /\ stack # <<>> /\ Top.kind = "poll" /\ Top.at = "frame"
  BY <1>1 DEF Dispatch, Polling, Stacked
<1>3. Top \in Polls /\ Top.frame \in Nat /\ Top.slot \in Nat /\ Top.free \in Nat
  BY <1>2, TopPoll
<1>4. CASE HandleArp
  <2> DEFINE a == [Top EXCEPT !.at = "arp", !.slot = 1]
  <2>1. a \in Polls /\ a.irq = Top.irq /\ a.at = "arp" /\ a.frame = Top.frame
        /\ a.slot = 1
    BY <1>3 DEF Polls, Middle
  <2>2. stack' = Becomes(a) /\ Frame.kind = "arp"
    BY <1>4 DEF HandleArp, Dispatch
  <2> HIDE DEF a
  <2>3. Worked(a)
    BY <1>2, <1>3, <2>1, <2>2, BecomesWorked DEF Middle
  <2>4. HandledAs(a)
    BY <1>2, <1>4, <2>1, <2>2, <2>3 DEF HandledAs
  <2> QED BY <2>4
<1>5. CASE HandleDhcp /\ DhcpSocket \in udp
  <2> DEFINE a == [Top EXCEPT !.at = "dhcp"]
  <2>1. a \in Polls /\ a.irq = Top.irq /\ a.at = "dhcp" /\ a.frame = Top.frame
    BY <1>3 DEF Polls, Middle
  <2>2. stack' = Becomes(a) /\ Frame.kind \in {"offer", "ack", "nak"}
    BY <1>5 DEF HandleDhcp, Dispatch, TopAt
  <2> HIDE DEF a
  <2>3. Worked(a)
    BY <1>2, <1>3, <2>1, <2>2, BecomesWorked DEF Middle
  <2>4. HandledAs(a)
    BY <1>2, <1>5, <2>1, <2>2, <2>3 DEF HandledAs
  <2> QED BY <2>4
<1>6. CASE ~HandleArp /\ ~(HandleDhcp /\ DhcpSocket \in udp)
  <2> DEFINE a == [Top EXCEPT !.at = "handled"]
  <2>1. a \in Polls /\ a.irq = Top.irq /\ a.at = "handled" /\ a.frame = Top.frame
    BY <1>3 DEF Polls, Middle
  <2>2. TopAt("handled") = Becomes(a)
    BY DEF TopAt
  <2> HIDE DEF a
  <2>3. a \in Activations
    BY <1>2, <1>3, <2>1, TopPoll DEF Polls, Activations, Middle
  <2>4. Becomes(a) \in Seq(Activations)
    BY <1>2, <2>1, <2>3, Replaced DEF Becomes, Top
  <2>5. stack' = Becomes(a) \/ Kept(Becomes(a), stack')
    <3>1. CASE HandleEcho /\ Send(TopAt("handled"), Frame.host, [kind |-> "reply"])
      <4>1. Frame.host \in Hosts
        BY <1>2, <3>1, FrameSent DEF HandleEcho, Dispatch, Sent
      <4> QED BY <2>2, <2>4, <3>1, <4>1, SentStack DEF Received
    <3>2. CASE stack' = TopAt("handled")
      BY <2>2, <3>2
    <3> QED BY <1>6, <3>1, <3>2 DEF Handle, HandleEcho, HandlePong, HandleAnswer, HandleDhcp
  <2>6. Worked(a)
    BY <1>2, <1>3, <2>1, <2>5, BecomesWorked DEF Middle
  <2>7. HandleDhcp => dhcp' = dhcp
    BY <1>6 DEF HandleDhcp
  <2>8. HandledAs(a)
    BY <1>2, <1>6, <2>1, <2>6, <2>7 DEF HandledAs
  <2> QED BY <2>8
<1> QED BY <1>4, <1>5, <1>6

\* The later steps of a frame.
GoesOnAs(a) ==
    /\ Worked(a) /\ Top.at \in Middle \ {"frame"} /\ a.at \in Middle \ {"frame", "dhcp"}
    /\ \/ ScanSlot /\ a.at = "arp" /\ a.slot = Top.slot + 1
          /\ arp[Top.slot] # Frame.host /\ Top.at = "arp" /\ a.frame = Top.frame
       \/ Load /\ a.at = "loaded" /\ a.frame = rxPtr
       \/ a.at = "handled" /\ a.frame = Top.frame
    /\ ConcludeDhcp => Top.at = "dhcp"

LEMMA LaterWorks ==
    ASSUME Stacked, ScanSlot \/ StoreSlot \/ ConcludeDhcp \/ Load
    PROVE  \E a : GoesOnAs(a)
<1>1. /\ stack \in Seq(Activations) /\ stack # <<>> /\ Top.kind = "poll"
      /\ Top.at \in {"arp", "dhcp", "handled"}
  BY DEF Stacked, ScanSlot, StoreSlot, ConcludeDhcp, Load, Polling
<1>2. Top \in Polls /\ Top.frame \in Nat /\ Top.slot \in Nat /\ Top.free \in Nat
  BY <1>1, TopPoll
<1>3. ConcludeDhcp => Top.at = "dhcp"
  BY DEF ConcludeDhcp, Polling
<1>4. ScanSlot \/ StoreSlot => Top.at = "arp"
  BY DEF ScanSlot, StoreSlot, Polling
<1>5. CASE stack' = Learned /\ Top.at = "arp"
  <2> DEFINE a == [Top EXCEPT !.at = "handled", !.slot = 0, !.free = 0]
  <2>1. a \in Polls /\ a.irq = Top.irq /\ a.at = "handled" /\ a.frame = Top.frame
    BY <1>2 DEF Polls, Middle
  <2>2. stack' = Becomes(a)
    BY <1>5 DEF Learned
  <2> HIDE DEF a
  <2>3. Worked(a)
    BY <1>1, <1>2, <2>1, <2>2, BecomesWorked DEF Middle
  <2>4. GoesOnAs(a)
    BY <1>1, <1>3, <2>1, <2>3 DEF GoesOnAs, Middle
  <2> QED BY <2>4
<1>6. CASE ScanSlot /\ arp[Top.slot] # Frame.host
  <2> DEFINE free == IF arp[Top.slot] = NoHost /\ Top.free = 0 THEN Top.slot ELSE Top.free
             a == [Top EXCEPT !.slot = Top.slot + 1, !.free = free]
  <2>1. free \in Nat /\ Top.slot + 1 \in Nat
    BY <1>2
  <2>2. stack' = Becomes(a)
    BY <1>6 DEF ScanSlot
  <2> HIDE DEF free
  <2>3. /\ a \in Polls /\ a.irq = Top.irq /\ a.at = "arp" /\ a.frame = Top.frame
        /\ a.slot = Top.slot + 1
    BY <1>2, <1>4, <1>6, <2>1 DEF Polls
  <2> HIDE DEF a
  <2>4. Worked(a)
    BY <1>1, <1>2, <2>2, <2>3, BecomesWorked DEF Middle
  <2>5. GoesOnAs(a)
    BY <1>1, <1>3, <1>4, <1>6, <2>3, <2>4 DEF GoesOnAs, Middle
  <2> QED BY <2>5
<1>7. CASE ConcludeDhcp
  <2> DEFINE a == [Top EXCEPT !.at = "handled"]
  <2>1. a \in Polls /\ a.irq = Top.irq /\ a.at = "handled" /\ a.frame = Top.frame
    BY <1>2 DEF Polls, Middle
  <2>2. stack' = Becomes(a)
    BY <1>7 DEF ConcludeDhcp, TopAt
  <2> HIDE DEF a
  <2>3. Worked(a)
    BY <1>1, <1>2, <2>1, <2>2, BecomesWorked DEF Middle
  <2>4. GoesOnAs(a)
    BY <1>1, <1>3, <2>1, <2>3 DEF GoesOnAs, Middle
  <2> QED BY <2>4
<1>8. CASE Load
  <2> DEFINE a == [Top EXCEPT !.at = "loaded", !.frame = rxPtr]
  <2>1. rxPtr \in Nat
        /\ a \in Polls /\ a.irq = Top.irq /\ a.at = "loaded" /\ a.frame = rxPtr
    BY <1>2 DEF Stacked, Polls, Middle
  <2>2. stack' = Becomes(a)
    BY <1>8 DEF Load
  <2> HIDE DEF a
  <2>3. Worked(a)
    BY <1>1, <1>2, <2>1, <2>2, BecomesWorked DEF Middle
  <2>4. GoesOnAs(a)
    BY <1>1, <1>3, <1>8, <2>1, <2>3 DEF GoesOnAs, Middle
  <2> QED BY <2>4
<1> QED BY <1>4, <1>5, <1>6, <1>7, <1>8 DEF ScanSlot, StoreSlot

\* The poll goes on to the next frame.
LEMMA AdvanceWorks ==
    ASSUME Stacked, Advance
    PROVE  /\ Worked(Poll(Top.irq)) /\ Poll(Top.irq).at = "test"
           /\ Top.at = "loaded" /\ Top.frame \in Nat /\ Len(stack) \in Middles(stack)
<1>1. /\ stack \in Seq(Activations) /\ stack # <<>> /\ Top.kind = "poll" /\ Top.at = "loaded"
      /\ stack' = Becomes(Poll(Top.irq))
  BY DEF Advance, Polling, Stacked
<1>2. Top.irq \in BOOLEAN /\ Top.frame \in Nat /\ Len(stack) \in Middles(stack)
  BY <1>1, TopPoll DEF Middle
<1>3. Poll(Top.irq) \in Polls /\ Poll(Top.irq).irq = Top.irq /\ Poll(Top.irq).at = "test"
  BY <1>2 DEF Poll, Polls
<1>4. Worked(Poll(Top.irq))
  BY <1>1, <1>3, BecomesWorked DEF Middle
<1> QED BY <1>1, <1>2, <1>3, <1>4

\* Every other step leaves the frames alone, and the polls in the middle of one.
RingGrown ==
    Len(ring') \in Len(ring) .. MaxFrames /\ \A f \in 1 .. Len(ring) : ring'[f] = ring[f]

Works == Read \/ Handle \/ ScanSlot \/ StoreSlot \/ ConcludeDhcp \/ Load \/ Advance

LEMMA OthersAlike ==
    ASSUME Stacked, Received, [Next]_vars, ~Works
    PROVE  Alike(stack, stack') /\ UNCHANGED <<rxPtr, count, nested>> /\ RingGrown
<1>0. /\ ring' = ring => RingGrown
      /\ stack \in Seq(Activations)
      /\ stack' = stack => Alike(stack, stack')
  <2>1. Len(ring) \in 0 .. MaxFrames /\ MaxFrames \in Nat
    BY NetAssumption DEF Stacked
  <2> QED BY <2>1 DEF RingGrown, Stacked, Alike
<1>1. CASE Arrive
  <2>1. PICK f \in Network : ring' = Append(ring, f)
    BY <1>1 DEF Arrive
  <2>2. Len(ring') = Len(ring) + 1 /\ \A i \in 1 .. Len(ring) : ring'[i] = ring[i]
    BY <2>1 DEF Received
  <2>3. Len(ring) < MaxFrames /\ UNCHANGED <<rxPtr, count, nested, stack>>
    BY <1>1 DEF Arrive
  <2>4. Len(ring') \in Len(ring) .. MaxFrames
    BY <2>2, <2>3, NetAssumption DEF Received
  <2> QED BY <1>0, <2>2, <2>3, <2>4 DEF RingGrown
<1>2. CASE Tick \/ UNCHANGED vars
  BY <1>0, <1>2 DEF Tick, vars, card
<1>3. CASE ResolvePoll \/ ResolveLook \/ ResolveExpired \/ PollEmpty
  <2>1. UNCHANGED <<ring, rxPtr, count, nested>>
    BY <1>3 DEF ResolvePoll, ResolveLook, ResolveExpired, PollEmpty, card
  <2> QED BY <1>0, <1>3, <2>1, CallsKept DEF Kept
<1>4. CASE Interrupt
  <2>1. UNCHANGED <<ring, rxPtr, count, nested>>
    BY <1>4 DEF Interrupt, card
  <2> QED BY <1>0, <1>4, <2>1, InterruptStack
<1>5. CASE Task
  BY <1>0, <1>5, TaskKept DEF Received, Kept
<1> QED BY <1>1, <1>2, <1>3, <1>4, <1>5 DEF Next, Works

LEMMA StackedStep ==
    ASSUME Stacked, Received, [Next]_vars
    PROVE  Stacked'
<1> DEFINE Unread == ring' = ring /\ rxPtr' = rxPtr /\ nested' = nested
<1>1. ASSUME NEW a, Worked(a), a.at \in Middle => Framed(a), ring' = ring,
             rxPtr' \in Nat \ {0}, nested' \subseteq Middle, nested \subseteq nested',
             \A i \in Middles(stack) : i # Len(stack) /\ a.at \in Middle
                 => stack[i].at \in nested'
      PROVE  Stacked'
  <2>1. /\ stack' \in Seq(Activations) /\ Len(stack) \in Nat
        /\ Middles(stack') = IF a.at \in Middle THEN Middles(stack) \cup {Len(stack)}
                                                ELSE Middles(stack) \ {Len(stack)}
        /\ \A i \in Middles(stack') : stack'[i] = IF i = Len(stack) THEN a ELSE stack[i]
        /\ \A i \in Middles(stack) : i <= Len(stack) /\ i \in Nat
    BY <1>1, WorkedStack DEF Stacked, Middles
  <2>2. ASSUME NEW i \in Middles(stack'), NEW j \in Middles(stack'), i < j
        PROVE  stack'[i].at \in nested'
    <3>1. i # Len(stack) /\ stack'[i] = stack[i] /\ i \in Middles(stack)
      BY <2>1, <2>2
    <3>2. CASE j = Len(stack)
      BY <1>1, <2>1, <3>1, <3>2
    <3>3. CASE j # Len(stack)
      <4>1. j \in Middles(stack)
        BY <2>1, <3>3
      <4> QED BY <1>1, <2>2, <3>1, <4>1 DEF Stacked, Ordered
    <3> QED BY <3>2, <3>3
  <2>3. ASSUME NEW i \in Middles(stack')
        PROVE  Framed(stack[i])'
    <3>1. CASE i = Len(stack)
      <4>1. a.at \in Middle /\ stack'[i] = a
        BY <2>1, <3>1
      <4> QED BY <1>1, <4>1 DEF Framed
    <3>2. CASE i # Len(stack)
      <4>1. i \in Middles(stack) /\ stack'[i] = stack[i]
        BY <2>1, <3>2
      <4> QED BY <1>1, <4>1 DEF Framed, Stacked
    <3> QED BY <3>1, <3>2
  <2> QED BY <1>1, <2>1, <2>2, <2>3 DEF Stacked, Ordered
<1>2. CASE ~Works
  <2>1. Alike(stack, stack') /\ UNCHANGED <<rxPtr, count, nested>> /\ RingGrown
    BY <1>2, OthersAlike
  <2>2. Len(ring') \in 0 .. MaxFrames /\ Len(ring) \in Nat
    BY <2>1, NetAssumption DEF RingGrown, Stacked
  <2>3. ASSUME NEW i \in Middles(stack)
        PROVE  Framed(stack[i])'
    <3>1. Framed(stack[i])
      BY DEF Stacked
    <3>2. stack'[i] = stack[i]
      BY <2>1 DEF Alike
    <3>3. 1 .. Len(ring) \subseteq 1 .. Len(ring')
      BY <2>1, <2>2 DEF RingGrown
    <3> QED BY <2>1, <3>1, <3>2, <3>3 DEF Framed, RingGrown
  <2> QED BY <2>1, <2>2, <2>3 DEF Alike, Stacked, Ordered
<1>3. CASE Read
  <2> DEFINE a == [Top EXCEPT !.at = "frame", !.frame = rxPtr]
  <2>1. Worked(a) /\ a.at = "frame" /\ a.frame = rxPtr /\ rxPtr \in DOMAIN ring
    BY <1>3, ReadWorks
  <2>2. Framed(a)
    BY <2>1 DEF Framed, Received
  <2>3. /\ ring' = ring /\ rxPtr' = rxPtr
        /\ nested' = nested \cup ({stack[i].at : i \in DOMAIN stack} \cap Middle)
    BY <1>3 DEF Read
  <2>4. \A i \in Middles(stack) : stack[i].at \in nested'
    BY <2>3 DEF Middles, Stacked
  <2> HIDE DEF a
  <2> QED BY <1>1, <2>1, <2>2, <2>3, <2>4 DEF Stacked
<1>4. ASSUME NEW a, Worked(a), a.at \in Middle => Framed(a), ring' = ring,
             rxPtr' \in Nat \ {0}, nested' = nested, Top.at \in Middle
      PROVE  Stacked'
  <2>1. \A i \in Middles(stack) : i # Len(stack) => stack[i].at \in nested'
    <3>1. Len(stack) \in Middles(stack)
      BY <1>4, TopPoll DEF Worked, Stacked
    <3>2. \A i \in Middles(stack) : i # Len(stack) => i < Len(stack)
      BY DEF Middles, Stacked
    <3> QED BY <1>4, <3>1, <3>2 DEF Stacked, Ordered
  <2> QED BY <1>1, <1>4, <2>1 DEF Stacked
<1>5. CASE Handle
  <2>1. PICK a : HandledAs(a)
    BY <1>5, HandleWorks
  <2>2. Unread
    BY <1>5 DEF Handle, HandleArp, HandleEcho, HandlePong, HandleAnswer, HandleDhcp, Dispatch
  <2>3. Framed(a)
    <3>1. a.frame \in 1 .. Len(ring)
      BY <2>1, FrameSent DEF HandledAs, Worked
    <3>2. a.at = "arp" => ring[a.frame].kind = "arp" /\ a.slot = 1
      BY <2>1 DEF HandledAs, Frame
    <3>3. a.at = "dhcp" => ring[a.frame].kind \in {"offer", "ack", "nak"}
      BY <2>1 DEF HandledAs, Frame
    <3> QED BY <3>1, <3>2, <3>3 DEF Framed
  <2> QED BY <1>4, <2>1, <2>2, <2>3 DEF HandledAs, Middle, Stacked
<1>6. CASE ScanSlot \/ StoreSlot \/ ConcludeDhcp \/ Load
  <2>1. PICK a : GoesOnAs(a)
    BY <1>6, LaterWorks
  <2>2. Unread
    BY <1>6 DEF ScanSlot, StoreSlot, ConcludeDhcp, Load, card
  <2>3. Framed(a)
    <3>1. CASE a.at \notin {"frame", "arp", "dhcp"}
      BY <3>1 DEF Framed
    <3>2. CASE a.at = "arp"
      <4>1. a.slot = Top.slot + 1 /\ Top.at = "arp" /\ a.frame = Top.frame /\ Worked(a)
        BY <2>1, <3>2 DEF GoesOnAs
      <4>2. Top.slot \in Nat
        BY <4>1, TopPoll DEF Worked, Stacked
      <4>3. Top.frame \in 1 .. Len(ring) /\ Frame.kind = "arp"
        BY <4>1, FrameSent DEF Worked
      <4> QED BY <3>2, <4>1, <4>2, <4>3 DEF Framed, Frame
    <3> QED BY <2>1, <3>1, <3>2 DEF GoesOnAs
  <2> QED BY <1>4, <2>1, <2>2, <2>3 DEF GoesOnAs, Stacked
<1>7. CASE Advance
  <2>1. /\ Worked(Poll(Top.irq)) /\ Poll(Top.irq).at \notin Middle
        /\ Top.at \in Middle /\ Top.frame \in Nat
    BY <1>7, AdvanceWorks DEF Middle
  <2>2. ring' = ring /\ rxPtr' = Top.frame + 1 /\ nested' = nested
    BY <1>7 DEF Advance
  <2>3. rxPtr' \in Nat \ {0}
    BY <2>1, <2>2
  <2> QED BY <1>4, <2>1, <2>2, <2>3
<1> QED BY <1>2, <1>3, <1>5, <1>6, <1>7 DEF Works

LEMMA StackedInit == Init => Stacked
<1> SUFFICES ASSUME Init PROVE Stacked
  OBVIOUS
<1>1. stack = <<>> /\ ring = <<>> /\ rxPtr = 1 /\ nested = {}
  BY DEF Init
<1>2. Middles(stack) = {} /\ MaxFrames \in Nat
  BY <1>1, NetAssumption DEF Middles
<1>3. Len(ring) \in 0 .. MaxFrames
  BY <1>1, <1>2
<1> QED BY <1>1, <1>2, <1>3, EmptyStack DEF Stacked, Ordered

\* Where no other poll has taken a frame above it, a poll stands alone.
LEMMA Alone ==
    ASSUME Stacked, NEW a, Worked(a), Top.at \in Middle, NEW i \in Middles(stack),
           stack[i].at \notin nested
    PROVE  i = Len(stack)
<1>1. Len(stack) \in Middles(stack)
  BY TopPoll DEF Worked, Stacked
<1>2. i <= Len(stack) /\ i \in Nat /\ Len(stack) \in Nat
  BY DEF Middles, Stacked
<1> QED BY <1>1, <1>2 DEF Stacked, Ordered

-----------------------------------------------------------------------------
(* The ARP cache. *)

\* An update has met no entry for its address in the slots it has looked at.
Scanned(a) == \A j \in Slots : j < a.slot => arp[j] # ring[a.frame].host

Distinct == \A i, j \in Slots : arp[i] = arp[j] /\ arp[i] # NoHost => i = j

Cached ==
    /\ arp = [i \in Slots |-> arp[i]]
    /\ "arp" \notin nested =>
          Distinct /\ \A i \in Middles(stack) : stack[i].at = "arp" => Scanned(stack[i])

LEMMA CacheTouched ==
    ASSUME [Next]_vars
    PROVE  Tick \/ StoreSlot \/ UNCHANGED arp
<1>1. ASSUME Arrive \/ Interrupt \/ ResolvePoll \/ ResolveLook \/ ResolveExpired
             \/ PollEmpty \/ Read \/ ScanSlot \/ ConcludeDhcp \/ Load \/ Advance
      PROVE  UNCHANGED arp
  BY <1>1 DEF Arrive, Interrupt, ResolvePoll, ResolveLook, ResolveExpired, PollEmpty,
              Read, ScanSlot, ConcludeDhcp, Load, Advance
<1>2. ASSUME HandleArp \/ HandleEcho \/ HandlePong \/ HandleAnswer \/ HandleDhcp
      PROVE  UNCHANGED arp
  BY <1>2 DEF HandleArp, HandleEcho, HandlePong, HandleAnswer, HandleDhcp
<1>3. ASSUME Task
      PROVE  UNCHANGED arp
  BY <1>3 DEF Task, IdlePoll, WaitPoll, WaitLook, WaitExpired, DhcpDiscover, DhcpRequest,
              DhcpFails, DhcpBind, DnsStart, DnsSent, DnsEnd, PingStart, PingSent, PingEnd
<1>4. CASE UNCHANGED vars
  BY <1>4 DEF vars
<1> QED BY <1>1, <1>2, <1>3, <1>4 DEF Next, Handle

\* The host of an update is one, and no empty slot.
LEMMA UpdateHost ==
    ASSUME Stacked, Received, NEW i \in Middles(stack), stack[i].at = "arp"
    PROVE  ring[stack[i].frame].host \in Hosts /\ stack[i].frame \in 1 .. Len(ring)
<1>1. stack[i].frame \in 1 .. Len(ring) /\ ring[stack[i].frame].kind = "arp"
  BY DEF Stacked, Framed
<1>2. ring[stack[i].frame] \in Sent
  BY <1>1 DEF Received
<1> QED BY <1>1, <1>2 DEF Sent

\* A poll on top that is alone in its update becomes a.
LEMMA UpdateWorks ==
    ASSUME Stacked, Cached, "arp" \notin nested, ring' = ring, arp' = arp,
           NEW a, Worked(a), a.at = "arp" => Scanned(a)
    PROVE  Cached'
<1>1. /\ stack \in Seq(Activations)
      /\ \A i \in Middles(stack') : stack'[i] = IF i = Len(stack) THEN a ELSE stack[i]
      /\ Middles(stack') \subseteq Middles(stack) \cup {Len(stack)}
  BY WorkedStack DEF Stacked
<1>2. ASSUME NEW i \in Middles(stack'), stack'[i].at = "arp"
      PROVE  Scanned(stack[i])'
  BY <1>1, <1>2 DEF Cached, Scanned
<1> QED BY <1>2 DEF Cached, Distinct, Slots

LEMMA CachedStep ==
    ASSUME Received, Stacked, Cached, [Next]_vars
    PROVE  Cached'
<1> USE DEF Cached
<1>0. nested \subseteq nested'
  BY OthersAlike DEF Works, Read, Handle, HandleArp, HandleEcho, HandlePong, HandleAnswer,
         HandleDhcp, Dispatch, ScanSlot, StoreSlot, ConcludeDhcp, Load, Advance, card
<1>1. arp' = [i \in Slots |-> arp'[i]]
  BY CacheTouched DEF Tick, StoreSlot, Slots
<1>2. SUFFICES ASSUME "arp" \notin nested'
               PROVE  Distinct' /\ \A i \in Middles(stack') : stack'[i].at = "arp" => Scanned(stack[i])'
  BY <1>1
<1>3. "arp" \notin nested /\ Distinct
      /\ \A i \in Middles(stack) : stack[i].at = "arp" => Scanned(stack[i])
  BY <1>0, <1>2
<1>4. CASE ~Works
  <2>1. Alike(stack, stack') /\ RingGrown
    BY <1>4, OthersAlike
  <2>2. \A j \in Slots : arp'[j] \in {arp[j], NoHost}
    <3>1. CASE Tick
      BY <3>1 DEF Tick
    <3>2. CASE UNCHANGED arp
      BY <3>2
    <3> QED BY <1>4, <3>1, <3>2, CacheTouched DEF Works
  <2>3. ASSUME NEW i \in Middles(stack'), stack'[i].at = "arp"
        PROVE  Scanned(stack[i])'
    <3>1. i \in Middles(stack) /\ stack'[i] = stack[i]
      BY <2>1 DEF Alike
    <3>2. /\ ring'[stack[i].frame] = ring[stack[i].frame]
          /\ ring[stack[i].frame].host # NoHost
      BY <2>1, <2>3, <3>1, UpdateHost, NetAssumption DEF RingGrown
    <3>3. Scanned(stack[i])
      BY <1>3, <2>3, <3>1
    <3> QED BY <2>2, <3>1, <3>2, <3>3 DEF Scanned
  <2> QED BY <1>3, <2>2, <2>3 DEF Distinct
<1>5. CASE Read \/ Handle \/ ScanSlot \/ ConcludeDhcp \/ Load \/ Advance
  <2>1. ring' = ring /\ arp' = arp
    BY <1>5 DEF Read, Handle, HandleArp, HandleEcho, HandlePong, HandleAnswer,
                HandleDhcp, Dispatch, ScanSlot, ConcludeDhcp, Load, Advance, card
  <2>2. \E a : Worked(a) /\ (a.at = "arp" => Scanned(a))
    <3>1. CASE Read
      BY <3>1, ReadWorks
    <3>2. CASE Handle
      <4>1. PICK a : HandledAs(a)
        BY <3>2, HandleWorks
      <4>2. a.at = "arp" => a.slot = 1
        BY <4>1 DEF HandledAs
      <4>3. a.at = "arp" => Scanned(a)
        BY <4>2 DEF Scanned, Slots
      <4> QED BY <4>1, <4>3 DEF HandledAs
    <3>3. CASE ScanSlot \/ ConcludeDhcp \/ Load
      <4>1. PICK a : GoesOnAs(a)
        BY <3>3, LaterWorks
      <4>2. CASE a.at = "arp"
        <5>1. /\ a.slot = Top.slot + 1 /\ Top.at = "arp" /\ a.frame = Top.frame
              /\ arp[Top.slot] # Frame.host /\ Worked(a)
          BY <4>1, <4>2 DEF GoesOnAs
        <5>2. Len(stack) \in Middles(stack) /\ Top.slot \in Nat
          BY <5>1, TopPoll DEF Worked, Middle, Stacked
        <5>3. Scanned(Top)
          BY <1>3, <5>1, <5>2 DEF Top
        <5>4. Scanned(a)
          BY <5>1, <5>2, <5>3 DEF Scanned, Frame, Slots
        <5> QED BY <5>1, <5>4
      <4>3. CASE a.at # "arp"
        BY <4>1, <4>3 DEF GoesOnAs
      <4> QED BY <4>2, <4>3
    <3>4. CASE Advance
      BY <3>4, AdvanceWorks
    <3> QED BY <1>5, <3>1, <3>2, <3>3, <3>4
  <2>3. PICK a : Worked(a) /\ (a.at = "arp" => Scanned(a))
    BY <2>2
  <2> QED BY <1>2, <1>3, <2>1, <2>3, UpdateWorks
<1>6. CASE StoreSlot
  <2>1. PICK a : GoesOnAs(a)
    BY <1>6, LaterWorks
  <2>2. /\ Top.at = "arp" /\ Top.slot \notin Slots /\ ring' = ring /\ Worked(a)
        /\ arp' = [arp EXCEPT ![IF Top.free = 0 THEN 1 ELSE Top.free] = Frame.host]
        /\ stack' = Learned
    BY <1>6, <2>1 DEF StoreSlot, Polling, card, GoesOnAs
  <2>3. Len(stack) \in Middles(stack) /\ Top.slot \in Nat
    BY <2>2, TopPoll DEF Worked, Middle, Stacked
  <2>4. Scanned(Top)
    BY <1>3, <2>2, <2>3 DEF Top
  <2>5. \A j \in Slots : arp[j] # Frame.host
    <3>1. Top.slot \in Nat \ {0}
      BY <2>2, <2>3 DEF Stacked, Framed, Top
    <3>2. CacheSize \in Nat
      BY NetAssumption
    <3>3. \A j \in Slots : j < Top.slot
      BY <2>2, <3>1, <3>2 DEF Slots
    <3> QED BY <2>4, <3>3 DEF Scanned, Frame
  <2>6. Distinct'
    <3>1. PICK slot : arp' = [arp EXCEPT ![slot] = Frame.host]
      BY <2>2
    <3>2. arp' = [j \in Slots |-> IF j = slot THEN Frame.host ELSE arp[j]]
      BY <3>1
    <3> QED BY <1>3, <2>5, <3>2 DEF Distinct
  <2>7. ASSUME NEW i \in Middles(stack'), stack'[i].at = "arp"
        PROVE  FALSE
    <3>1. /\ i \in Middles(stack) \cup {Len(stack)}
          /\ stack'[i] = IF i = Len(stack) THEN a ELSE stack[i]
      BY <2>2, WorkedStack DEF Stacked
    <3>2. a.at # "arp"
      BY <1>6, <2>1, <2>2 DEF GoesOnAs, ScanSlot, Load
    <3>3. i \in Middles(stack) /\ i # Len(stack) /\ stack[i].at = "arp"
      BY <2>7, <3>1, <3>2
    <3> QED BY <1>3, <2>2, <3>3, Alone DEF Middle
  <2> QED BY <2>6, <2>7
<1> QED BY <1>4, <1>5, <1>6 DEF Works

LEMMA CachedInit == Init => Cached
BY DEF Init, Cached, Distinct, Slots, Middles

\* An ARP update makes no second entry for an address, whatever entries expire
\* while it looks for its slot, as long as no poll takes a frame in the middle
\* of one (arp_cache_update).
THEOREM EntriesUnique == Spec => []OneEntryPerAddress
<1>1. Init => Received /\ Stacked /\ Cached
  BY ReceivedInit, StackedInit, CachedInit
<1>2. Received /\ Stacked /\ Cached /\ [Next]_vars => (Received /\ Stacked /\ Cached)'
  BY ReceivedStep, StackedStep, CachedStep
<1>3. Cached => OneEntryPerAddress
  BY DEF Cached, Distinct, OneEntryPerAddress
<1> QED BY <1>1, <1>2, <1>3, PTL DEF Spec

-----------------------------------------------------------------------------
(* Sockets and the task. *)

DnsTyped == dns = [name |-> dns.name, id |-> dns.id, ok |-> dns.ok, ip |-> dns.ip]

\* Each step of a request has at most the socket of that request open.
SocketsOf ==
    /\ pc \in {"boot", "idle", "pingSend", "ping", "pingEnd"} => udp = {}
    /\ pc \in {"offer", "offerEnd", "request", "requestEnd"} => udp \subseteq {DhcpSocket}
    /\ pc \in {"dnsSend", "dns", "dnsEnd"} => udp \subseteq {DnsSocket(dns.id)}
    /\ pc \in {"boot", "idle", "pingSend", "ping", "pingEnd", "offer", "offerEnd", "request",
               "requestEnd", "dnsSend", "dns", "dnsEnd"}

Sockets == DnsTyped /\ SocketsOf

LEMMA SocketsTouched ==
    ASSUME [Next]_vars
    PROVE  HandleAnswer \/ Task \/ UNCHANGED <<pc, udp, dns>>
<1>1. ASSUME Arrive \/ Tick \/ Interrupt \/ ResolvePoll \/ ResolveLook \/ ResolveExpired
             \/ PollEmpty \/ Read \/ ScanSlot \/ StoreSlot \/ ConcludeDhcp \/ Load \/ Advance
      PROVE  UNCHANGED <<pc, udp, dns>>
  BY <1>1 DEF Arrive, Tick, Interrupt, ResolvePoll, ResolveLook, ResolveExpired, PollEmpty,
              Read, ScanSlot, StoreSlot, ConcludeDhcp, Load, Advance, task, clients
<1>2. ASSUME HandleArp \/ HandleEcho \/ HandlePong \/ HandleDhcp
      PROVE  UNCHANGED <<pc, udp, dns>>
  BY <1>2 DEF HandleArp, HandleEcho, HandlePong, HandleDhcp, Dispatch, task
<1>3. CASE UNCHANGED vars
  BY <1>3 DEF vars, task, clients
<1> QED BY <1>1, <1>2, <1>3 DEF Next, Handle

LEMMA SocketsStep ==
    ASSUME Sockets, [Next]_vars
    PROVE  Sockets'
<1> USE DEF Sockets, DnsTyped
<1>1. CASE UNCHANGED <<pc, udp, dns>>
  BY <1>1 DEF SocketsOf
<1>2. CASE HandleAnswer
  <2>1. UNCHANGED <<pc, udp>> /\ dns'.id = dns.id /\ DnsTyped'
    BY <1>2 DEF HandleAnswer, Dispatch, task
  <2> QED BY <2>1 DEF SocketsOf, DnsSocket
<1>3. CASE Task
  <2>1. CASE IdlePoll \/ WaitPoll
    BY <2>1 DEF IdlePoll, WaitPoll, task, clients, SocketsOf
  <2>2. CASE WaitLook \/ WaitExpired
    <3>1. UNCHANGED <<udp, dns>> /\ pc \in Waits /\ pc' \in {pc, After[pc]}
      BY <2>2 DEF WaitLook, WaitExpired, TaskAt, Goto, clients
    <3> QED BY <3>1 DEF SocketsOf, Waits, After
  <2>3. CASE DhcpDiscover
    BY <2>3 DEF DhcpDiscover, DhcpFails, Finish, Goto, TaskAt, SocketsOf
  <2>4. CASE DhcpRequest
    BY <2>4 DEF DhcpRequest, DhcpFails, Finish, Goto, TaskAt, SocketsOf
  <2>5. CASE DhcpBind
    BY <2>5 DEF DhcpBind, Finish, Goto, TaskAt, SocketsOf
  <2>6. ASSUME NEW n \in Names, DnsStart(n) PROVE Sockets'
    BY <2>6 DEF DnsStart, Goto, TaskAt, SocketsOf
  <2>7. CASE DnsSent
    BY <2>7 DEF DnsSent, Finish, Goto, TaskAt, SocketsOf, clients
  <2>8. CASE DnsEnd
    BY <2>8 DEF DnsEnd, Finish, Goto, TaskAt, SocketsOf
  <2>9. ASSUME NEW h \in Hosts, PingStart(h) PROVE Sockets'
    BY <2>9 DEF PingStart, Goto, TaskAt, SocketsOf
  <2>10. CASE PingSent \/ PingEnd
    BY <2>10 DEF PingSent, PingEnd, Finish, Goto, TaskAt, SocketsOf, clients
  <2> QED BY <1>3, <2>1, <2>2, <2>3, <2>4, <2>5, <2>6, <2>7, <2>8, <2>9, <2>10 DEF Task
<1> QED BY <1>1, <1>2, <1>3, SocketsTouched

LEMMA SocketsInit == Init => Sockets
BY DEF Init, Sockets, DnsTyped, SocketsOf, Fresh, Leased

\* Whichever way requests end - refused, answered or out of time - none leaves
\* its UDP socket behind (dns_resolve, dhcp_request).
THEOREM SocketsClosed == Spec => []NoSocketLeft
<1>1. Init => Sockets
  BY SocketsInit
<1>2. Sockets /\ [Next]_vars => Sockets'
  BY SocketsStep
<1>3. Sockets => NoSocketLeft
  BY DEF Sockets, SocketsOf, NoSocketLeft
<1> QED BY <1>1, <1>2, <1>3, PTL DEF Spec

-----------------------------------------------------------------------------
(* The lease. *)

DhcpStates == {"idle", "discover", "offered", "request", "bound", "failed"}

LeaseTyped ==
    /\ dhcp \in [state : DhcpStates, offer : Maybe(Servers),
                 options : [Options -> Maybe(Servers)], ack : Maybe(Servers)]
    /\ iface \in [up : BOOLEAN, ip : Maybe(Servers),
                  options : [Options \ {"server"} -> Maybe(Servers)]]
    /\ requested \subseteq Servers

\* The options that a server's ACK carries are its own.
Owned(s) == \A o \in Carries[s]["ack"] : dhcp.options[o] = s

\* The options are those of the ACK that was taken last, unless another message
\* has been taken since and its type is still to be looked at.
Bound ==
    /\ dhcp.state = "bound" /\ (\A i \in Middles(stack) : stack[i].at # "dhcp") =>
          dhcp.ack \in requested /\ Owned(dhcp.ack)
    /\ \A i \in Middles(stack) :
          stack[i].at = "dhcp" /\ ring[stack[i].frame].kind = "ack" =>
              Owned(ring[stack[i].frame].server)

Lease == LeaseTyped /\ LeaseFromOneServer /\ ("dhcp" \notin nested => Bound)

LEMMA TakenTyped ==
    ASSUME NEW options \in [Options -> Maybe(Servers)], NEW k \in {"offer", "ack", "nak"},
           NEW s \in Servers
    PROVE  /\ Taken(options, k, s) \in [Options -> Maybe(Servers)]
           /\ \A o \in Carries[s][k] : Taken(options, k, s)[o] = s
<1>1. Carries[s][k] \subseteq Options
  BY NetAssumption
<1> QED BY <1>1 DEF Taken, Maybe

LEMMA ConfiguredTyped ==
    ASSUME NEW options \in [Options -> Maybe(Servers)]
    PROVE  /\ Configured(options) \in [Options \ {"server"} -> Maybe(Servers)]
           /\ \A o \in Options \ {"server"} : Configured(options)[o] = options[o]
BY DEF Configured

LEMMA LeaseTouched ==
    ASSUME [Next]_vars
    PROVE  \/ HandleDhcp \/ ConcludeDhcp \/ DhcpDiscover \/ DhcpRequest \/ DhcpBind
           \/ UNCHANGED <<dhcp, iface, requested>>
<1>1. ASSUME Arrive \/ Tick \/ Interrupt \/ ResolvePoll \/ ResolveLook \/ ResolveExpired
             \/ PollEmpty \/ Read \/ ScanSlot \/ StoreSlot \/ Load \/ Advance
      PROVE  UNCHANGED <<dhcp, iface, requested>>
  BY <1>1 DEF Arrive, Tick, Interrupt, ResolvePoll, ResolveLook, ResolveExpired, PollEmpty,
              Read, ScanSlot, StoreSlot, Load, Advance, clients, network, Transmit
<1>2. ASSUME HandleArp \/ HandleEcho \/ HandlePong \/ HandleAnswer
      PROVE  UNCHANGED <<dhcp, iface, requested>>
  BY <1>2 DEF HandleArp, HandleEcho, HandlePong, HandleAnswer, Dispatch, Send, Transmit, network
<1>3. ASSUME IdlePoll \/ WaitPoll \/ WaitLook \/ WaitExpired
             \/ (\E n \in Names : DnsStart(n)) \/ DnsSent \/ DnsEnd
             \/ (\E h \in Hosts : PingStart(h)) \/ PingSent \/ PingEnd
      PROVE  UNCHANGED <<dhcp, iface, requested>>
  BY <1>3 DEF IdlePoll, WaitPoll, WaitLook, WaitExpired, DnsStart, DnsSent, DnsEnd, PingStart,
              PingSent, PingEnd, clients, network, Send, Transmit
<1>4. CASE UNCHANGED vars
  BY <1>4 DEF vars, clients, network
<1> QED BY <1>1, <1>2, <1>3, <1>4 DEF Next, Handle, Task

\* A message in the middle of its handling is of a server, one that was asked
\* if it is an ACK.
LEMMA MessageSent ==
    ASSUME Received, Stacked, LeaseTyped, NEW f \in 1 .. Len(ring),
           ring[f].kind \in {"offer", "ack", "nak"}
    PROVE  ring[f].server \in Servers /\ (ring[f].kind # "offer" => ring[f].server \in requested)
<1>1. ring[f] \in Sent
  BY DEF Received
<1> QED BY <1>1 DEF Sent, LeaseTyped

LEMMA LeaseTypedStep ==
    ASSUME Received, Stacked, LeaseTyped, [Next]_vars
    PROVE  LeaseTyped'
<1> DEFINE DT == [state : DhcpStates, offer : Maybe(Servers),
                  options : [Options -> Maybe(Servers)], ack : Maybe(Servers)]
<1>0. dhcp \in DT
  BY DEF LeaseTyped
<1>1. CASE HandleDhcp
  <2>1. /\ stack # <<>> /\ Top.at = "frame" /\ Frame.kind \in {"offer", "ack", "nak"}
        /\ UNCHANGED <<iface, requested>>
        /\ dhcp' \in {dhcp, [dhcp EXCEPT !.options = Taken(@, Frame.kind, Frame.server)]}
    BY <1>1 DEF HandleDhcp, Dispatch, Polling, network
  <2>2. Frame.server \in Servers
    BY <2>1, FrameSent, MessageSent DEF Frame
  <2>3. Taken(dhcp.options, Frame.kind, Frame.server) \in [Options -> Maybe(Servers)]
    BY <1>0, <2>1, <2>2, TakenTyped
  <2>4. dhcp' \in DT
    BY <1>0, <2>1, <2>3
  <2> QED BY <2>1, <2>4 DEF LeaseTyped
<1>2. CASE ConcludeDhcp
  <2>1. /\ stack # <<>> /\ Top.at = "dhcp" /\ UNCHANGED <<iface, requested>>
        /\ dhcp' = DhcpTakes(Frame)
    BY <1>2 DEF ConcludeDhcp, Polling, network
  <2>2. Frame.server \in Maybe(Servers) /\ Frame.kind \in {"offer", "ack", "nak"}
    BY <2>1, FrameSent, MessageSent DEF Frame, Maybe
  <2>3. dhcp' \in DT
    <3>1. CASE Frame.kind = "offer"
      BY <1>0, <2>1, <2>2, <3>1 DEF DhcpTakes, DhcpStates
    <3>2. CASE Frame.kind = "ack"
      BY <1>0, <2>1, <2>2, <3>2 DEF DhcpTakes, DhcpStates
    <3>3. CASE Frame.kind = "nak"
      BY <1>0, <2>1, <2>2, <3>3 DEF DhcpTakes, DhcpStates
    <3> QED BY <2>2, <3>1, <3>2, <3>3
  <2> QED BY <2>1, <2>3 DEF LeaseTyped
<1>3. CASE DhcpDiscover \/ DhcpRequest
  <2>1. /\ iface' = iface
        /\ dhcp' \in {[dhcp EXCEPT !.state = s] : s \in {"discover", "request", "failed"}}
        /\ requested' \subseteq requested \cup ({dhcp.options["server"]} \ {NoHost})
    BY <1>3 DEF DhcpDiscover, DhcpRequest, DhcpFails, network
  <2>2. dhcp.options["server"] \in Maybe(Servers)
    BY <1>0, NetAssumption
  <2>3. dhcp' \in DT
    BY <1>0, <2>1 DEF DhcpStates
  <2> QED BY <2>1, <2>2, <2>3 DEF LeaseTyped, Maybe
<1>4. CASE DhcpBind
  <2>1. /\ UNCHANGED <<dhcp, requested>>
        /\ iface' \in {iface, [up |-> TRUE, ip |-> dhcp.ack, options |-> Configured(dhcp.options)]}
    BY <1>4 DEF DhcpBind, network
  <2>2. Configured(dhcp.options) \in [Options \ {"server"} -> Maybe(Servers)]
        /\ dhcp.ack \in Maybe(Servers)
    BY <1>0, ConfiguredTyped
  <2> DEFINE IT == [up : BOOLEAN, ip : Maybe(Servers),
                    options : [Options \ {"server"} -> Maybe(Servers)]]
             all == Configured(dhcp.options)
  <2>3. iface' \in IT
    <3> HIDE DEF all
    <3>1. [up |-> TRUE, ip |-> dhcp.ack, options |-> all] \in IT
      BY <2>2 DEF all
    <3>2. iface \in IT
      BY DEF LeaseTyped
    <3> QED BY <2>1, <3>1, <3>2 DEF all
  <2> QED BY <1>0, <2>1, <2>3 DEF LeaseTyped
<1>5. CASE UNCHANGED <<dhcp, iface, requested>>
  BY <1>5 DEF LeaseTyped
<1> QED BY <1>1, <1>2, <1>3, <1>4, <1>5, LeaseTouched

\* Steps that leave the lease alone and take no message.
LEMMA LeaseQuiet ==
    ASSUME Stacked, Received, Bound, "dhcp" \notin nested, UNCHANGED <<dhcp, requested>>,
           \A f \in 1 .. Len(ring) : ring'[f] = ring[f],
           \A i \in Middles(stack') : stack'[i].at = "dhcp" =>
               i \in Middles(stack) /\ stack'[i] = stack[i],
           \A i \in Middles(stack) : stack[i].at = "dhcp" =>
               i \in Middles(stack') /\ stack'[i] = stack[i]
    PROVE  Bound'
<1>1. ASSUME dhcp'.state = "bound", \A i \in Middles(stack') : stack'[i].at # "dhcp"
      PROVE  dhcp'.ack \in requested' /\ Owned(dhcp.ack)'
  <2>1. \A i \in Middles(stack) : stack[i].at # "dhcp"
    BY <1>1
  <2> QED BY <1>1, <2>1 DEF Bound, Owned
<1>2. ASSUME NEW i \in Middles(stack'), stack'[i].at = "dhcp",
             ring'[stack'[i].frame].kind = "ack"
      PROVE  Owned(ring[stack[i].frame].server)'
  <2>1. i \in Middles(stack) /\ stack'[i] = stack[i]
    BY <1>2
  <2>2. stack[i].frame \in 1 .. Len(ring)
    BY <1>2, <2>1 DEF Stacked, Framed
  <2> QED BY <1>2, <2>1, <2>2 DEF Bound, Owned
<1> QED BY <1>1, <1>2 DEF Bound

LEMMA BoundStep ==
    ASSUME Received, Stacked, LeaseTyped, "dhcp" \notin nested => Bound, [Next]_vars,
           "dhcp" \notin nested'
    PROVE  Bound'
<1>0. nested \subseteq nested'
  BY OthersAlike DEF Works, Read, Handle, HandleArp, HandleEcho, HandlePong, HandleAnswer,
         HandleDhcp, Dispatch, ScanSlot, StoreSlot, ConcludeDhcp, Load, Advance, card
<1>1. "dhcp" \notin nested /\ Bound
  BY <1>0
<1>2. ASSUME UNCHANGED <<dhcp, requested, ring>>, NEW a, Worked(a),
             a.at # "dhcp", Top.at # "dhcp"
      PROVE  Bound'
  <2>1. /\ \A i \in Middles(stack') : stack'[i] = IF i = Len(stack) THEN a ELSE stack[i]
        /\ Middles(stack') \subseteq Middles(stack) \cup {Len(stack)}
        /\ Middles(stack) \ {Len(stack)} \subseteq Middles(stack')
    BY <1>2, WorkedStack DEF Stacked
  <2>2. \A i \in Middles(stack') : stack'[i].at = "dhcp" =>
            i \in Middles(stack) /\ stack'[i] = stack[i]
    BY <1>2, <2>1
  <2>3. \A i \in Middles(stack) : stack[i].at = "dhcp" =>
            i \in Middles(stack') /\ stack'[i] = stack[i]
    BY <1>2, <2>1 DEF Top
  <2> QED BY <1>1, <1>2, <2>2, <2>3, LeaseQuiet
<1>3. CASE ~Works /\ ~(DhcpDiscover \/ DhcpRequest)
  <2>1. Alike(stack, stack') /\ RingGrown
    BY <1>3, OthersAlike
  <2>2. UNCHANGED <<dhcp, requested>>
    BY <1>3, LeaseTouched DEF Works, Handle, DhcpBind, network
  <2>3. \A i \in Middles(stack) : i \in Middles(stack') /\ stack'[i] = stack[i]
    BY <2>1 DEF Alike
  <2>4. \A i \in Middles(stack') : i \in Middles(stack)
    BY <2>1 DEF Alike
  <2> QED BY <1>1, <2>1, <2>2, <2>3, <2>4, LeaseQuiet DEF RingGrown
<1>4. CASE DhcpDiscover \/ DhcpRequest
  <2>1. dhcp'.state # "bound" /\ stack' = <<>>
    <3>1. dhcp' \in {[dhcp EXCEPT !.state = s] : s \in {"discover", "request", "failed"}}
      BY <1>4 DEF DhcpDiscover, DhcpRequest, DhcpFails
    <3>2. stack' = <<>>
      BY <1>4 DEF DhcpDiscover, DhcpRequest, DhcpFails, TaskAt
    <3> QED BY <3>1, <3>2 DEF LeaseTyped
  <2>2. Middles(stack') = {}
    BY <2>1 DEF Middles
  <2> QED BY <2>1, <2>2 DEF Bound
<1>5. CASE Read
  <2>1. UNCHANGED <<dhcp, requested, ring>>
    BY <1>5 DEF Read, clients, network
  <2> QED BY <1>2, <1>5, <2>1, ReadWorks
<1>6. CASE Advance
  <2>1. UNCHANGED <<dhcp, requested, ring>>
    BY <1>6 DEF Advance, clients, network
  <2> QED BY <1>2, <1>6, <2>1, AdvanceWorks
<1>7. CASE ScanSlot \/ StoreSlot \/ Load
  <2>1. UNCHANGED <<dhcp, requested, ring>> /\ stack # <<>> /\ Top.at # "dhcp"
    BY <1>7 DEF ScanSlot, StoreSlot, Load, Polling, clients, network, card
  <2>2. PICK a : GoesOnAs(a)
    BY <1>7, LaterWorks
  <2>3. Worked(a) /\ a.at # "dhcp"
    BY <2>2 DEF GoesOnAs
  <2> QED BY <1>2, <2>1, <2>3
<1>8. CASE Handle
  <2>1. PICK a : HandledAs(a)
    BY <1>8, HandleWorks
  <2>2. Worked(a) /\ Top.at = "frame" /\ a.frame = Top.frame
    BY <2>1 DEF HandledAs
  <2>3. ring' = ring /\ requested' = requested
    <3>1. CASE HandleDhcp
      BY <3>1 DEF HandleDhcp, Dispatch, network
    <3>2. CASE ~HandleDhcp
      BY <1>8, <3>2 DEF Handle, HandleArp, HandleEcho, HandlePong, HandleAnswer, Dispatch,
                        Send, Transmit, network
    <3> QED BY <3>1, <3>2
  <2>4. CASE a.at # "dhcp"
    <3>1. dhcp' = dhcp
      <4>1. CASE ~HandleDhcp
        BY <1>8, <4>1 DEF Handle, HandleArp, HandleEcho, HandlePong, HandleAnswer
      <4>2. CASE HandleDhcp
        <5>1. ~HandleArp
          BY <4>2 DEF HandleDhcp, HandleArp, Dispatch
        <5> QED BY <2>1, <2>4, <4>2, <5>1 DEF HandledAs
      <4> QED BY <4>1, <4>2
    <3> QED BY <1>2, <2>2, <2>3, <2>4, <3>1
  <2>5. CASE a.at = "dhcp"
    <3>1. HandleDhcp /\ DhcpSocket \in udp /\ Frame.kind \in {"offer", "ack", "nak"}
      BY <2>1, <2>5 DEF HandledAs
    <3>2. dhcp' = [dhcp EXCEPT !.options = Taken(@, Frame.kind, Frame.server)]
      BY <3>1 DEF HandleDhcp
    <3>3. Frame.server \in Servers
      BY <2>2, <3>1, FrameSent, MessageSent DEF Frame, Worked
    <3>4. \A o \in Carries[Frame.server][Frame.kind] : dhcp'.options[o] = Frame.server
      BY <3>1, <3>2, <3>3, TakenTyped DEF LeaseTyped
    <3>5. /\ Len(stack) \in Middles(stack') /\ stack'[Len(stack)] = a
          /\ \A i \in Middles(stack') : stack'[i] = IF i = Len(stack) THEN a ELSE stack[i]
          /\ Middles(stack') \subseteq Middles(stack) \cup {Len(stack)}
      BY <2>2, <2>5, WorkedStack DEF Stacked, Middle
    <3>6. ASSUME NEW i \in Middles(stack'), stack'[i].at = "dhcp"
          PROVE  i = Len(stack)
      <4>1. CASE i # Len(stack)
        <5>1. i \in Middles(stack) /\ stack[i].at = "dhcp"
          BY <3>5, <3>6, <4>1
        <5> QED BY <1>1, <2>2, <5>1, Alone DEF Middle
      <4> QED BY <4>1
    <3>7. ASSUME NEW i \in Middles(stack'), stack'[i].at = "dhcp",
                 ring'[stack'[i].frame].kind = "ack"
          PROVE  Owned(ring[stack[i].frame].server)'
      <4>1. ring'[stack'[i].frame] = Frame
        BY <2>2, <2>3, <3>5, <3>6, <3>7 DEF Frame
      <4> QED BY <3>4, <3>7, <4>1 DEF Owned
    <3> QED BY <2>5, <3>5, <3>7 DEF Bound
  <2> QED BY <2>4, <2>5
<1>9. CASE ConcludeDhcp
  <2>1. PICK a : GoesOnAs(a)
    BY <1>9, LaterWorks
  <2>2. Worked(a) /\ a.at # "dhcp" /\ Top.at = "dhcp"
    BY <1>9, <2>1 DEF GoesOnAs
  <2>3. UNCHANGED <<ring, requested>> /\ dhcp' = DhcpTakes(Frame)
    BY <1>9 DEF ConcludeDhcp, card, network
  <2>4. ASSUME NEW i \in Middles(stack'), stack'[i].at = "dhcp"
        PROVE  FALSE
    <3>1. /\ i \in Middles(stack) \cup {Len(stack)}
          /\ stack'[i] = IF i = Len(stack) THEN a ELSE stack[i]
      BY <2>2, WorkedStack DEF Stacked
    <3>2. i \in Middles(stack) /\ i # Len(stack) /\ stack[i].at = "dhcp"
      BY <2>2, <2>4, <3>1
    <3> QED BY <1>1, <2>2, <3>2, Alone DEF Middle
  <2>5. Top.frame \in 1 .. Len(ring) /\ Frame.kind \in {"offer", "ack", "nak"}
    BY <2>2, FrameSent DEF Worked
  <2>6. Len(stack) \in Middles(stack)
    BY <2>2, TopPoll DEF Worked, Middle, Stacked
  <2>7. ASSUME dhcp'.state = "bound"
        PROVE  dhcp'.ack \in requested' /\ Owned(dhcp.ack)'
    <3>1. Frame.kind = "ack"
      BY <2>3, <2>5, <2>7 DEF DhcpTakes, LeaseTyped
    <3>2. dhcp' = [dhcp EXCEPT !.ack = Frame.server, !.state = "bound"]
      BY <2>3, <3>1 DEF DhcpTakes
    <3>3. dhcp'.ack = Frame.server /\ dhcp'.options = dhcp.options
      BY <3>2 DEF LeaseTyped
    <3>4. Frame.server \in requested
      BY <2>5, <3>1, MessageSent DEF Frame
    <3>5. Owned(Frame.server)
      BY <1>1, <2>2, <2>6, <3>1 DEF Bound, Top, Frame
    <3> QED BY <2>3, <3>3, <3>4, <3>5 DEF Owned
  <2> QED BY <2>4, <2>7 DEF Bound
<1> QED BY <1>3, <1>4, <1>5, <1>6, <1>7, <1>8, <1>9 DEF Works

LEMMA LeaseStep ==
    ASSUME Received, Stacked, Lease, [Next]_vars
    PROVE  Lease'
<1>0. requested \subseteq requested' /\ LeaseTyped'
  BY ReceivedStep, LeaseTypedStep DEF Lease
<1>1. nested \subseteq nested'
  BY OthersAlike DEF Works, Read, Handle, HandleArp, HandleEcho, HandlePong, HandleAnswer,
         HandleDhcp, Dispatch, ScanSlot, StoreSlot, ConcludeDhcp, Load, Advance, card
<1>2. "dhcp" \notin nested' => Bound'
  BY BoundStep DEF Lease
<1>3. LeaseFromOneServer'
  <2>1. CASE iface' = iface
    BY <1>0, <1>1, <2>1 DEF Lease, LeaseFromOneServer
  <2>2. CASE DhcpBind /\ dhcp.state = "bound" /\ "dhcp" \notin nested'
    <3>1. /\ iface' = [up |-> TRUE, ip |-> dhcp.ack, options |-> Configured(dhcp.options)]
          /\ stack = <<>>
      BY <2>2 DEF DhcpBind, TaskAt
    <3>2. Middles(stack) = {}
      BY <3>1 DEF Middles
    <3>3. dhcp.ack \in requested /\ Owned(dhcp.ack)
      BY <1>1, <2>2, <3>2 DEF Lease, Bound
    <3>4. Carries[dhcp.ack]["ack"] \subseteq Options
      BY <3>3, NetAssumption DEF Lease, LeaseTyped
    <3>5. \A o \in Carries[dhcp.ack]["ack"] \ {"server"} : iface'.options[o] = dhcp.ack
      BY <3>1, <3>3, <3>4, ConfiguredTyped DEF Owned, Lease, LeaseTyped
    <3> QED BY <1>0, <3>1, <3>3, <3>5 DEF LeaseFromOneServer
  <2>3. CASE "dhcp" \in nested'
    BY <2>3 DEF LeaseFromOneServer
  <2> QED BY <2>1, <2>2, <2>3, LeaseTouched DEF HandleDhcp, ConcludeDhcp, Dispatch, DhcpDiscover,
             DhcpRequest, DhcpFails, DhcpBind
<1> QED BY <1>0, <1>2, <1>3 DEF Lease

LEMMA LeaseInit == Init => Lease
<1> SUFFICES ASSUME Init PROVE Lease
  OBVIOUS
<1>1. stack = <<>> /\ Middles(stack) = {}
  BY DEF Init, Middles
<1>2. NoOptions \in [Options -> Maybe(Servers)]
  BY DEF NoOptions, Maybe
<1>3. PICK b \in Fresh \cup UNION {Leased(s) : s \in Servers} :
          dhcp = b.dhcp /\ iface = b.iface /\ requested = b.requested
  BY DEF Init
<1>4. CASE b \in Fresh
  <2>1. /\ dhcp = [state |-> "idle", offer |-> NoHost, options |-> NoOptions, ack |-> NoHost]
        /\ iface = [up |-> FALSE, ip |-> NoHost, options |-> Configured(NoOptions)]
        /\ requested = {}
    BY <1>3, <1>4 DEF Fresh
  <2>2. LeaseTyped
    BY <1>2, <2>1, ConfiguredTyped DEF LeaseTyped, DhcpStates, Maybe
  <2> QED BY <1>1, <2>1, <2>2 DEF Lease, LeaseFromOneServer, Bound
<1>5. ASSUME NEW s \in Servers, b \in Leased(s)
      PROVE  Lease
  <2> DEFINE all == Taken(Taken(NoOptions, "offer", s), "ack", s)
  <2>1. /\ dhcp = [state |-> "bound", offer |-> s, options |-> all, ack |-> s]
        /\ iface = [up |-> TRUE, ip |-> s, options |-> Configured(all)]
        /\ requested = {s}
    BY <1>3, <1>5 DEF Leased
  <2>2. Taken(NoOptions, "offer", s) \in [Options -> Maybe(Servers)]
    BY <1>2, TakenTyped
  <2>3. /\ all \in [Options -> Maybe(Servers)]
        /\ \A o \in Carries[s]["ack"] : all[o] = s
    BY <2>2, TakenTyped
  <2> HIDE DEF all
  <2>4. Carries[s]["ack"] \subseteq Options
    BY NetAssumption
  <2>5. LeaseTyped
    BY <2>1, <2>3, ConfiguredTyped DEF LeaseTyped, DhcpStates, Maybe
  <2>6. Bound
    BY <1>1, <2>1, <2>3 DEF Bound, Owned
  <2>7. LeaseFromOneServer
    BY <2>1, <2>3, <2>4, ConfiguredTyped DEF LeaseFromOneServer
  <2> QED BY <2>5, <2>6, <2>7 DEF Lease
<1> QED BY <1>4, <1>5

\* However messages of several servers meet, an interface that is up has its
\* address from a server that was asked and all that this server's ACK carries
\* from it too, as long as no poll takes a frame in the middle of a message
\* (dhcp_request, dhcp_receive).
THEOREM OneServer == Spec => []LeaseFromOneServer
<1>1. Init => Received /\ Stacked /\ Lease
  BY ReceivedInit, StackedInit, LeaseInit
<1>2. Received /\ Stacked /\ Lease /\ [Next]_vars => (Received /\ Stacked /\ Lease)'
  BY ReceivedStep, StackedStep, LeaseStep
<1>3. Lease => LeaseFromOneServer
  BY DEF Lease
<1> QED BY <1>1, <1>2, <1>3, PTL DEF Spec

-----------------------------------------------------------------------------
(* Answers. *)

\* An answer was asked for at the tick of the query it is kept for.
Matching ==
    /\ dns.ok => [name |-> dns.ip, id |-> dns.id] \in asked
    /\ cache = [n \in Names |-> cache[n]]
    /\ \A n \in Names : cache[n].ip # NoHost => [name |-> cache[n].ip, id |-> cache[n].at] \in asked

Answered == DnsTyped /\ Matching

LEMMA AnswersTouched ==
    ASSUME [Next]_vars
    PROVE  \/ Tick \/ HandleAnswer \/ (\E n \in Names : DnsStart(n)) \/ DnsEnd
           \/ UNCHANGED <<dns, cache>>
<1>1. ASSUME Arrive \/ Interrupt \/ ResolvePoll \/ ResolveLook \/ ResolveExpired
             \/ PollEmpty \/ Read \/ ScanSlot \/ StoreSlot \/ ConcludeDhcp \/ Load \/ Advance
      PROVE  UNCHANGED <<dns, cache>>
  BY <1>1 DEF Arrive, Interrupt, ResolvePoll, ResolveLook, ResolveExpired, PollEmpty,
              Read, ScanSlot, StoreSlot, ConcludeDhcp, Load, Advance, clients
<1>2. ASSUME HandleArp \/ HandleEcho \/ HandlePong \/ HandleDhcp
      PROVE  UNCHANGED <<dns, cache>>
  BY <1>2 DEF HandleArp, HandleEcho, HandlePong, HandleDhcp
<1>3. ASSUME IdlePoll \/ WaitPoll \/ WaitLook \/ WaitExpired
             \/ DhcpDiscover \/ DhcpRequest \/ DhcpBind \/ DnsSent
             \/ (\E h \in Hosts : PingStart(h)) \/ PingSent \/ PingEnd
      PROVE  UNCHANGED <<dns, cache>>
  BY <1>3 DEF IdlePoll, WaitPoll, WaitLook, WaitExpired, DhcpDiscover, DhcpRequest, DhcpFails,
              DhcpBind, DnsSent, PingStart, PingSent, PingEnd, clients
<1>4. CASE UNCHANGED vars
  BY <1>4 DEF vars, clients
<1> QED BY <1>1, <1>2, <1>3, <1>4 DEF Next, Handle, Task

LEMMA AnsweredStep ==
    ASSUME Stacked, Received, Answered, [Next]_vars
    PROVE  Answered'
<1> USE DEF Answered, DnsTyped
<1>0. asked \subseteq asked'
  BY ReceivedStep
<1>1. CASE UNCHANGED <<dns, cache>>
  BY <1>0, <1>1 DEF Matching
<1>2. CASE Tick
  <2>1. PICK old \in SUBSET Names :
            cache' = [n \in Names |-> IF n \in old THEN NotCached ELSE cache[n]]
    BY <1>2 DEF Tick
  <2>2. dns' = dns
    BY <1>2 DEF Tick
  <2> QED BY <1>0, <2>1, <2>2 DEF Matching, NotCached
<1>3. CASE HandleAnswer
  <2>1. Frame \in Sent /\ Frame.kind = "answer"
    BY <1>3, FrameSent DEF HandleAnswer, Dispatch, Polling
  <2>2. Frame.query \in asked /\ asked \subseteq Queries
    BY <2>1 DEF Sent, Received
  <2>3. cache' = cache
    BY <1>3 DEF HandleAnswer
  <2>4. CASE ~Answers(Frame.query)
    BY <1>0, <1>3, <2>3, <2>4 DEF HandleAnswer, Matching
  <2>5. CASE Answers(Frame.query)
    <3>1. dns' = [name |-> dns.name, id |-> dns.id, ok |-> TRUE, ip |-> Frame.query.name]
      BY <1>3, <2>5 DEF HandleAnswer
    <3>2. [name |-> Frame.query.name, id |-> dns.id] = Frame.query
      BY <2>2, <2>5 DEF Answers, Queries
    <3> QED BY <1>0, <2>2, <2>3, <3>1, <3>2 DEF Matching
  <2> QED BY <2>4, <2>5
<1>4. ASSUME NEW n \in Names, DnsStart(n)
      PROVE  Answered'
  BY <1>0, <1>4 DEF DnsStart, Matching
<1>5. CASE DnsEnd
  <2>1. /\ dns' = dns
        /\ cache' = IF dns.ok THEN [cache EXCEPT ![dns.name] = [ip |-> dns.ip, at |-> dns.id]]
                              ELSE cache
    BY <1>5 DEF DnsEnd
  <2> QED BY <1>0, <2>1 DEF Matching
<1> QED BY <1>1, <1>2, <1>3, <1>4, <1>5, AnswersTouched

LEMMA AnsweredInit == Init => Answered
BY DEF Init, Answered, DnsTyped, Matching, NotCached

\* The cache never holds the address of another name than it is asked for,
\* unless that one was asked for at the same tick, whatever answers come late
\* or twice (dns_resolve, dns_receive).
THEOREM AnswersBelong == Spec => []AnswersMatch
<1>1. Init => Received /\ Stacked /\ Answered
  BY ReceivedInit, StackedInit, AnsweredInit
<1>2. Received /\ Stacked /\ Answered /\ [Next]_vars => (Received /\ Stacked /\ Answered)'
  BY ReceivedStep, StackedStep, AnsweredStep
<1>3. Answered => AnswersMatch
  BY DEF Answered, Matching, AnswersMatch
<1> QED BY <1>1, <1>2, <1>3, PTL DEF Spec

-----------------------------------------------------------------------------
(* Frames are dispatched once and in order. *)

\* Before the pointer each frame has been dispatched once, and so has the frame
\* at the pointer once a poll has handed it on.
HandedOn == \E i \in Middles(stack) : stack[i].at # "frame"

Dispatched ==
    /\ rxPtr <= Len(ring) + 1
    /\ \A i \in Middles(stack) : stack[i].frame = rxPtr /\ rxPtr <= Len(ring)
    /\ \A f \in 1 .. MaxFrames :
          count[f] = IF f < rxPtr \/ (f = rxPtr /\ HandedOn) THEN 1 ELSE 0

Once ==
    /\ count = [f \in 1 .. MaxFrames |-> count[f]]
    /\ nested = {} => Dispatched

\* The only poll in the middle of a frame becomes a.
LEMMA OnlyOne ==
    ASSUME Stacked, NEW a, Worked(a), Top.at \in Middle, nested = {}
    PROVE  /\ Middles(stack) = {Len(stack)} /\ Top = stack[Len(stack)]
           /\ Middles(stack') = IF a.at \in Middle THEN {Len(stack)} ELSE {}
           /\ a.at \in Middle => stack'[Len(stack)] = a
<1>1. Len(stack) \in Middles(stack)
  BY TopPoll DEF Worked, Stacked
<1>2. \A i \in Middles(stack) : i = Len(stack)
  BY Alone
<1>3. /\ Middles(stack') = IF a.at \in Middle THEN Middles(stack) \cup {Len(stack)}
                                              ELSE Middles(stack) \ {Len(stack)}
      /\ \A i \in Middles(stack') : stack'[i] = IF i = Len(stack) THEN a ELSE stack[i]
  BY WorkedStack DEF Stacked
<1> QED BY <1>1, <1>2, <1>3 DEF Top

LEMMA OnceStep ==
    ASSUME Once, Stacked, Received, [Next]_vars
    PROVE  Once'
<1>1. count' = [f \in 1 .. MaxFrames |-> count'[f]]
  <2>1. CASE Handle
    <3>1. PICK f : count' = [count EXCEPT ![f] = @ + 1]
      BY <2>1 DEF Handle, HandleArp, HandleEcho, HandlePong, HandleAnswer, HandleDhcp, Dispatch
    <3> QED BY <3>1 DEF Once
  <2>2. CASE ~Handle
    <3>1. count' = count
      BY <2>2, OthersAlike DEF Works, Read, ScanSlot, StoreSlot, ConcludeDhcp, Load, Advance, card
    <3> QED BY <3>1 DEF Once
  <2> QED BY <2>1, <2>2
<1>2. nested \subseteq nested'
  BY OthersAlike DEF Works, Read, Handle, HandleArp, HandleEcho, HandlePong, HandleAnswer,
         HandleDhcp, Dispatch, ScanSlot, StoreSlot, ConcludeDhcp, Load, Advance, card
<1>3. SUFFICES ASSUME nested' = {}
               PROVE  Dispatched'
  BY <1>1 DEF Once
<1>4. nested = {} /\ Dispatched /\ rxPtr \in Nat /\ Len(ring) \in 0 .. MaxFrames /\ MaxFrames \in Nat
  BY <1>2, <1>3, NetAssumption DEF Once, Stacked
<1>5. CASE ~Works
  <2>1. Alike(stack, stack') /\ UNCHANGED <<rxPtr, count>> /\ RingGrown
    BY <1>5, OthersAlike
  <2>2. HandedOn' = HandedOn
    BY <2>1 DEF Alike, HandedOn
  <2>3. Len(ring') >= Len(ring) /\ Len(ring') \in Nat
    BY <1>4, <2>1 DEF RingGrown
  <2> QED BY <1>4, <2>1, <2>2, <2>3 DEF Alike, Dispatched
<1>6. CASE Read
  <2> DEFINE a == [Top EXCEPT !.at = "frame", !.frame = rxPtr]
  <2>1. Worked(a) /\ a.at = "frame" /\ a.frame = rxPtr /\ rxPtr \in DOMAIN ring
    BY <1>6, ReadWorks
  <2> HIDE DEF a
  <2>2. UNCHANGED <<ring, rxPtr, count>>
        /\ nested' = nested \cup ({stack[i].at : i \in DOMAIN stack} \cap Middle)
    BY <1>6 DEF Read
  <2>3. Middles(stack) = {}
    BY <1>3, <2>2 DEF Middles, Stacked
  <2>4. Middles(stack') = {Len(stack)} /\ stack'[Len(stack)] = a
    <3>1. Middles(stack') = Middles(stack) \cup {Len(stack)}
          /\ \A i \in Middles(stack') : stack'[i] = IF i = Len(stack) THEN a ELSE stack[i]
      BY <2>1, WorkedStack DEF Stacked, Middle
    <3> QED BY <2>3, <3>1
  <2>5. ~HandedOn /\ ~HandedOn'
    BY <2>1, <2>3, <2>4 DEF HandedOn
  <2>6. rxPtr <= Len(ring)
    BY <1>4, <2>1 DEF Received
  <2> QED BY <1>4, <2>1, <2>2, <2>4, <2>5, <2>6 DEF Dispatched
<1>7. CASE Handle
  <2>1. PICK a : HandledAs(a)
    BY <1>7, HandleWorks
  <2>2. /\ Worked(a) /\ Top.at = "frame" /\ Top.at \in Middle
        /\ a.frame = Top.frame /\ a.at \in Middle /\ a.at # "frame"
    BY <2>1 DEF HandledAs, Middle
  <2>3. /\ Middles(stack) = {Len(stack)} /\ Top = stack[Len(stack)]
        /\ Middles(stack') = {Len(stack)} /\ stack'[Len(stack)] = a
    BY <1>4, <2>2, OnlyOne
  <2>4. UNCHANGED <<ring, rxPtr>> /\ count' = [count EXCEPT ![Top.frame] = @ + 1]
    BY <1>7 DEF Handle, HandleArp, HandleEcho, HandlePong, HandleAnswer, HandleDhcp, Dispatch
  <2>5. Top.frame = rxPtr /\ rxPtr <= Len(ring) /\ ~HandedOn /\ HandedOn'
    BY <1>4, <2>2, <2>3 DEF Dispatched, HandedOn
  <2>6. \A f \in 1 .. MaxFrames : count'[f] = IF f = rxPtr THEN count[f] + 1 ELSE count[f]
    BY <2>4, <2>5 DEF Once
  <2>7. \A f \in 1 .. MaxFrames : count[f] = IF f < rxPtr THEN 1 ELSE 0
    BY <1>4, <2>5 DEF Dispatched
  <2>8. \A f \in 1 .. MaxFrames : count'[f] = IF f < rxPtr \/ f = rxPtr THEN 1 ELSE 0
    BY <1>4, <2>6, <2>7
  <2> QED BY <1>4, <2>2, <2>3, <2>4, <2>5, <2>8 DEF Dispatched
<1>8. CASE ScanSlot \/ StoreSlot \/ ConcludeDhcp \/ Load
  <2>1. PICK a : GoesOnAs(a)
    BY <1>8, LaterWorks
  <2>2. /\ Worked(a) /\ Top.at \in Middle /\ Top.at # "frame" /\ a.at \in Middle /\ a.at # "frame"
        /\ a.frame \in {Top.frame, rxPtr}
    BY <2>1 DEF GoesOnAs
  <2>3. /\ Middles(stack) = {Len(stack)} /\ Top = stack[Len(stack)]
        /\ Middles(stack') = {Len(stack)} /\ stack'[Len(stack)] = a
    BY <1>4, <2>2, OnlyOne
  <2>4. UNCHANGED <<ring, rxPtr, count>>
    BY <1>8 DEF ScanSlot, StoreSlot, ConcludeDhcp, Load, card
  <2>5. a.frame = rxPtr /\ rxPtr <= Len(ring) /\ HandedOn /\ HandedOn'
    BY <1>4, <2>2, <2>3 DEF Dispatched, HandedOn
  <2> QED BY <1>4, <2>3, <2>4, <2>5 DEF Dispatched
<1>9. CASE Advance
  <2>1. Worked(Poll(Top.irq)) /\ Poll(Top.irq).at \notin Middle /\ Top.at = "loaded"
    BY <1>9, AdvanceWorks DEF Middle
  <2>2. Middles(stack) = {Len(stack)} /\ Top = stack[Len(stack)] /\ Middles(stack') = {}
    BY <1>4, <2>1, OnlyOne DEF Middle
  <2>3. UNCHANGED <<ring, count>> /\ rxPtr' = Top.frame + 1
    BY <1>9 DEF Advance
  <2>4. Top.frame = rxPtr /\ rxPtr <= Len(ring) /\ HandedOn /\ ~HandedOn'
    BY <1>4, <2>1, <2>2 DEF Dispatched, HandedOn
  <2>5. \A f \in 1 .. MaxFrames : count'[f] = IF f < rxPtr + 1 THEN 1 ELSE 0
    BY <1>4, <2>3, <2>4 DEF Dispatched
  <2> QED BY <1>4, <2>2, <2>3, <2>4, <2>5 DEF Dispatched
<1> QED BY <1>5, <1>6, <1>7, <1>8, <1>9 DEF Works

LEMMA OnceInit == Init => Once
<1> SUFFICES ASSUME Init PROVE Once
  OBVIOUS
<1>1. stack = <<>> /\ ring = <<>> /\ rxPtr = 1 /\ count = [f \in 1 .. MaxFrames |-> 0]
  BY DEF Init
<1>2. Middles(stack) = {} /\ MaxFrames \in Nat
  BY <1>1, NetAssumption DEF Middles
<1>3. Dispatched
  BY <1>1, <1>2 DEF Dispatched, HandedOn
<1>4. count = [f \in 1 .. MaxFrames |-> count[f]]
  BY <1>1
<1> QED BY <1>3, <1>4 DEF Once

\* As long as no poll takes a frame while another stands between its read of
\* the pointer and its advance, every frame of the ring is dispatched once and
\* in order, whichever of interrupt, waiting requests and address resolution
\* polls the card (rtl8139_poll).
THEOREM DispatchedOnce == Spec => []OnceInOrder
<1>1. Init => Received /\ Stacked /\ Once
  BY ReceivedInit, StackedInit, OnceInit
<1>2. Received /\ Stacked /\ Once /\ [Next]_vars => (Received /\ Stacked /\ Once)'
  BY ReceivedStep, StackedStep, OnceStep
<1>3. Received /\ Stacked /\ Once => OnceInOrder
  <2> SUFFICES ASSUME Received, Stacked, Once, nested = {}, NEW i \in DOMAIN ring
               PROVE  /\ i < rxPtr => count[i] = 1
                      /\ i = rxPtr => count[i] <= 1
                      /\ i > rxPtr => count[i] = 0
    BY DEF OnceInOrder
  <2>1. i \in 1 .. MaxFrames /\ Dispatched /\ rxPtr \in Nat
    BY NetAssumption DEF Received, Once, Stacked
  <2> QED BY <2>1 DEF Dispatched
<1> QED BY <1>1, <1>2, <1>3, PTL DEF Spec

-----------------------------------------------------------------------------
(* Types. *)

\* What is called by a system call meets no interrupt.
Bounded ==
    /\ tick \in 0 .. MaxTick
    /\ Len(stack) <= MaxDepth
    /\ masked = TRUE => Irqs(stack) = {}

Typed ==
    /\ arp \in [Slots -> Maybe(Hosts)]
    /\ dns \in [name : Maybe(Names), id : 0 .. MaxTick, ok : BOOLEAN, ip : Maybe(Names)]
    /\ cache \in [Names -> [ip : Maybe(Names), at : 0 .. MaxTick]]

\* A step that masks nothing and adds no interrupt.
LEMMA BoundsKept ==
    ASSUME Bounded, Irqs(stack') \subseteq Irqs(stack), Len(stack') <= MaxDepth,
           tick' \in 0 .. MaxTick, masked' = masked \/ stack = <<>>
    PROVE  Bounded'
<1>1. stack = <<>> => Irqs(stack) = {}
  BY DEF Irqs
<1>2. masked' = TRUE => Irqs(stack') = {}
  BY <1>1 DEF Bounded
<1> QED BY <1>2 DEF Bounded

LEMMA BoundedStep ==
    ASSUME Stacked, Received, Bounded, [Next]_vars
    PROVE  Bounded'
<1>0. stack \in Seq(Activations) /\ tick \in 0 .. MaxTick /\ Len(stack) <= MaxDepth
  BY DEF Stacked, Bounded
<1>1. CASE Arrive \/ Tick \/ UNCHANGED vars
  <2>1. /\ stack' = stack /\ masked' = masked
        /\ tick' = tick \/ (tick < MaxTick /\ tick' = tick + 1)
    BY <1>1 DEF Arrive, Tick, vars, task
  <2>2. tick' \in 0 .. MaxTick
    BY <1>0, <2>1, NetAssumption
  <2> QED BY <1>0, <2>1, <2>2, BoundsKept
<1>2. CASE ResolvePoll \/ ResolveLook \/ ResolveExpired \/ PollEmpty
  <2>1. tick' = tick /\ masked' = masked
    BY <1>2 DEF ResolvePoll, ResolveLook, ResolveExpired, PollEmpty, task
  <2>2. Kept(stack, stack')
    BY <1>0, <1>2, CallsKept
  <2> QED BY <1>0, <2>1, <2>2, BoundsKept DEF Kept
<1>3. CASE Task
  <2>1. stack = <<>> /\ Kept(stack, stack') /\ tick' = tick
    BY <1>3, TaskKept DEF Received
  <2> QED BY <1>0, <2>1, BoundsKept DEF Kept
<1>4. CASE Interrupt
  <2>1. /\ Len(stack') <= MaxDepth /\ ~masked /\ tick' = tick /\ masked' = masked
    BY <1>0, <1>4, InterruptStack DEF Interrupt, task
  <2> QED BY <1>0, <2>1 DEF Bounded
<1>5. CASE Works
  <2>1. tick' = tick /\ masked' = masked
    BY <1>5 DEF Works, Read, Handle, HandleArp, HandleEcho, HandlePong, HandleAnswer, HandleDhcp,
                Dispatch, ScanSlot, StoreSlot, ConcludeDhcp, Load, Advance, task
  <2>2. \E a : Worked(a)
    BY <1>5, ReadWorks, HandleWorks, LaterWorks, AdvanceWorks DEF Works, HandledAs, GoesOnAs
  <2>3. PICK a : Worked(a)
    BY <2>2
  <2>4. Irqs(stack') \subseteq Irqs(stack) /\ Len(stack') <= MaxDepth
    BY <1>0, <2>3, WorkedStack
  <2> QED BY <1>0, <2>1, <2>4, BoundsKept
<1> QED BY <1>1, <1>2, <1>3, <1>4, <1>5 DEF Next, Works

LEMMA BoundedInit == Init => Bounded
<1> SUFFICES ASSUME Init PROVE Bounded
  OBVIOUS
<1>1. stack = <<>> /\ tick = 0 /\ masked = FALSE
  BY DEF Init
<1>2. Irqs(stack) = {} /\ Len(stack) = 0
  BY <1>1 DEF Irqs
<1>3. MaxDepth \in Nat \ {0} /\ MaxTick \in Nat
  BY NetAssumption
<1> QED BY <1>1, <1>2, <1>3 DEF Bounded

LEMMA TypedStep ==
    ASSUME Typed, Received, Stacked, Bounded, [Next]_vars
    PROVE  Typed'
<1> USE DEF Typed, Maybe
<1>1. arp' \in [Slots -> Maybe(Hosts)]
  <2>1. CASE Tick
    BY <2>1 DEF Tick
  <2>2. CASE StoreSlot
    <3>1. stack # <<>> /\ Top.kind = "poll" /\ Top.at = "arp"
      BY <2>2 DEF StoreSlot, Polling
    <3>2. Frame.host \in Hosts
      BY <3>1, FrameSent DEF Sent
    <3>3. PICK slot : arp' = [arp EXCEPT ![slot] = Frame.host]
      BY <2>2 DEF StoreSlot
    <3> QED BY <3>2, <3>3
  <2>3. CASE UNCHANGED arp
    BY <2>3
  <2> QED BY <2>1, <2>2, <2>3, CacheTouched
<1>2. /\ dns' \in [name : Maybe(Names), id : 0 .. MaxTick, ok : BOOLEAN, ip : Maybe(Names)]
      /\ cache' \in [Names -> [ip : Maybe(Names), at : 0 .. MaxTick]]
  <2>1. CASE Tick
    <3>1. PICK old \in SUBSET Names :
              cache' = [n \in Names |-> IF n \in old THEN NotCached ELSE cache[n]]
      BY <2>1 DEF Tick
    <3>2. NotCached \in [ip : Maybe(Names), at : 0 .. MaxTick]
      BY NetAssumption DEF NotCached
    <3> QED BY <2>1, <3>1, <3>2 DEF Tick
  <2>2. CASE HandleAnswer
    <3>1. Frame.query.name \in Names
      BY <2>2, FrameSent DEF HandleAnswer, Dispatch, Polling, Sent, Received, Queries
    <3> QED BY <2>2, <3>1 DEF HandleAnswer
  <2>3. ASSUME NEW n \in Names, DnsStart(n)
        PROVE  /\ dns' \in [name : Maybe(Names), id : 0 .. MaxTick, ok : BOOLEAN,
                            ip : Maybe(Names)]
               /\ cache' = cache
    <3>1. dns' = [name |-> n, id |-> tick, ok |-> FALSE, ip |-> NoHost] /\ cache' = cache
      BY <2>3 DEF DnsStart
    <3> QED BY <3>1 DEF Bounded
  <2>4. CASE \E n \in Names : DnsStart(n)
    BY <2>3, <2>4
  <2>5. CASE DnsEnd
    <3>1. dns' = dns /\ cache' \in {cache, [cache EXCEPT ![dns.name] = [ip |-> dns.ip, at |-> dns.id]]}
      BY <2>5 DEF DnsEnd
    <3> QED BY <3>1
  <2>6. CASE UNCHANGED <<dns, cache>>
    BY <2>6
  <2> QED BY <2>1, <2>2, <2>4, <2>5, <2>6, AnswersTouched
<1> QED BY <1>1, <1>2

LEMMA TypedInit == Init => Typed
<1>1. 0 \in 0 .. MaxTick
  BY NetAssumption
<1> SUFFICES ASSUME Init PROVE Typed
  OBVIOUS
<1> QED BY <1>1 DEF Init, NotCached, Typed, Maybe

\* Caches, sockets and clients are well typed, the stack of calls stays within
\* its bound, and what is called by a system call meets no interrupt.
THEOREM TypeCorrect == Spec => []TypeOK
<1> DEFINE IInv == Received /\ Stacked /\ Sockets /\ Bounded /\ Typed /\ LeaseTyped
<1>1. Init => IInv
  BY ReceivedInit, StackedInit, SocketsInit, BoundedInit, TypedInit, LeaseInit DEF Lease
<1>2. IInv /\ [Next]_vars => IInv'
  BY ReceivedStep, StackedStep, SocketsStep, BoundedStep, TypedStep, LeaseTypedStep
<1>3. IInv => TypeOK
  <2> SUFFICES ASSUME IInv PROVE TypeOK
    OBVIOUS
  <2>1. DOMAIN ring = 1 .. Len(ring) /\ Len(ring) <= MaxFrames
    BY NetAssumption DEF Received, Stacked
  <2>2. Cardinality(udp) <= UdpSockets
    <3>1. PICK s : udp \subseteq {s}
      BY DEF Sockets, SocketsOf
    <3>2. IsFiniteSet({s}) /\ Cardinality({s}) = 1
      BY FS_Singleton
    <3>3. IsFiniteSet(udp) /\ Cardinality(udp) <= 1
      BY <3>1, <3>2, FS_Subset
    <3>4. Cardinality(udp) \in Nat
      BY <3>3, FS_CardinalityType
    <3> QED BY <3>3, <3>4, NetAssumption
  <2>3. masked => ~InInterrupt
    <3>1. DOMAIN stack = 1 .. Len(stack)
      BY DEF Stacked
    <3>2. \A i \in 1 .. Len(stack) : stack[i].kind = "poll" => stack[i].irq \in BOOLEAN
      BY DEF Stacked, Activations, Polls
    <3> QED BY <3>1, <3>2 DEF Bounded, InInterrupt, Irqs
  <2> QED BY <2>1, <2>2, <2>3 DEF TypeOK, Stacked, Bounded, Typed, LeaseTyped
<1> QED BY <1>1, <1>2, <1>3, PTL DEF Spec
=============================================================================
