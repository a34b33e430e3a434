------------------------------ MODULE NetPoll ------------------------------
(***************************************************************************)
(* The receive path of the network stack and the requests that wait for    *)
(* it: drivers/rtl8139.c, net/arp.c, net/ip.c, net/icmp.c, net/udp.c,      *)
(* net/dns.c and net/dhcp.c.                                               *)
(*                                                                         *)
(* Whoever waits polls the card, and so does the card's interrupt.  A poll *)
(* runs the handler of each frame inside itself, a handler may send, and   *)
(* sending to an unknown address polls again: `stack' is the C stack of    *)
(* these calls, and the activation on top of it acts.  While the stack is  *)
(* empty the task acts: it runs DHCP once at boot and then one request     *)
(* after another.                                                          *)
(*                                                                         *)
(* The interrupt may come between any two steps that share state: a poll   *)
(* takes the pointer, reads the frame there, handles it, loads the pointer *)
(* again and stores it; an ARP update looks at one slot after another and  *)
(* then writes one; DHCP takes a message's options before its type.        *)
(*                                                                         *)
(* Frames have one size, so that a read pointer advanced twice lands on a  *)
(* frame or behind the last one.  Every host is on the local network, the  *)
(* address of a name is the name, and the network may delay, repeat,       *)
(* reorder and lose whatever was sent to it.                               *)
(***************************************************************************)
EXTENDS Naturals, Sequences, FiniteSets

CONSTANTS
    Hosts, DnsHost,   \* hosts, and the one that answers DNS queries
    Servers,          \* DHCP servers
    Options,          \* options of DHCP messages: server id, mask, router, DNS
    Carries,          \* the options each server puts in an offer and in an ACK
    Names,            \* host names
    NoHost,           \* stands for an empty entry, name or server
    CacheSize,        \* ARP_CACHE_SIZE
    UdpSockets,       \* UDP_MAX_SOCKETS
    Timeout,          \* ticks a request or an address resolution waits
    MaxFrames,        \* bound: frames the card receives
    MaxTick,          \* bound: ticks of the timer
    MaxDepth          \* bound: activations on the stack

ASSUME NetAssumption ==
    /\ DnsHost \in Hosts
    /\ NoHost \notin Hosts \cup Servers \cup Names
    /\ "server" \in Options
    /\ Carries \in [Servers -> [{"offer", "ack", "nak"} -> SUBSET Options]]
    /\ {CacheSize, UdpSockets, Timeout, MaxFrames, MaxTick, MaxDepth} \subseteq Nat \ {0}

VARIABLES
    ring, rxPtr,           \* frames received, rtl_rx_ptr
    stack,                 \* activations of poll and resolve
    nested,                \* history: where a poll stood when another took a frame
    count,                 \* history: how often each frame was dispatched
    arp,                   \* arp_cache
    packet,                \* ip_packet_buf
    tick,
    udp,                   \* open entries of udp_sockets
    pc, polled, since, masked, sendOk,   \* the task
    dns, cache, ping, dhcp, iface,       \* state of the clients
    asked, pinged, requested             \* history: what reached the network

card == <<ring, rxPtr, count, nested>>
task == <<pc, polled, since, masked, sendOk>>
clients == <<dns, cache, ping, dhcp, iface>>
network == <<asked, pinged, requested>>
vars == <<card, stack, arp, packet, tick, udp, task, clients, network>>

Slots == 1 .. CacheSize

\* An open socket is its callback and its port; the port of a query is taken
\* from the clock, as the query's number is.
DhcpSocket == [callback |-> "dhcp", port |-> 68]
DnsSocket(t) == [callback |-> "dns", port |-> t]

\* An entry of dns_cache: an address, and (history) when it was asked for.
NotCached == [ip |-> NoHost, at |-> 0]

\* The machine boots, or a server gave it a lease and its frames are numbered
\* from the first one after that.
NoOptions == [o \in Options |-> NoHost]

\* The options after those of a message of kind k of server s were taken.
Taken(options, k, s) ==
    [o \in Options |-> IF o \in Carries[s][k] THEN s ELSE options[o]]

\* The interface takes all of them but the server's id.
Configured(options) == [o \in Options \ {"server"} |-> options[o]]

Fresh == [dhcp : {[state |-> "idle", offer |-> NoHost, options |-> NoOptions, ack |-> NoHost]},
          iface : {[up |-> FALSE, ip |-> NoHost, options |-> Configured(NoOptions)]},
          pc : {"boot"}, requested : {{}}]
Leased(s) == LET all == Taken(Taken(NoOptions, "offer", s), "ack", s)
             IN  [dhcp : {[state |-> "bound", offer |-> s, options |-> all, ack |-> s]},
                  iface : {[up |-> TRUE, ip |-> s, options |-> Configured(all)]},
                  pc : {"idle"}, requested : {{s}}]

Init ==
    /\ \E b \in Fresh \cup UNION {Leased(s) : s \in Servers} :
          /\ dhcp = b.dhcp /\ iface = b.iface
          /\ pc = b.pc /\ requested = b.requested
    /\ ring = <<>> /\ rxPtr = 1 /\ stack = <<>>
    /\ nested = {} /\ count = [i \in 1 .. MaxFrames |-> 0]
    /\ arp = [i \in Slots |-> NoHost]
    /\ packet = [kind |-> "none"]
    /\ tick = 0 /\ udp = {}
    /\ polled = FALSE /\ since = 0 /\ masked = FALSE /\ sendOk = FALSE
    /\ dns = [name |-> NoHost, id |-> 0, ok |-> FALSE, ip |-> NoHost]
    /\ cache = [n \in Names |-> NotCached]
    /\ ping = [host |-> NoHost, id |-> 0, received |-> FALSE]
    /\ asked = {} /\ pinged = {}

-----------------------------------------------------------------------------
(* The network and the clock. *)

\* Frames that may arrive: ARP packets and echo requests of any host, and
\* answers to what has been sent, for DHCP while its socket is there to take
\* them (an answer too many already stands for the frame nobody takes).
Network ==
         {[kind |-> k, host |-> h] : k \in {"arp", "echo"}, h \in Hosts}
    \cup {[kind |-> "answer", query |-> q] : q \in asked}
    \cup {[kind |-> "pong", to |-> p] : p \in pinged}
    \cup {[kind |-> "offer", server |-> s] :
             s \in IF DhcpSocket \in udp THEN Servers ELSE {}}
    \cup {[kind |-> k, server |-> s] : k \in {"ack", "nak"},
             s \in IF DhcpSocket \in udp THEN requested ELSE {}}

Arrive ==
    /\ Len(ring) < MaxFrames
    /\ \E f \in Network : ring' = Append(ring, f)
    /\ UNCHANGED <<rxPtr, count, nested, stack, arp, packet, tick, udp, task,
                   clients, network>>

\* An interrupt runs with interrupts masked, and so does a system call.
InInterrupt == \E i \in DOMAIN stack : stack[i].kind = "poll" /\ stack[i].irq
\* Mutant: a system call leaves interrupts on.
MaskedByInterrupt == InInterrupt

Masked == InInterrupt \/ masked

\* pit_handle_irq and net_tick: entries of both caches age and may expire.
Tick ==
    /\ ~Masked /\ tick < MaxTick
    /\ tick' = tick + 1
    /\ \E gone \in SUBSET Slots : arp' = [i \in Slots |-> IF i \in gone THEN NoHost ELSE arp[i]]
    /\ \E old \in SUBSET Names : cache' = [n \in Names |-> IF n \in old THEN NotCached ELSE cache[n]]
    /\ UNCHANGED <<card, stack, packet, udp, task, dns, ping, dhcp, iface, network>>

-----------------------------------------------------------------------------
(* Sending. *)

\* arp_lookup
Resolved(h) == \E i \in Slots : arp[i] = h

\* eth_send hands the card whatever the static buffer holds.
Transmit(p) ==
    /\ asked' = IF p.kind = "query" THEN asked \cup {p.query} ELSE asked
    /\ pinged' = IF p.kind = "ping" THEN pinged \cup {p.to} ELSE pinged
    /\ UNCHANGED requested

\* A poll keeps the frame it reads, later the pointer it has loaded, and an
\* ARP update the slot it looks at and the first free one.
Poll(inIrq) == [kind |-> "poll", irq |-> inIrq, at |-> "test", frame |-> 0, slot |-> 0, free |-> 0]
Resolve(h) == [kind |-> "resolve", at |-> "wait", host |-> h, since |-> tick]

Top == stack[Len(stack)]
Below == SubSeq(stack, 1, Len(stack) - 1)
Becomes(a) == [stack EXCEPT ![Len(stack)] = a]
TopAt(step) == Becomes([Top EXCEPT !.at = step])

\* A call is made while the bound on the depth allows it.
Call(s, a) == Len(s) < MaxDepth /\ stack' = Append(s, a)

\* ip_send of packet p to host h, with the calls in s below it: the packet is
\* built in the buffer, and leaves at once or when the address is resolved.
Send(s, h, p) ==
    /\ packet' = p
    /\ IF Resolved(h) THEN Transmit(p) /\ stack' = s
                      ELSE Call(s, Resolve(h)) /\ UNCHANGED network

-----------------------------------------------------------------------------
(* arp_resolve polls the card until the address is known or time is up.    *)

Resolving(step) == stack # <<>> /\ Top.kind = "resolve" /\ Top.at = step

ResolvePoll ==
    /\ Resolving("wait") /\ tick < Top.since + Timeout
    /\ Call(TopAt("look"), Poll(FALSE))
    /\ UNCHANGED <<card, arp, packet, tick, udp, task, clients, network>>

\* The task learns from ip_send whether its packet left; a handler does not ask.
Resulted(ok) == sendOk' = IF Below = <<>> THEN ok ELSE sendOk

ResolveLook ==
    /\ Resolving("look")
    /\ IF Resolved(Top.host)
         THEN stack' = Below /\ Resulted(TRUE) /\ Transmit(packet)
         ELSE stack' = TopAt("wait") /\ UNCHANGED <<sendOk, network>>
    /\ UNCHANGED <<card, arp, packet, tick, udp, pc, polled, since, masked, clients>>

ResolveExpired ==
    /\ Resolving("wait") /\ tick >= Top.since + Timeout
    /\ stack' = Below /\ Resulted(FALSE)
    /\ UNCHANGED <<card, arp, packet, tick, udp, pc, polled, since, masked,
                   clients, network>>

-----------------------------------------------------------------------------
(* rtl8139_poll and the handlers it calls. *)

Polling(step) == stack # <<>> /\ Top.kind = "poll" /\ Top.at = step

\* rtl8139_irq: the card interrupts for a frame, for one it has sent and for
\* errors of either, so at any time; one that finds the ring drained changes
\* nothing and is left out.
Interrupt ==
    /\ ~Masked /\ rxPtr \in DOMAIN ring
    /\ Call(stack, Poll(TRUE))
    /\ UNCHANGED <<card, arp, packet, tick, udp, task, clients, network>>

\* The card has nothing more, or the pointer has run past what it has written
\* and finds the length 0.
PollEmpty ==
    /\ Polling("test") /\ rxPtr \notin DOMAIN ring
    /\ stack' = Below
    /\ UNCHANGED <<card, arp, packet, tick, udp, task, clients, network>>

\* Where a poll stands between the read of the pointer and its advance.
Middle == {"frame", "arp", "dhcp", "handled", "loaded"}

\* The pointer is read; it names the frame until the frame has been handled.
\* Up to here the poll keeps nothing, so that the test of BUFE is in this step.
Read ==
    /\ Polling("test") /\ rxPtr \in DOMAIN ring
    /\ stack' = Becomes([Top EXCEPT !.at = "frame", !.frame = rxPtr])
    /\ nested' = nested \cup ({stack[i].at : i \in DOMAIN stack} \cap Middle)
    /\ UNCHANGED <<ring, rxPtr, count, arp, packet, tick, udp, task, clients, network>>

Frame == ring[Top.frame]

\* net_receive of that frame; its handler runs in this step up to its next
\* step or to the first call that polls.
Dispatch(kinds) ==
    /\ Polling("frame") /\ Frame.kind \in kinds
    /\ count' = [count EXCEPT ![Top.frame] = @ + 1]
    /\ UNCHANGED <<ring, rxPtr, nested, tick, task, udp, iface>>

\* arp_receive; the reply to a request goes to the address in the frame.
HandleArp ==
    /\ Dispatch({"arp"})
    /\ stack' = Becomes([Top EXCEPT !.at = "arp", !.slot = 1])
    /\ UNCHANGED <<arp, packet, dns, cache, ping, dhcp, network>>

Learned == Becomes([Top EXCEPT !.at = "handled", !.slot = 0, !.free = 0])

\* Mutant: a free slot is taken as soon as it is met.
ScanTakesFree ==
    /\ Polling("arp") /\ Top.slot \in Slots
    /\ arp' = IF arp[Top.slot] = NoHost THEN [arp EXCEPT ![Top.slot] = Frame.host] ELSE arp
    /\ stack' = IF arp[Top.slot] \in {Frame.host, NoHost} THEN Learned
                ELSE Becomes([Top EXCEPT !.slot = @ + 1])
    /\ UNCHANGED <<card, packet, tick, udp, task, clients, network>>

\* arp_cache_update looks at one slot after another for the address's entry and
\* remembers the first free one.
ScanSlot ==
    /\ Polling("arp") /\ Top.slot \in Slots
    /\ stack' = IF arp[Top.slot] = Frame.host THEN Learned
                ELSE Becomes([Top EXCEPT !.slot = @ + 1,
                                         !.free = IF arp[Top.slot] = NoHost /\ @ = 0
                                                    THEN Top.slot ELSE @])
    /\ UNCHANGED <<card, arp, packet, tick, udp, task, clients, network>>

\* The address had no entry: it gets that free slot, or the first one.
StoreSlot ==
    /\ Polling("arp") /\ Top.slot \notin Slots
    /\ arp' = [arp EXCEPT ![IF Top.free = 0 THEN 1 ELSE Top.free] = Frame.host]
    /\ stack' = Learned
    /\ UNCHANGED <<card, packet, tick, udp, task, clients, network>>

\* icmp_receive, echo request: answered once the interface is up.
HandleEcho ==
    /\ Dispatch({"echo"})
    /\ IF iface.up THEN Send(TopAt("handled"), Frame.host, [kind |-> "reply"])
                   ELSE stack' = TopAt("handled") /\ UNCHANGED <<packet, network>>
    /\ UNCHANGED <<arp, dns, cache, ping, dhcp>>

\* icmp_receive, echo reply
HandlePong ==
    /\ Dispatch({"pong"})
    /\ ping' = IF Frame.to.id = ping.id THEN [ping EXCEPT !.received = TRUE] ELSE ping
    /\ stack' = TopAt("handled")
    /\ UNCHANGED <<arp, packet, dns, cache, dhcp, network>>

\* Mutant: whatever arrives while a query is open answers it.
AnswersAny(q) == DnsSocket(dns.id) \in udp

\* The query's number and its port both come from the tick it was made at.
Answers(q) == DnsSocket(q.id) \in udp /\ q.id = dns.id

\* udp_receive and dns_receive
HandleAnswer ==
    /\ Dispatch({"answer"})
    /\ dns' = IF Answers(Frame.query)
                THEN [dns EXCEPT !.ok = TRUE, !.ip = Frame.query.name] ELSE dns
    /\ stack' = TopAt("handled")
    /\ UNCHANGED <<arp, packet, cache, ping, dhcp, network>>

\* udp_receive and dhcp_receive: the options that a message carries are taken,
\* those it leaves out stay.
HandleDhcp ==
    /\ Dispatch({"offer", "ack", "nak"})
    /\ IF DhcpSocket \in udp
         THEN /\ dhcp' = [dhcp EXCEPT !.options = Taken(@, Frame.kind, Frame.server)]
              /\ stack' = TopAt("dhcp")
         ELSE dhcp' = dhcp /\ stack' = TopAt("handled")
    /\ UNCHANGED <<arp, packet, dns, cache, ping, network>>

\* Mutant: a late offer leaves the state alone, but not the options.
DhcpTakesQuietly(f) ==
    CASE f.kind = "offer" ->
           [dhcp EXCEPT !.offer = f.server, !.state = IF @ = "bound" THEN @ ELSE "offered"]
      [] f.kind = "ack" -> [dhcp EXCEPT !.ack = f.server, !.state = "bound"]
      [] f.kind = "nak" -> [dhcp EXCEPT !.state = "failed"]

\* What a message is: its address and its type are looked at last.
DhcpTakes(f) ==
    CASE f.kind = "offer" -> [dhcp EXCEPT !.offer = f.server, !.state = "offered"]
      [] f.kind = "ack" -> [dhcp EXCEPT !.ack = f.server, !.state = "bound"]
      [] f.kind = "nak" -> [dhcp EXCEPT !.state = "failed"]

ConcludeDhcp ==
    /\ Polling("dhcp")
    /\ dhcp' = DhcpTakes(Frame)
    /\ stack' = TopAt("handled")
    /\ UNCHANGED <<card, arp, packet, tick, udp, task, dns, cache, ping, iface, network>>

Handle == HandleArp \/ HandleEcho \/ HandlePong \/ HandleAnswer \/ HandleDhcp

\* The pointer is loaded as it is by now, and stored one frame further.
Load ==
    /\ Polling("handled")
    /\ stack' = Becomes([Top EXCEPT !.at = "loaded", !.frame = rxPtr])
    /\ UNCHANGED <<card, arp, packet, tick, udp, task, clients, network>>

\* Mutant: the header is added to the length twice.
AdvanceTwice ==
    /\ Polling("loaded")
    /\ rxPtr' = Top.frame + 2
    /\ stack' = Becomes(Poll(Top.irq))
    /\ UNCHANGED <<ring, count, nested, arp, packet, tick, udp, task, clients, network>>

Advance ==
    /\ Polling("loaded")
    /\ rxPtr' = Top.frame + 1
    /\ stack' = Becomes(Poll(Top.irq))
    /\ UNCHANGED <<ring, count, nested, arp, packet, tick, udp, task, clients, network>>

-----------------------------------------------------------------------------
(* The task: it acts while no call is on the stack. *)

TaskAt(steps) == stack = <<>> /\ pc \in steps

Goto(step) == pc' = step /\ polled' = FALSE /\ since' = tick

Finish == Goto("idle") /\ masked' = FALSE

\* The desktop's loop polls the card (net_poll).
IdlePoll ==
    /\ TaskAt({"idle"})
    /\ Call(stack, Poll(FALSE))
    /\ UNCHANGED <<card, arp, packet, tick, udp, task, clients, network>>

Waits == {"offer", "request", "dns", "ping"}
After == [offer |-> "offerEnd", request |-> "requestEnd", dns |-> "dnsEnd", ping |-> "pingEnd"]

Satisfied ==
    CASE pc = "offer"   -> dhcp.state = "offered"
      [] pc = "request" -> dhcp.state \in {"bound", "failed"}
      [] pc = "dns"     -> dns.ok
      [] pc = "ping"    -> ping.received

\* The loop of a waiting request: poll, then look; it is left for the step
\* after it when the look is good or, before a poll, when time is up.
WaitPoll ==
    /\ TaskAt(Waits) /\ ~polled /\ tick < since + Timeout
    /\ Call(stack, Poll(FALSE))
    /\ polled' = TRUE
    /\ UNCHANGED <<card, arp, packet, tick, udp, pc, since, masked, sendOk,
                   clients, network>>

WaitLook ==
    /\ TaskAt(Waits) /\ polled
    /\ IF Satisfied THEN Goto(After[pc]) ELSE polled' = FALSE /\ UNCHANGED <<pc, since>>
    /\ UNCHANGED <<card, stack, arp, packet, tick, udp, masked, sendOk, clients, network>>

WaitExpired ==
    /\ TaskAt(Waits) /\ ~polled /\ tick >= since + Timeout
    /\ Goto(After[pc])
    /\ UNCHANGED <<card, stack, arp, packet, tick, udp, masked, sendOk, clients, network>>

\* dhcp_request, called once by net_init: a broadcast needs no address, but
\* the card may refuse it.
DhcpFails ==
    /\ udp' = udp \ {DhcpSocket}
    /\ dhcp' = [dhcp EXCEPT !.state = "failed"]
    /\ Finish
    /\ UNCHANGED <<card, stack, arp, packet, tick, sendOk, dns, cache, ping, iface, network>>

DhcpDiscover ==
    /\ TaskAt({"boot"})
    /\ \/ /\ udp' = udp \cup {DhcpSocket}
          /\ dhcp' = [dhcp EXCEPT !.state = "discover"]
          /\ Goto("offer")
          /\ UNCHANGED <<card, stack, arp, packet, tick, masked, sendOk, dns, cache,
                         ping, iface, network>>
       \/ DhcpFails

DhcpRequest ==
    /\ TaskAt({"offerEnd"})
    /\ \/ /\ dhcp.state = "offered"
          /\ dhcp' = [dhcp EXCEPT !.state = "request"]
          /\ requested' = requested \cup ({dhcp.options["server"]} \ {NoHost})
          /\ Goto("request")
          /\ UNCHANGED <<card, stack, arp, packet, tick, udp, masked, sendOk, dns,
                         cache, ping, iface, asked, pinged>>
       \/ DhcpFails

\* The socket is closed before the state is looked at for the last time.
DhcpBind ==
    /\ TaskAt({"requestEnd"})
    /\ udp' = udp \ {DhcpSocket}
    /\ iface' = IF dhcp.state = "bound"
                  THEN [up |-> TRUE, ip |-> dhcp.ack, options |-> Configured(dhcp.options)]
                  ELSE iface
    /\ Finish
    /\ UNCHANGED <<card, stack, arp, packet, tick, sendOk, dns, cache, ping, dhcp, network>>

\* dns_resolve of a name that is not cached.
DnsStart(n) ==
    LET q == [name |-> n, id |-> tick]
    IN  /\ TaskAt({"idle"}) /\ iface.up
        /\ cache[n] = NotCached
        /\ DnsSocket(tick) \notin udp /\ Cardinality(udp) < UdpSockets
        /\ dns' = [name |-> n, id |-> tick, ok |-> FALSE, ip |-> NoHost]
        /\ udp' = udp \cup {DnsSocket(tick)}
        /\ sendOk' = TRUE
        /\ Send(<<>>, DnsHost, [kind |-> "query", query |-> q])
        /\ Goto("dnsSend")
        /\ masked' \in BOOLEAN
        /\ UNCHANGED <<card, arp, tick, cache, ping, dhcp, iface>>

\* Mutant: a query that could not be sent leaves its socket open.
DnsSentLeaks ==
    /\ TaskAt({"dnsSend"})
    /\ IF sendOk THEN Goto("dns") /\ UNCHANGED masked ELSE Finish
    /\ UNCHANGED <<card, stack, arp, packet, tick, udp, sendOk, clients, network>>

DnsSent ==
    /\ TaskAt({"dnsSend"})
    /\ IF sendOk THEN Goto("dns") /\ UNCHANGED <<masked, udp>>
                 ELSE Finish /\ udp' = udp \ {DnsSocket(dns.id)}
    /\ UNCHANGED <<card, stack, arp, packet, tick, sendOk, clients, network>>

DnsEnd ==
    /\ TaskAt({"dnsEnd"})
    /\ udp' = udp \ {DnsSocket(dns.id)}
    /\ cache' = IF dns.ok THEN [cache EXCEPT ![dns.name] = [ip |-> dns.ip, at |-> dns.id]] ELSE cache
    /\ Finish
    /\ UNCHANGED <<card, stack, arp, packet, tick, sendOk, dns, ping, dhcp, iface, network>>

\* icmp_ping
PingStart(h) ==
    LET p == [host |-> h, id |-> tick]
    IN  /\ TaskAt({"idle"}) /\ iface.up
        /\ ping' = [host |-> h, id |-> tick, received |-> FALSE]
        /\ sendOk' = TRUE
        /\ Send(<<>>, h, [kind |-> "ping", to |-> p])
        /\ Goto("pingSend")
        /\ masked' \in BOOLEAN
        /\ UNCHANGED <<card, arp, tick, udp, dns, cache, dhcp, iface>>

PingSent ==
    /\ TaskAt({"pingSend"})
    /\ IF sendOk THEN Goto("ping") /\ UNCHANGED masked ELSE Finish
    /\ UNCHANGED <<card, stack, arp, packet, tick, udp, sendOk, clients, network>>

PingEnd ==
    /\ TaskAt({"pingEnd"})
    /\ Finish
    /\ UNCHANGED <<card, stack, arp, packet, tick, udp, sendOk, clients, network>>

-----------------------------------------------------------------------------
Task ==
    \/ IdlePoll \/ WaitPoll \/ WaitLook \/ WaitExpired
    \/ DhcpDiscover \/ DhcpRequest \/ DhcpBind
    \/ \E n \in Names : DnsStart(n)
    \/ DnsSent \/ DnsEnd
    \/ \E h \in Hosts : PingStart(h)
    \/ PingSent \/ PingEnd

Next ==
    \/ Arrive \/ Tick \/ Interrupt
    \/ ResolvePoll \/ ResolveLook \/ ResolveExpired
    \/ PollEmpty \/ Read \/ Handle \/ ScanSlot \/ StoreSlot \/ ConcludeDhcp
    \/ Load \/ Advance
    \/ Task

Spec == Init /\ [][Next]_vars

-----------------------------------------------------------------------------
(* Properties. *)

Maybe(S) == S \cup {NoHost}

TypeOK ==
    /\ rxPtr \in Nat \ {0} /\ nested \subseteq Middle
    /\ DOMAIN ring = 1 .. Len(ring) /\ Len(ring) <= MaxFrames
    /\ Len(stack) <= MaxDepth
    /\ arp \in [Slots -> Maybe(Hosts)]
    /\ Cardinality(udp) <= UdpSockets
    /\ dns.ip \in Maybe(Names) /\ dns.id \in 0 .. MaxTick
    /\ cache \in [Names -> [ip : Maybe(Names), at : 0 .. MaxTick]]
    /\ iface.ip \in Maybe(Servers) /\ iface.options \in [Options \ {"server"} -> Maybe(Servers)]
    /\ masked => ~InInterrupt

\* As long as no poll has taken a frame while another was between its read of
\* the pointer and its advance, every frame before the pointer has been
\* dispatched exactly once, the one at the pointer at most once and no other.
OnceInOrder ==
    nested = {} => \A i \in DOMAIN ring :
        /\ i < rxPtr => count[i] = 1
        /\ i = rxPtr => count[i] <= 1
        /\ i > rxPtr => count[i] = 0

\* The DNS cache never holds the address of another name, unless that name was
\* asked for at the very tick of this one's query: a late or repeated answer
\* finds the number and the port of its query gone.
AnswersMatch ==
    \A n \in Names : cache[n].ip \in {NoHost, n} \/
        [name |-> cache[n].ip, id |-> cache[n].at] \in asked

\* An interface that is up has its address from a server that was asked for
\* it, and every option which that server's ACK carries from the same server,
\* however messages of several servers meet; unless a poll took a frame in the
\* middle of a DHCP message.
LeaseFromOneServer ==
    iface.up /\ "dhcp" \notin nested =>
        /\ iface.ip \in requested
        /\ \A o \in Carries[iface.ip]["ack"] \ {"server"} : iface.options[o] = iface.ip

\* A socket is open only while the request that opened it runs, whichever way
\* requests end; the table has eight.
NoSocketLeft == pc = "idle" => udp = {}

\* An address has one entry of the ARP cache, so that an update changes what
\* the next lookup finds, whatever entries expire while an update looks for its
\* slot; unless a poll took a frame in the middle of an update.
OneEntryPerAddress ==
    "arp" \notin nested =>
        \A i, j \in Slots : arp[i] = arp[j] /\ arp[i] # NoHost => i = j
=============================================================================
