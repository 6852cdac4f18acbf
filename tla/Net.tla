-------------------------------- MODULE Net ---------------------------------
(***************************************************************************)
(* The network: the rings of the e1000 (drivers/e1000.rs), the polling of  *)
(* the smoltcp stack and its DHCP client (net/mod.rs), UDP sockets and the *)
(* DNS resolver (net/socket.rs, net/dns.rs), the HTTP server (net/http.rs).*)
(*                                                                         *)
(* The tasks of the executor call into the stack one at a time: net_poll   *)
(* and the server's tick start from "idle" and run to their end, while the *)
(* card writes descriptors and the network delivers, loses, delays or      *)
(* repeats datagrams.  Of a frame the model keeps a DNS message's port and *)
(* host; the frames of a ring are numbered as they are put in.  smoltcp is *)
(* external: a datagram goes to the first socket bound to its port; its    *)
(* TCP hides losses, so that segments act on the server's socket directly, *)
(* during a poll.                                                          *)
(***************************************************************************)
EXTENDS Integers, Sequences, FiniteSets

CONSTANTS NumRx,     \* NUM_RX_DESC
          NumTx,     \* NUM_TX_DESC
          Port,      \* local ports the resolver derives from the clock
          Host,      \* names asked for
          LongName,  \* those of more than 253 bytes
          BadLabel,  \* those with a label that is empty or too long
          Timeout,   \* QUERY_TIMEOUT_MS, in halts
          MaxFrames, \* bound: frames that reach the card
          MaxSends,  \* bound: frames sent before smoltcp's last one of its own
          MaxQueries,\* bound: calls of resolve_a
          MaxLeases  \* bound: leases obtained

ASSUME NetAssumption ==
  /\ NumRx \in Nat /\ NumRx > 1 /\ NumTx \in Nat /\ NumTx > 1 /\ MaxSends \in Nat
  /\ Timeout \in Nat /\ Port # {} /\ "none" \notin Port /\ Host # {}
  /\ LongName \subseteq Host /\ BadLabel \subseteq Host
  /\ MaxFrames \in Nat /\ MaxQueries \in Nat /\ MaxLeases \in Nat

VARIABLES rx,       \* the receive ring: descriptor -> done bit and buffer
          rdh, rdt, \* the card's head and tail registers
          rx_cur,   \* E1000.rx_cur
          written,  \* frames the card has written
          read,     \* rx_packets
          tx,       \* the transmit ring: descriptor -> frame and its number
          tdh, tdt, \* the card's head and tail registers
          tx_cur,   \* E1000.tx_cur
          sends,    \* tx_packets
          unsent,   \* history: frames handed to send and not yet taken or lost
          flight,   \* datagrams on their way to us
          sockets,  \* UDP sockets of the resolver: port, datagrams queued
          lease,    \* DHCP: configured, dns_server known (the gateway likewise)
          leases,   \* leases obtained so far
          tcp,      \* state of the HTTP socket, CURRENT
          inbox,    \* the request in its receive buffer
          client,   \* what the client of that socket does
          pc, ret,  \* what the task running now does, and after its poll
          query,    \* the host being resolved, halts waited
          ticks,    \* the timer interrupt can come in
          result    \* what resolve_a returned: the host whose address it is, if any

card   == <<rx, rdh, rdt, rx_cur, written, read>>
out    == <<tx, tdh, tdt, tx_cur, sends, unsent>>
dhcp   == <<lease, leases>>
http   == <<tcp, inbox, client>>
task   == <<pc, ret, query, ticks>>
vars   == <<card, out, flight, sockets, dhcp, http, task, result>>

Desc     == 0 .. NumRx - 1
NoFrame  == [port |-> "none", host |-> "none"]
Empty    == [dd |-> FALSE, n |-> 0, frame |-> NoFrame]
NoQuery  == [host |-> "none", waited |-> 0]

\* An interface without an address, the DHCP client looking for one.
NoLease  == [configured |-> FALSE, dns |-> FALSE]

Next1(i) == (i + 1) % NumRx

\* The card owns all descriptors but one.
init_rx == /\ rx = [i \in Desc |-> Empty] /\ rdh = 0 /\ rdt = NumRx - 1
           /\ rx_cur = 0 /\ written = 0 /\ read = 0

Sent(n, f) == [n |-> n, frame |-> f]
Done       == Sent(0, NoFrame)

init_tx == /\ tx = [i \in 0 .. NumTx - 1 |-> Done] /\ tdh = 0 /\ tdt = 0
           /\ tx_cur = 0 /\ sends = 0

Init ==
  /\ init_rx /\ init_tx
  /\ unsent = << >>
  /\ flight = {} /\ sockets = << >>
  /\ lease = NoLease /\ leases = 0
  /\ tcp = "Listen" /\ inbox = "none" /\ client = "away"
  /\ pc = "idle" /\ ret = "idle" /\ query = NoQuery /\ ticks = TRUE /\ result = {}

-----------------------------------------------------------------------------
(* The card and the network, outside the kernel *)

\* The card owns the descriptors from its head up to its tail.
card_writes(f) ==
  /\ written < MaxFrames /\ rdh # rdt
  /\ rx' = [rx EXCEPT ![rdh] = [dd |-> TRUE, n |-> written, frame |-> f]]
  /\ rdh' = Next1(rdh) /\ written' = written + 1
  /\ UNCHANGED <<rdt, rx_cur, read, out, sockets, dhcp, http, task, result>>

\* What is in flight stays there: it may arrive soon, late, more than once, never.
datagram == \E f \in flight : card_writes(f) /\ UNCHANGED flight

\* Any other frame: ARP, broadcast.
other_frame == card_writes(NoFrame) /\ UNCHANGED flight

-----------------------------------------------------------------------------
(* Sending *)

NextTx(i) == (i + 1) % NumTx

\* Slip: the tail is the descriptor just filled, which the card leaves alone.
Announced_Filled(i) == i

\* The new tail, once descriptor i is filled.
Announced(i) == NextTx(i)

\* E1000::send takes the descriptor at tx_cur for free without looking.  With
\* NumTx - 1 frames waiting it fills the last descriptor and the tail meets the
\* head: to the card the ring is empty, and all of them are lost.  smoltcp makes
\* no frame longer than the 1514 bytes send takes.
send(f) ==
  /\ tx' = [tx EXCEPT ![tx_cur] = Sent(sends, f)] /\ sends' = sends + 1
  /\ tx_cur' = NextTx(tx_cur) /\ tdt' = Announced(tx_cur)
  /\ unsent' = IF Len(unsent) = NumTx - 1 THEN << >> ELSE Append(unsent, Sent(sends, f))
  /\ UNCHANGED tdh

\* The card sends what lies between its head and its tail, and is done with it.
\* The answer to a query, if one comes, is known by its port and host too.
card_sends ==
  /\ tdh # tdt
  /\ tdh' = NextTx(tdh) /\ unsent' = Tail(unsent)
  /\ tx' = [tx EXCEPT ![tdh] = Done]
  /\ flight' \in {flight, flight \cup ({tx[tdh].frame} \ {NoFrame})}
  /\ UNCHANGED <<card, tdt, tx_cur, sends, sockets, dhcp, http, task, result>>

\* A frame smoltcp sends by itself during a poll: ARP, DHCP, TCP.
send_other ==
  /\ pc = "poll" /\ sends < MaxSends
  /\ send(NoFrame)
  /\ UNCHANGED <<card, flight, sockets, dhcp, http, task, result>>

-----------------------------------------------------------------------------
(* Polling *)

\* smoltcp hands a datagram to the first socket bound to its port.
Deliver(ss, f) ==
  LET bound == {i \in 1 .. Len(ss) : ss[i].port = f.port}
  IN IF bound = {} THEN ss
     ELSE [ss EXCEPT ![CHOOSE i \in bound : \A j \in bound : i <= j].queue = Append(@, f.host)]

\* Slip: the done bit stays set.
Released_Not(d) == d

\* recv clears the descriptor it has copied from; what is left in its buffer is
\* read by nobody.
Released(d) == Empty

\* E1000::recv: the descriptor just read becomes the card's new tail.
recv ==
  /\ pc = "poll" /\ rx[rx_cur].dd
  /\ sockets' = Deliver(sockets, rx[rx_cur].frame)
  /\ rx' = [rx EXCEPT ![rx_cur] = Released(@)]
  /\ rx_cur' = Next1(rx_cur) /\ rdt' = rx_cur /\ read' = read + 1
  /\ UNCHANGED <<rdh, written, out, flight, dhcp, http, task, result>>

\* What a lease leaves behind: one without a name server keeps that of the
\* lease before it.
Leased(l, dns) == [configured |-> TRUE, dns |-> l.dns \/ dns]

dhcp_event ==
  \/ /\ leases < MaxLeases /\ leases' = leases + 1
     /\ \E dns \in BOOLEAN : lease' = Leased(lease, dns)
  \/ /\ lease.configured
     /\ lease' = NoLease /\ UNCHANGED leases

\* The ring is empty.  net::poll looks at the DHCP client then; the server's
\* tick and udp_send poll the interface alone.
poll_ends ==
  /\ pc = "poll" /\ ~rx[rx_cur].dd
  /\ pc' = ret /\ ret' = "idle"
  /\ \/ UNCHANGED dhcp
     \/ ret \in {"idle", "dns recv"} /\ dhcp_event
  /\ UNCHANGED <<card, out, flight, sockets, http, query, ticks, result>>

Poll(then) == pc' = "poll" /\ ret' = then

net_poll_task ==
  /\ pc = "idle" /\ Poll("idle")
  /\ UNCHANGED <<card, out, flight, sockets, dhcp, http, query, ticks, result>>

-----------------------------------------------------------------------------
(* The HTTP server *)

\* A program that has ended returns to the shell with interrupts masked, and they
\* stay so until the executor sleeps; the server's tick may be run before that.
http_tick ==
  /\ pc = "idle" /\ Poll("tick") /\ ticks' \in BOOLEAN
  /\ UNCHANGED <<card, out, flight, sockets, dhcp, http, query, result>>

\* Slip: a connection the client has closed is left as it is.
MustClose_Never(state) == FALSE

MustClose(state) == state = "CloseWait"

\* Pages, JSON and errors are answered at once; /api/dns resolves first.
route(path) == IF path = "page" THEN "respond" ELSE "resolve"

\* tick after its poll: the request is taken out of the buffer before the
\* state is looked at, and is dropped when the client has closed its side.
tick ==
  /\ pc = "tick" /\ inbox' = "none"
  /\ IF tcp = "Closed"
     THEN tcp' = "Listen" /\ client' = "away" /\ pc' = "idle" /\ UNCHANGED query
     ELSE IF MustClose(tcp)
     THEN tcp' = "LastAck" /\ pc' = "idle" /\ UNCHANGED <<client, query>>
     ELSE IF inbox = "none"
     THEN pc' = "idle" /\ UNCHANGED <<tcp, client, query>>
     ELSE /\ pc' = route(inbox)
          /\ query' = IF pc' = "respond" THEN query ELSE [host |-> inbox, waited |-> 0]
          /\ UNCHANGED <<tcp, client>>
  /\ ticks' = (ticks \/ pc' = "idle")
  /\ UNCHANGED <<card, out, flight, sockets, dhcp, ret, result>>

\* The socket may have changed since tick read its state; send_slice then
\* sends nothing.
respond ==
  /\ pc = "respond" /\ pc' = "idle" /\ query' = NoQuery /\ result' = {} /\ ticks' = TRUE
  /\ client' = IF client = "waiting" /\ tcp = "Established" THEN "answered" ELSE client
  /\ UNCHANGED <<card, out, flight, sockets, dhcp, tcp, inbox, ret>>

-----------------------------------------------------------------------------
(* resolve_a *)

\* A port that is taken is bound again, by a second socket.
udp_bind(port) == sockets' = Append(sockets, [port |-> port, queue |-> << >>])

\* A socket of its own for the query, bound to a port the clock gives; when the
\* query cannot be built the socket stays.  udp_send polls first.
bind ==
  /\ pc = "resolve"
  /\ IF query.host \in LongName \/ ~lease.dns THEN pc' = "respond" /\ UNCHANGED <<ret, sockets>>
     ELSE /\ Len(sockets) < MaxQueries
          /\ \E p \in Port : udp_bind(p)
          /\ IF query.host \in BadLabel THEN pc' = "respond" /\ UNCHANGED ret
             ELSE Poll("dns send")
  /\ UNCHANGED <<card, out, flight, dhcp, http, query, ticks, result>>

Mine == sockets[Len(sockets)]

\* The id being always 0x1234, a query is told from others by its port alone.
build_query(host) == [port |-> Mine.port, host |-> host]

\* The query goes out in the poll that follows, unless smoltcp refuses it.
dns_send ==
  /\ pc = "dns send"
  /\ \/ send(build_query(query.host)) /\ Poll("dns recv")
     \/ pc' = "respond" /\ UNCHANGED <<out, ret>>
  /\ UNCHANGED <<card, flight, sockets, dhcp, http, query, ticks, result>>

\* Slip: the query never gives up.
TimedOut_Never(w) == FALSE

TimedOut(w) == w > Timeout

\* Slip: the socket is removed with the query.
AfterQuery_Removed(ss) == SubSeq(ss, 1, Len(ss) - 1)

\* resolve_a returns without removing its socket.
AfterQuery(ss) == ss

\* The first A record, whatever name it is for; none in an error.
parse_a_response(answer) == {{answer}, {}}

\* udp_recv; without an answer, give up or halt and poll again.  Where no timer
\* interrupt can come in the halt is for good.
dns_recv ==
  /\ pc = "dns recv"
  /\ IF Mine.queue # << >>
     THEN /\ result' \in parse_a_response(Head(Mine.queue))
          /\ sockets' = AfterQuery([sockets EXCEPT ![Len(sockets)].queue = Tail(@)])
          /\ pc' = "respond" /\ UNCHANGED <<ret, query>>
     ELSE IF TimedOut(query.waited)
     THEN pc' = "respond" /\ sockets' = AfterQuery(sockets) /\ UNCHANGED <<ret, query, result>>
     ELSE IF ~ticks
     THEN pc' = "halted" /\ UNCHANGED <<ret, query, sockets, result>>
     ELSE /\ query' = [query EXCEPT !.waited = IF @ > Timeout THEN @ ELSE @ + 1]
          /\ Poll("dns recv") /\ UNCHANGED <<sockets, result>>
  /\ UNCHANGED <<card, out, flight, dhcp, http, ticks>>

-----------------------------------------------------------------------------
(* The client's segments, as a poll sees them *)

Segment(from, to) == pc = "poll" /\ tcp \in from /\ tcp' = to
OnlyTcp == UNCHANGED <<card, out, flight, sockets, dhcp, task, result>>

syn == Segment({"Listen"}, "Established") /\ client' = "open" /\ UNCHANGED inbox /\ OnlyTcp

request(path) ==
  /\ Segment({"Established"}, "Established") /\ client \in {"open", "answered"}
  /\ (path # "page" => Len(sockets) < MaxQueries)
  /\ client' = "waiting" /\ inbox' = path
  /\ OnlyTcp

fin == Segment({"Established"}, "CloseWait") /\ client' = "gone" /\ UNCHANGED inbox /\ OnlyTcp

rst ==
  /\ Segment({"Established", "CloseWait", "LastAck"}, "Closed")
  /\ client' = "gone" /\ UNCHANGED inbox /\ OnlyTcp

last_ack == Segment({"LastAck"}, "Closed") /\ UNCHANGED <<inbox, client>> /\ OnlyTcp

-----------------------------------------------------------------------------
Kernel == recv \/ poll_ends \/ net_poll_task \/ http_tick \/ tick \/ respond
            \/ bind \/ dns_send \/ dns_recv

Next ==
  \/ Kernel
  \/ card_sends \/ send_other
  \/ datagram \/ other_frame
  \/ syn \/ fin \/ rst \/ last_ack
  \/ \E path \in {"page"} \cup Host : request(path)

\* The tasks run on and the server's timer wakes it again and again (module
\* Executor); a peer acknowledges in the end.
Fairness == WF_vars(Kernel) /\ SF_vars(http_tick) /\ SF_vars(last_ack)

Spec == Init /\ [][Next]_vars /\ Fairness

-----------------------------------------------------------------------------
(* Properties *)

\* Every variable has its type; the ring's indices stay inside the ring.
TypeOK ==
  /\ \A i \in Desc : rx[i].dd \in BOOLEAN /\ rx[i].n \in 0 .. MaxFrames
  /\ rdh \in Desc /\ rdt \in Desc /\ rx_cur \in Desc
  /\ tdh \in 0 .. NumTx - 1 /\ tdt \in 0 .. NumTx - 1 /\ tx_cur \in 0 .. NumTx - 1
  /\ written \in 0 .. MaxFrames /\ read \in 0 .. MaxFrames
  /\ Len(sockets) <= MaxQueries /\ leases \in 0 .. MaxLeases
  /\ tcp \in {"Listen", "Established", "CloseWait", "LastAck", "Closed"}
  /\ inbox \in {"none", "page"} \cup Host
  /\ client \in {"away", "open", "waiting", "answered", "gone"}
  /\ pc \in {"idle", "poll", "tick", "respond", "resolve", "dns send", "dns recv", "halted"}
  /\ ticks \in BOOLEAN /\ query.waited \in 0 .. Timeout + 1

\* Frames come off the ring in the order the card wrote them, each once: a
\* descriptor recv finds done holds the frame after the last one it read,
\* and the card never has more written than the ring holds.
FramesInOrder ==
  /\ rx[rx_cur].dd => rx[rx_cur].n = read
  /\ written - read \in 0 .. NumRx - 1

\* How far descriptor i is from the card's head.
Ahead(i) == IF i >= tdh THEN i - tdh ELSE i - tdh + NumTx

\* The transmit ring is a queue: the card finds the frames send was given, all of
\* them, in their order and each once, until one is sent while NumTx - 1 wait.
\* That one and those are lost, for send never looks whether the card is done
\* with a descriptor; what is sent after them goes out again.
FramesGoOut ==
  /\ Ahead(tdt) = Len(unsent)
  /\ \A i \in DOMAIN tx : Ahead(i) < Len(unsent) => tx[i] = unsent[Ahead(i) + 1]
  /\ \A i \in 1 .. Len(unsent) : unsent[i].n = sends - Len(unsent) + i - 1

\* resolve_a returns the address of the host it was asked for, although every
\* query has the id 0x1234 and ports come back: the socket of an earlier query
\* is still there to take the answers that were meant for it.
AnswersMatch == result \subseteq {query.host}

\* A client that sends a request and keeps its side open is answered, while a
\* name is resolved and whatever the name server does; unless the wait for the
\* name began with interrupts still masked after a program, which stops the
\* kernel.
RequestsAnswered == client = "waiting" ~> client \in {"answered", "gone"} \/ pc = "halted"

\* Once the client has closed or reset its connection the server listens
\* again: tick closes its own side and replaces the socket.
ListensAgain == client = "gone" ~> tcp = "Listen" \/ pc = "halted"
====
