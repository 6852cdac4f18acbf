----------------------------- MODULE NetProofs ------------------------------
(***************************************************************************)
(* The rings of the e1000 and the resolver's sockets, for rings of any     *)
(* size, any ports and hosts, and any number of frames and queries: the    *)
(* inductive invariant, what each kind of step does to the rings, the      *)
(* sockets and the frames on their way, then the theorems.                 *)
(***************************************************************************)
EXTENDS Net, WellFoundedInduction, TLAPS


TxDesc == 0 .. NumTx - 1
Name   == Host \cup {"none"}
Frame  == [port : Port \cup {"none"}, host : Name]
Entry  == [n : Nat, frame : Frame]
Socket == [port : Port, queue : Seq(Name)]

\* The types the proof needs beyond those of TypeOK.
Typed ==
  /\ TypeOK
  /\ rx \in [Desc -> [dd : BOOLEAN, n : 0 .. MaxFrames, frame : Frame]]
  /\ tx \in [TxDesc -> Entry] /\ unsent \in Seq(Entry) /\ sends \in Nat
  /\ flight \in SUBSET Frame
  /\ sockets \in Seq(Socket)
  /\ lease \in [configured : BOOLEAN, dns : BOOLEAN]
  /\ query \in [host : Name, waited : 0 .. Timeout + 1]
  /\ pc = "poll" => ret \in {"idle", "tick", "dns send", "dns recv"}

\* How far descriptor i is from the one recv looks at next.
Behind(i) == IF i >= rx_cur THEN i - rx_cur ELSE i - rx_cur + NumRx

\* The receive ring: the frames not yet read lie in their order from rx_cur up to
\* the card's head; the tail is the descriptor before rx_cur.
RxRing ==
  /\ written - read \in 0 .. NumRx - 1
  /\ rdt = IF rx_cur = 0 THEN NumRx - 1 ELSE rx_cur - 1
  /\ Behind(rdh) = written - read
  /\ \A i \in Desc : /\ rx[i].dd <=> Behind(i) < written - read
                     /\ Behind(i) < written - read => rx[i].n = read + Behind(i)

\* The transmit ring: the tail is where send goes on, and the frames not yet taken
\* fit the ring.
TxRing == tdt = tx_cur /\ Len(unsent) <= NumTx - 1 /\ FramesGoOut

\* The query that is on its way, if any.
Resolving == \/ pc \in {"dns send", "dns recv"}
             \/ pc = "poll" /\ ret \in {"dns send", "dns recv"}

\* Every frame there is, those in descriptors that were used included.
Frames == flight \cup {tx[i].frame : i \in TxDesc} \cup {rx[i].frame : i \in Desc}

\* Only the first socket of a port receives.
FirstReceives ==
  \A i, j \in 1 .. Len(sockets) :
    i < j /\ sockets[i].port = sockets[j].port => sockets[j].queue = << >>

\* No socket before the last has its port.
MineAlone == \A i \in 1 .. Len(sockets) - 1 : sockets[i].port # Mine.port

\* A query or an answer has the port of some socket; if no earlier query had the
\* port of the query on its way, it belongs to that query.
Expected(f) ==
  \/ f = NoFrame
  \/ /\ \E i \in 1 .. Len(sockets) : sockets[i].port = f.port
     /\ Resolving /\ MineAlone /\ f.port = Mine.port => f.host = query.host

FramesAreExpected == \A f \in Frames : Expected(f)

\* The same of the datagrams that wait in the socket of the query on its way.
MineAnswers ==
  Resolving =>
    /\ Len(sockets) > 0
    /\ MineAlone => \A k \in 1 .. Len(Mine.queue) : Mine.queue[k] = query.host

\* The sockets of the resolver and what is sent to them.
SocketsAgree == FirstReceives /\ FramesAreExpected /\ MineAnswers

\* The address resolve_a returned is that of the host asked for, and is held only
\* until the request is answered.
Answered == AnswersMatch /\ (result # {} => pc = "respond")

\* The inductive invariant.
IInv == Typed /\ RxRing /\ TxRing /\ SocketsAgree /\ Answered

-----------------------------------------------------------------------------
(* Sequences *)

\* What Tail leaves of a sequence.
LEMMA TailOfSeq ==
  ASSUME NEW T, NEW q \in Seq(T), q # << >>
  PROVE  /\ Tail(q) \in Seq(T) /\ Len(Tail(q)) = Len(q) - 1
         /\ \A k \in 1 .. Len(q) - 1 : Tail(q)[k] = q[k + 1]
  OBVIOUS

\* One element of a sequence replaced.
LEMMA ReplacedInSeq ==
  ASSUME NEW T, NEW q \in Seq(T), NEW i \in 1 .. Len(q), NEW x \in T
  PROVE  /\ [q EXCEPT ![i] = x] \in Seq(T) /\ Len([q EXCEPT ![i] = x]) = Len(q)
         /\ \A j \in 1 .. Len(q) : [q EXCEPT ![i] = x][j] = IF j = i THEN x ELSE q[j]
  OBVIOUS

-----------------------------------------------------------------------------
(* The rings *)

\* The rings in linear arithmetic: the index after the last is the first.
LEMMA RingEnds ==
  /\ \A i \in Desc : Next1(i) = (IF i = NumRx - 1 THEN 0 ELSE i + 1) /\ Next1(i) \in Desc
  /\ \A i \in TxDesc : NextTx(i) = (IF i = NumTx - 1 THEN 0 ELSE i + 1) /\ NextTx(i) \in TxDesc
<1>1. ASSUME NEW n \in Nat, n > 1, NEW i \in 0 .. n - 1
      PROVE  (i + 1) % n = IF i = n - 1 THEN 0 ELSE i + 1
  <2>1. CASE i = n - 1
    BY <1>1, <2>1, SMT
  <2>2. CASE i # n - 1
    BY <1>1, <2>2, SMT
  <2>. QED  BY <2>1, <2>2
<1>2. ASSUME NEW i \in Desc
      PROVE  Next1(i) = (IF i = NumRx - 1 THEN 0 ELSE i + 1)
  <2>1. NumRx \in Nat /\ NumRx > 1 /\ i \in 0 .. NumRx - 1
    BY NetAssumption DEF Desc
  <2>. QED  BY Zenon, <1>1, <2>1 DEF Next1
<1>3. ASSUME NEW i \in TxDesc
      PROVE  NextTx(i) = (IF i = NumTx - 1 THEN 0 ELSE i + 1)
  <2>1. NumTx \in Nat /\ NumTx > 1 /\ i \in 0 .. NumTx - 1
    BY NetAssumption DEF TxDesc
  <2>. QED  BY Zenon, <1>1, <2>1 DEF NextTx
<1>. QED
  BY <1>2, <1>3, NetAssumption DEF Desc, TxDesc

\* The card's write keeps the receive ring: it fills the descriptor behind those
\* not yet read, and stops one short of the tail.
LEMMA CardFillsRing ==
  ASSUME Typed, RxRing, NEW f \in Frame, card_writes(f)
  PROVE  /\ RxRing'
         /\ rx' \in [Desc -> [dd : BOOLEAN, n : 0 .. MaxFrames, frame : Frame]]
         /\ rdh' \in Desc /\ written' \in 0 .. MaxFrames
         /\ \A i \in Desc : rx'[i].frame \in {rx[i].frame, f}
<1>1. /\ rdh \in Desc /\ rdt \in Desc /\ rx_cur \in Desc
      /\ written \in 0 .. MaxFrames /\ read \in 0 .. MaxFrames
      /\ NumRx \in Nat /\ NumRx > 1 /\ MaxFrames \in Nat
  BY Zenon, NetAssumption DEF Typed, TypeOK
<1>2. /\ written < MaxFrames /\ rdh # rdt /\ rdt' = rdt /\ rx_cur' = rx_cur /\ read' = read
      /\ rdh' = Next1(rdh) /\ written' = written + 1
      /\ rx' = [rx EXCEPT ![rdh] = [dd |-> TRUE, n |-> written, frame |-> f]]
  BY DEF card_writes
<1>3. rdh' = (IF rdh = NumRx - 1 THEN 0 ELSE rdh + 1) /\ rdh' \in Desc
  BY <1>1, <1>2, RingEnds
<1>4. rx' \in [Desc -> [dd : BOOLEAN, n : 0 .. MaxFrames, frame : Frame]]
  BY Zenon, <1>1, <1>2 DEF Typed
<1>5. \A i \in Desc : rx'[i] = IF i = rdh THEN [dd |-> TRUE, n |-> written, frame |-> f] ELSE rx[i]
  BY Zenon, <1>1, <1>2 DEF Typed
<1>6. written' - read' \in 0 .. NumRx - 1 /\ Behind(rdh)' = written' - read'
  BY <1>1, <1>2, <1>3 DEF RxRing, Behind, Desc
<1>7. rdt' = IF rx_cur' = 0 THEN NumRx - 1 ELSE rx_cur' - 1
  BY <1>2 DEF RxRing
<1>8. ASSUME NEW i \in Desc
      PROVE  /\ rx'[i].dd <=> Behind(i)' < written' - read'
             /\ Behind(i)' < written' - read' => rx'[i].n = read' + Behind(i)'
  <2>1. Behind(i)' = Behind(i) /\ Behind(i) \in 0 .. NumRx - 1
    BY <1>1, <1>2 DEF Behind, Desc
  <2>2. CASE i = rdh
    <3>1. rx'[i].dd = TRUE /\ rx'[i].n = written
      BY <1>5, <2>2
    <3>2. Behind(i) = written - read
      BY <2>2 DEF RxRing
    <3>. QED  BY <1>1, <1>2, <2>1, <3>1, <3>2
  <2>3. CASE i # rdh
    <3>1. rx'[i] = rx[i]
      BY <1>5, <2>3
    <3>2. Behind(i) # written - read
      BY <1>1, <2>3 DEF RxRing, Behind, Desc
    <3>3. /\ rx[i].dd <=> Behind(i) < written - read
          /\ Behind(i) < written - read => rx[i].n = read + Behind(i)
      BY DEF RxRing
    <3>4. Behind(i) < written' - read' <=> Behind(i) < written - read
      BY <1>1, <1>2, <2>1, <3>2
    <3>. QED  BY Zenon, <1>2, <2>1, <3>1, <3>3, <3>4
  <2>. QED  BY <2>2, <2>3
<1>9. RxRing'
  BY <1>6, <1>7, <1>8 DEF RxRing
<1>. QED
  BY <1>1, <1>2, <1>3, <1>4, <1>5, <1>9

\* recv keeps the receive ring, and what it finds is the frame after the last it
\* read.
LEMMA RecvEmptiesRing ==
  ASSUME Typed, RxRing, recv
  PROVE  /\ RxRing'
         /\ rx' \in [Desc -> [dd : BOOLEAN, n : 0 .. MaxFrames, frame : Frame]]
         /\ rx_cur' \in Desc /\ rdt' \in Desc /\ read' \in 0 .. MaxFrames
         /\ \A i \in Desc : rx'[i].frame \in {rx[i].frame, NoFrame}
<1>1. /\ rdh \in Desc /\ rdt \in Desc /\ rx_cur \in Desc
      /\ written \in 0 .. MaxFrames /\ read \in 0 .. MaxFrames
      /\ NumRx \in Nat /\ NumRx > 1 /\ MaxFrames \in Nat
  BY Zenon, NetAssumption DEF Typed, TypeOK
<1>2. /\ rx[rx_cur].dd /\ rdt' = rx_cur /\ rx_cur' = Next1(rx_cur) /\ read' = read + 1
      /\ rdh' = rdh /\ written' = written
      /\ rx' = [rx EXCEPT ![rx_cur] = Empty]
  BY DEF recv, Released
<1>3. rx_cur' = (IF rx_cur = NumRx - 1 THEN 0 ELSE rx_cur + 1) /\ rx_cur' \in Desc
  BY <1>1, <1>2, RingEnds
<1>4. rx' \in [Desc -> [dd : BOOLEAN, n : 0 .. MaxFrames, frame : Frame]]
  <2>1. Empty \in [dd : BOOLEAN, n : 0 .. MaxFrames, frame : Frame]
    BY <1>1 DEF Empty, NoFrame, Frame, Name
  <2>. QED  BY Zenon, <1>1, <1>2, <2>1 DEF Typed
<1>5. \A i \in Desc : i # rx_cur => rx'[i] = rx[i]
  BY Zenon, <1>1, <1>2 DEF Typed
<1>6. rx'[rx_cur].dd = FALSE /\ rx'[rx_cur].frame = NoFrame
  BY Zenon, <1>1, <1>2 DEF Typed, Empty
<1>7. Behind(rx_cur) = 0 /\ 0 < written - read
  BY <1>1, <1>2 DEF RxRing, Behind, Desc
<1>8. /\ written' - read' \in 0 .. NumRx - 1 /\ Behind(rdh)' = written' - read'
      /\ rdt' = IF rx_cur' = 0 THEN NumRx - 1 ELSE rx_cur' - 1
  <2>1. written - read \in 0 .. NumRx - 1 /\ Behind(rdh) = written - read
    BY DEF RxRing
  <2>2. written' - read' = written - read - 1 /\ written' - read' \in 0 .. NumRx - 1
    BY <1>1, <1>2, <1>7, <2>1
  <2>3. Behind(rdh)' = Behind(rdh) - 1
    BY <1>1, <1>2, <1>3, <1>7, <2>1 DEF Behind, Desc
  <2>4. rdt' = IF rx_cur' = 0 THEN NumRx - 1 ELSE rx_cur' - 1
    BY <1>1, <1>2, <1>3 DEF Desc
  <2>. QED  BY <2>1, <2>2, <2>3, <2>4
<1>9. ASSUME NEW i \in Desc
      PROVE  /\ rx'[i].dd <=> Behind(i)' < written' - read'
             /\ Behind(i)' < written' - read' => rx'[i].n = read' + Behind(i)'
  <2>1. CASE i = rx_cur
    <3>1. Behind(i)' = NumRx - 1
      BY <1>1, <1>3, <2>1 DEF Behind, Desc
    <3>2. ~(Behind(i)' < written' - read')
      BY <1>1, <1>2, <1>8, <3>1
    <3>. QED  BY <1>6, <2>1, <3>2
  <2>2. CASE i # rx_cur
    <3>1. Behind(i)' = Behind(i) - 1 /\ Behind(i) \in 1 .. NumRx - 1
      BY <1>1, <1>3, <2>2 DEF Behind, Desc
    <3>2. rx'[i] = rx[i]
      BY <1>5, <2>2
    <3>3. /\ rx[i].dd <=> Behind(i) < written - read
          /\ Behind(i) < written - read => rx[i].n = read + Behind(i)
      BY DEF RxRing
    <3>4. /\ Behind(i)' < written' - read' <=> Behind(i) < written - read
          /\ read' + Behind(i)' = read + Behind(i)
      BY <1>1, <1>2, <3>1
    <3>. QED  BY <3>2, <3>3, <3>4
  <2>. QED  BY <2>1, <2>2
<1>10. RxRing'
  BY <1>8, <1>9 DEF RxRing
<1>11. read' \in 0 .. MaxFrames
  BY <1>1, <1>2, <1>7
<1>. QED
  BY Zenon, <1>1, <1>2, <1>3, <1>4, <1>5, <1>6, <1>10, <1>11

\* send keeps the transmit ring: what it overwrites is a descriptor the card has
\* done with; when NumTx - 1 frames wait the tail comes round to the head.
LEMMA SendFillsRing ==
  ASSUME Typed, TxRing, NEW f \in Frame, send(f)
  PROVE  /\ TxRing'
         /\ tx' \in [TxDesc -> Entry] /\ unsent' \in Seq(Entry) /\ sends' \in Nat
         /\ tdh' \in TxDesc /\ tdt' \in TxDesc /\ tx_cur' \in TxDesc
         /\ \A i \in TxDesc : tx'[i].frame \in {tx[i].frame, f}
<1> DEFINE e == Sent(sends, f)
<1>1. /\ tdh \in TxDesc /\ tdt \in TxDesc /\ tx_cur \in TxDesc
      /\ tx \in [TxDesc -> Entry] /\ unsent \in Seq(Entry) /\ sends \in Nat
      /\ NumTx \in Nat /\ NumTx > 1
  BY Zenon, NetAssumption DEF Typed, TypeOK, TxDesc
<1>2. /\ tx' = [tx EXCEPT ![tx_cur] = e] /\ tx_cur' = NextTx(tx_cur) /\ tdt' = NextTx(tx_cur)
      /\ unsent' = IF Len(unsent) = NumTx - 1 THEN << >> ELSE Append(unsent, e)
      /\ tdh' = tdh /\ sends' = sends + 1
  BY DEF send, Announced
<1>3. tdt' = (IF tx_cur = NumTx - 1 THEN 0 ELSE tx_cur + 1) /\ tdt' \in TxDesc
  BY <1>1, <1>2, RingEnds
<1>4. e \in Entry /\ e.n = sends /\ e.frame = f
  BY <1>1 DEF Sent, Entry
<1> HIDE DEF e
<1>5. /\ tx' \in [TxDesc -> Entry] /\ DOMAIN tx = TxDesc /\ DOMAIN tx' = TxDesc
      /\ \A i \in TxDesc : tx'[i] = IF i = tx_cur THEN e ELSE tx[i]
  BY <1>1, <1>2, <1>4
<1>6. unsent' \in Seq(Entry) /\ Len(unsent) \in Nat /\ sends' \in Nat
  <2>1. Append(unsent, e) \in Seq(Entry) /\ << >> \in Seq(Entry) /\ Len(unsent) \in Nat
    BY <1>1, <1>4
  <2>2. sends' = sends + 1 /\ sends \in Nat
    BY Zenon, <1>1, <1>2
  <2>3. sends' \in Nat
    BY <2>2
  <2>. QED  BY Zenon, <1>2, <2>1, <2>3
<1>7. /\ tdt = tx_cur /\ Ahead(tx_cur) = Len(unsent) /\ Len(unsent) <= NumTx - 1
      /\ \A i \in TxDesc : Ahead(i) < Len(unsent) => tx[i] = unsent[Ahead(i) + 1]
      /\ \A i \in 1 .. Len(unsent) : unsent[i].n = sends - Len(unsent) + i - 1
  BY <1>5 DEF TxRing, FramesGoOut
<1>8. \A i \in TxDesc : Ahead(i)' = Ahead(i) /\ Ahead(i) \in Nat
  BY <1>1, <1>2 DEF Ahead, TxDesc
<1>9. CASE Len(unsent) = NumTx - 1
  <2>1. unsent' = << >> /\ Len(unsent') = 0
    BY <1>2, <1>9
  <2>2. Ahead(tdt)' = 0
    <3>1. Ahead(tx_cur) = NumTx - 1 /\ tdh' = tdh
      BY Zenon, <1>2, <1>7, <1>9
    <3>. QED  BY <1>1, <1>3, <3>1 DEF Ahead, TxDesc
  <2>3. FramesGoOut'
    BY <1>5, <1>8, <2>1, <2>2 DEF FramesGoOut
  <2>. QED  BY <1>1, <1>2, <1>3, <1>4, <1>5, <1>6, <2>1, <2>3 DEF TxRing
<1>10. CASE Len(unsent) # NumTx - 1
  <2>1. unsent' = Append(unsent, e)
    BY Zenon, <1>2, <1>10
  <2>2. /\ Len(unsent') = Len(unsent) + 1 /\ unsent'[Len(unsent) + 1] = e
        /\ \A k \in 1 .. Len(unsent) : unsent'[k] = unsent[k]
    BY <1>1, <1>4, <2>1
  <2>3. Len(unsent') <= NumTx - 1
    BY <1>1, <1>6, <1>7, <1>10, <2>2
  <2>4. Ahead(tdt)' = Len(unsent')
    <3>1. Ahead(tx_cur) \in Nat /\ Ahead(tx_cur) < NumTx - 1
      BY <1>1, <1>6, <1>7, <1>10
    <3>2. Ahead(tdt)' = Ahead(tx_cur) + 1
      BY <1>1, <1>2, <1>3, <3>1 DEF Ahead, TxDesc
    <3>. QED  BY <1>7, <2>2, <3>2
  <2>5. ASSUME NEW i \in TxDesc, Ahead(i)' < Len(unsent')
        PROVE  tx'[i] = unsent'[Ahead(i)' + 1]
    <3>1. CASE i = tx_cur
      BY Zenon, <1>5, <1>7, <1>8, <2>2, <3>1
    <3>2. CASE i # tx_cur
      <4>1. Ahead(i) # Ahead(tx_cur)
        BY <1>1, <3>2 DEF Ahead, TxDesc
      <4>2. Ahead(i) < Len(unsent)
        BY <1>6, <1>7, <1>8, <2>2, <2>5, <4>1
      <4>. QED  BY <1>5, <1>7, <1>8, <2>2, <3>2, <4>2
    <3>. QED  BY <3>1, <3>2
  <2>6. ASSUME NEW i \in 1 .. Len(unsent')
        PROVE  unsent'[i].n = sends' - Len(unsent') + i - 1
    <3>3. /\ sends' = sends + 1 /\ Len(unsent') = Len(unsent) + 1
          /\ sends \in Nat /\ Len(unsent) \in Nat
      BY Zenon, <1>1, <1>2, <1>6, <2>2
    <3>1. CASE i = Len(unsent) + 1
      <4>1. unsent'[i].n = sends
        BY Zenon, <1>4, <2>2, <3>1
      <4>2. sends = sends' - Len(unsent') + i - 1
        BY <3>1, <3>3
      <4>. QED  BY Zenon, <4>1, <4>2
    <3>2. CASE i \in 1 .. Len(unsent)
      <4>1. unsent'[i].n = sends - Len(unsent) + i - 1
        BY <1>7, <2>2, <3>2
      <4>2. sends - Len(unsent) + i - 1 = sends' - Len(unsent') + i - 1
        BY <3>2, <3>3
      <4>. QED  BY Zenon, <4>1, <4>2
    <3>. QED  BY <1>6, <2>2, <2>6, <3>1, <3>2
  <2>7. FramesGoOut'
    BY Zenon, <1>5, <2>4, <2>5, <2>6 DEF FramesGoOut
  <2>. QED  BY Zenon, <1>1, <1>2, <1>3, <1>4, <1>5, <1>6, <2>3, <2>7 DEF TxRing
<1>. QED
  BY Zenon, <1>9, <1>10

\* The card takes the frame that has waited longest.
LEMMA CardEmptiesRing ==
  ASSUME Typed, TxRing, card_sends
  PROVE  /\ TxRing' /\ tdh' \in TxDesc
         /\ tx' \in [TxDesc -> Entry] /\ unsent' \in Seq(Entry)
         /\ \A i \in TxDesc : tx'[i].frame \in {tx[i].frame, NoFrame}
<1>1. /\ tdh \in TxDesc /\ tdt \in TxDesc /\ tx_cur \in TxDesc
      /\ tx \in [TxDesc -> Entry] /\ unsent \in Seq(Entry) /\ sends \in Nat
      /\ NumTx \in Nat /\ NumTx > 1
  BY Zenon, NetAssumption DEF Typed, TypeOK, TxDesc
<1>2. /\ tdh # tdt /\ tdh' = NextTx(tdh) /\ unsent' = Tail(unsent)
      /\ tx' = [tx EXCEPT ![tdh] = Done]
      /\ tdt' = tdt /\ tx_cur' = tx_cur /\ sends' = sends
  BY DEF card_sends
<1>3. tdh' = (IF tdh = NumTx - 1 THEN 0 ELSE tdh + 1) /\ tdh' \in TxDesc
  BY Zenon, <1>1, <1>2, RingEnds
<1>4. Done \in Entry /\ Done.frame = NoFrame
  BY DEF Done, Sent, Entry, NoFrame, Frame, Name
<1>5. /\ tx' \in [TxDesc -> Entry] /\ DOMAIN tx = TxDesc /\ DOMAIN tx' = TxDesc
      /\ \A i \in TxDesc : tx'[i] = IF i = tdh THEN Done ELSE tx[i]
  BY <1>1, <1>2, <1>4
<1>6. /\ Ahead(tdt) = Len(unsent) /\ Len(unsent) <= NumTx - 1 /\ tdt = tx_cur
      /\ \A i \in TxDesc : Ahead(i) < Len(unsent) => tx[i] = unsent[Ahead(i) + 1]
      /\ \A i \in 1 .. Len(unsent) : unsent[i].n = sends - Len(unsent) + i - 1
  BY <1>5 DEF TxRing, FramesGoOut
<1>7. Len(unsent) \in Nat /\ Len(unsent) > 0
  BY <1>1, <1>2, <1>6 DEF Ahead, TxDesc
<1>8. unsent # << >>
  BY <1>7
<1>9. /\ unsent' \in Seq(Entry) /\ Len(unsent') = Len(unsent) - 1
      /\ \A k \in 1 .. Len(unsent) - 1 : unsent'[k] = unsent[k + 1]
  BY Zenon, <1>1, <1>2, <1>8, TailOfSeq
<1>10. Ahead(tdt)' = Len(unsent')
  <2>1. Ahead(tdt)' = Ahead(tdt) - 1
    BY <1>1, <1>2, <1>3 DEF Ahead, TxDesc
  <2>. QED  BY <1>6, <1>9, <2>1
<1>11. ASSUME NEW i \in TxDesc, Ahead(i)' < Len(unsent')
       PROVE  tx'[i] = unsent'[Ahead(i)' + 1]
  <2>1. i # tdh
    <3>1. SUFFICES ASSUME i = tdh PROVE FALSE
      OBVIOUS
    <3>2. Ahead(i)' = NumTx - 1
      BY <1>1, <1>3, <3>1 DEF Ahead, TxDesc
    <3>. QED  BY <1>1, <1>6, <1>7, <1>9, <1>11, <3>2
  <2>2. Ahead(i)' = Ahead(i) - 1 /\ Ahead(i) \in 1 .. NumTx - 1
    BY <1>1, <1>3, <2>1 DEF Ahead, TxDesc
  <2>3. Ahead(i) < Len(unsent) /\ tx[i] = unsent[Ahead(i) + 1]
    BY <1>1, <1>6, <1>7, <1>9, <1>11, <2>2
  <2>4. tx'[i] = tx[i]
    BY <1>5, <2>1
  <2>. QED  BY <1>7, <1>9, <2>2, <2>3, <2>4
<1>12. ASSUME NEW i \in 1 .. Len(unsent')
       PROVE  unsent'[i].n = sends' - Len(unsent') + i - 1
  <2>1. i + 1 \in 1 .. Len(unsent) /\ i \in 1 .. Len(unsent) - 1
    BY <1>7, <1>9, <1>12
  <2>2. unsent'[i] = unsent[i + 1] /\ unsent[i + 1].n = sends - Len(unsent) + (i + 1) - 1
    BY <1>6, <1>9, <2>1
  <2>. QED  BY <1>1, <1>2, <1>7, <1>9, <2>1, <2>2
<1>13. FramesGoOut'
  BY Zenon, <1>5, <1>10, <1>11, <1>12 DEF FramesGoOut
<1>14. Len(unsent') <= NumTx - 1
  BY <1>1, <1>6, <1>7, <1>9
<1>15. TxRing'
  BY Zenon, <1>2, <1>6, <1>13, <1>14 DEF TxRing
<1>. QED
  BY Zenon, <1>3, <1>4, <1>5, <1>9, <1>15

-----------------------------------------------------------------------------
(* The sockets *)

\* A set of natural numbers has a least one.
LEMMA LeastIndex ==
  ASSUME NEW S \in SUBSET Nat, S # {}
  PROVE  \E m \in S : \A k \in S : m <= k
<1>1. PICK m \in S : \A k \in S : ~(<<k, m>> \in OpToRel(<, Nat))
  BY Zenon, NatLessThanWellFounded, WFMin
<1>2. \A k \in S : ~(k < m)
  BY Zenon, <1>1 DEF OpToRel
<1>. QED
  BY <1>2

\* What smoltcp does with a datagram: the first socket bound to its port queues
\* it, and nothing else changes.
LEMMA DeliverFirst ==
  ASSUME NEW ss \in Seq(Socket), NEW f \in Frame
  PROVE  /\ Deliver(ss, f) \in Seq(Socket) /\ Len(Deliver(ss, f)) = Len(ss)
         /\ \A i \in 1 .. Len(ss) :
              /\ Deliver(ss, f)[i].port = ss[i].port
              /\ \/ Deliver(ss, f)[i].queue = ss[i].queue
                 \/ /\ ss[i].port = f.port
                    /\ Deliver(ss, f)[i].queue = Append(ss[i].queue, f.host)
                    /\ \A j \in 1 .. i - 1 : ss[j].port # f.port
<1> DEFINE bound == {i \in 1 .. Len(ss) : ss[i].port = f.port}
           first == CHOOSE i \in bound : \A j \in bound : i <= j
<1>1. CASE bound = {}
  <2>1. Deliver(ss, f) = ss
    BY <1>1 DEF Deliver
  <2>. QED  BY <2>1
<1>2. CASE bound # {}
  <2>1. bound \in SUBSET Nat
    OBVIOUS
  <2>2. first \in bound /\ \A j \in bound : first <= j
    <3> HIDE DEF bound
    <3>1. \E i \in bound : \A j \in bound : i <= j
      BY Zenon, <1>2, <2>1, LeastIndex
    <3>. QED  BY Zenon, <3>1
  <2>3. Deliver(ss, f) = [ss EXCEPT ![first].queue = Append(@, f.host)]
    BY Zenon, <1>2 DEF Deliver
  <2> HIDE DEF first
  <2>4. /\ first \in 1 .. Len(ss) /\ ss[first].port = f.port
        /\ \A j \in 1 .. first - 1 : ss[j].port # f.port
    <3>1. first \in 1 .. Len(ss) /\ ss[first].port = f.port
      BY <2>2
    <3>2. ASSUME NEW j \in 1 .. first - 1, ss[j].port = f.port PROVE FALSE
      BY <2>2, <3>1, <3>2
    <3>. QED  BY <3>1, <3>2
  <2> HIDE DEF bound
  <2>5. ss[first] \in Socket
    BY <2>4
  <2>6. Append(ss[first].queue, f.host) \in Seq(Name)
    BY <2>5 DEF Socket, Frame
  <2> DEFINE full == [ss[first] EXCEPT !.queue = Append(ss[first].queue, f.host)]
  <2>7. full \in Socket /\ Deliver(ss, f) = [ss EXCEPT ![first] = full]
    BY Zenon, <2>3, <2>4, <2>5, <2>6 DEF Socket
  <2>10. full.port = ss[first].port /\ full.queue = Append(ss[first].queue, f.host)
    BY <2>5 DEF Socket
  <2> HIDE DEF full
  <2>8. Deliver(ss, f) \in Seq(Socket) /\ Len(Deliver(ss, f)) = Len(ss)
    BY <2>4, <2>7, ReplacedInSeq
  <2>9. ASSUME NEW i \in 1 .. Len(ss)
        PROVE  Deliver(ss, f)[i] = IF i = first THEN full ELSE ss[i]
    BY <2>4, <2>7
  <2>. QED  BY Zenon, <2>4, <2>8, <2>9, <2>10
<1>. QED
  BY Zenon, <1>1, <1>2

\* As long as the sockets are what they were and no new query begins, what was
\* expected still is.
LEMMA SameSockets ==
  ASSUME SocketsAgree, sockets' = sockets,
         Resolving' => Resolving /\ query'.host = query.host
  PROVE  /\ \A f \in Frame : Expected(f) => Expected(f)'
         /\ FirstReceives' /\ MineAnswers'
<1>1. Mine' = Mine /\ MineAlone' = MineAlone /\ (Resolving' => query'.host = query.host)
  BY DEF Mine, MineAlone
<1>2. FirstReceives'
  BY DEF SocketsAgree, FirstReceives
<1>3. MineAnswers'
  BY Zenon, <1>1 DEF SocketsAgree, MineAnswers
<1>4. \A f \in Frame : Expected(f) => Expected(f)'
  BY Zenon, <1>1 DEF Expected
<1>. QED
  BY <1>2, <1>3, <1>4

\* The datagram the kernel finds in its ring.
LEMMA DeliverStep ==
  ASSUME IInv, NEW g \in Frames, g \in Frame, sockets' = Deliver(sockets, g),
         Resolving' => Resolving /\ query'.host = query.host, Frames' \subseteq Frames \cup {NoFrame},
         Frames \subseteq Frame
  PROVE  sockets' \in Seq(Socket) /\ Len(sockets') = Len(sockets) /\ SocketsAgree'
<1>1. sockets \in Seq(Socket) /\ Len(sockets) \in Nat
  <2>1. sockets \in Seq(Socket)
    BY Zenon DEF IInv, Typed
  <2>. QED  BY <2>1
<1>2. /\ sockets' \in Seq(Socket) /\ Len(sockets') = Len(sockets)
      /\ \A i \in 1 .. Len(sockets) :
           /\ sockets'[i].port = sockets[i].port
           /\ \/ sockets'[i].queue = sockets[i].queue
              \/ /\ sockets[i].port = g.port
                 /\ sockets'[i].queue = Append(sockets[i].queue, g.host)
                 /\ \A j \in 1 .. i - 1 : sockets[j].port # g.port
  BY SMTT(30), <1>1, DeliverFirst
<1>3. FirstReceives'
  <2>1. SUFFICES ASSUME NEW i \in 1 .. Len(sockets), NEW j \in 1 .. Len(sockets),
                        i < j, sockets'[i].port = sockets'[j].port
                 PROVE  sockets'[j].queue = << >>
    BY <1>2 DEF FirstReceives
  <2>2. sockets[i].port = sockets[j].port /\ i \in 1 .. j - 1
    BY <1>1, <1>2, <2>1
  <2>3. sockets[j].queue = << >>
    BY Zenon, <2>1, <2>2 DEF IInv, SocketsAgree, FirstReceives
  <2>. QED  BY Zenon, <1>2, <2>2, <2>3
<1>4. ASSUME Resolving
      PROVE  /\ Len(sockets) > 0 /\ Len(sockets) \in 1 .. Len(sockets)
             /\ Mine'.port = Mine.port /\ Mine.port \in Port /\ MineAlone' = MineAlone
  <2>1. Len(sockets) > 0 /\ Len(sockets) \in 1 .. Len(sockets)
    BY <1>1, <1>4 DEF IInv, SocketsAgree, MineAnswers
  <2>2. Mine'.port = Mine.port /\ Mine.port \in Port
    <3>1. /\ sockets[Len(sockets)] \in Socket
          /\ sockets'[Len(sockets)].port = sockets[Len(sockets)].port
      BY <1>1, <1>2, <2>1
    <3>. QED  BY Zenon, <1>2, <3>1 DEF Mine, Socket
  <2>3. \A i \in 1 .. Len(sockets) - 1 : sockets'[i].port = sockets[i].port
    BY SMTT(30), <1>1, <1>2
  <2>4. MineAlone' = MineAlone
    BY <1>2, <2>2, <2>3 DEF MineAlone
  <2>. QED  BY Zenon, <2>1, <2>2, <2>4
<1>5. ASSUME NEW f \in Frame, Expected(f), f # NoFrame
      PROVE  Expected(f)'
  <2>1. \E i \in 1 .. Len(sockets') : sockets'[i].port = f.port
    BY Zenon, <1>2, <1>5 DEF Expected
  <2>2. ASSUME Resolving', MineAlone', f.port = Mine'.port
        PROVE  f.host = query'.host
    <3>1. Resolving /\ MineAlone /\ f.port = Mine.port /\ query'.host = query.host
      BY Zenon, <1>4, <2>2
    <3>. QED  BY <1>5, <3>1 DEF Expected
  <2>. QED  BY Zenon, <2>1, <2>2 DEF Expected
<1>6. FramesAreExpected'
  <2>1. ASSUME NEW f \in Frames' PROVE Expected(f)'
    <3>1. f # NoFrame => f \in Frame /\ Expected(f)
      BY Zenon DEF IInv, SocketsAgree, FramesAreExpected
    <3>2. f = NoFrame => Expected(f)'
      BY Zenon DEF Expected, NoFrame
    <3>. QED  BY Zenon, <1>5, <3>1, <3>2
  <2>. QED  BY <2>1 DEF FramesAreExpected
<1>7. ASSUME Resolving', MineAlone', NEW k \in 1 .. Len(Mine'.queue)
      PROVE  Mine'.queue[k] = query'.host
  <2>1. Resolving /\ MineAlone /\ query'.host = query.host /\ Mine'.port = Mine.port
    BY Zenon, <1>4, <1>7
  <2>2. \A m \in 1 .. Len(Mine.queue) : Mine.queue[m] = query.host
    BY <2>1 DEF IInv, SocketsAgree, MineAnswers
  <2>3. Mine \in Socket /\ Mine.queue \in Seq(Name) /\ Mine.port \in Port
    <3>1. sockets[Len(sockets)] \in Socket
      BY <1>1, <1>4, <2>1
    <3>. QED  BY <3>1 DEF Mine, Socket
  <2>4. CASE Mine'.queue = Mine.queue
    BY Zenon, <1>7, <2>1, <2>2, <2>4
  <2>5. CASE Mine.port = g.port /\ Mine'.queue = Append(Mine.queue, g.host)
    <3>1. g # NoFrame
      BY <2>3, <2>5, NetAssumption DEF NoFrame
    <3>2. g.host = query.host
      BY Zenon, <2>1, <2>5, <3>1 DEF IInv, SocketsAgree, FramesAreExpected, Expected
    <3>. QED  BY SMTT(30), <1>7, <2>1, <2>2, <2>3, <2>5, <3>2
  <2>6. \/ Mine'.queue = Mine.queue
        \/ Mine.port = g.port /\ Mine'.queue = Append(Mine.queue, g.host)
    <3>1. \/ sockets'[Len(sockets)].queue = sockets[Len(sockets)].queue
          \/ /\ sockets[Len(sockets)].port = g.port
             /\ sockets'[Len(sockets)].queue = Append(sockets[Len(sockets)].queue, g.host)
      BY Zenon, <1>2, <1>4, <2>1
    <3>2. Mine' = sockets'[Len(sockets)]
      BY <1>2 DEF Mine
    <3>3. Mine = sockets[Len(sockets)]
      BY Zenon DEF Mine
    <3>. QED  BY Zenon, <3>1, <3>2, <3>3
  <2>. QED  BY <2>4, <2>5, <2>6
<1>8. MineAnswers'
  BY Zenon, <1>2, <1>4, <1>7 DEF MineAnswers
<1>. QED
  BY Zenon, <1>2, <1>3, <1>6, <1>8 DEF SocketsAgree

-----------------------------------------------------------------------------
(* The steps *)

\* The initial state satisfies the invariant.
LEMMA InitIInv == Init => IInv
<1> SUFFICES ASSUME Init PROVE IInv
  OBVIOUS
<1> USE NetAssumption
<1>1. NoFrame \in Frame
  BY DEF NoFrame, Frame, Name
<1>2. Typed
  <2>1. rx \in [Desc -> [dd : BOOLEAN, n : 0 .. MaxFrames, frame : Frame]]
    BY <1>1 DEF Init, init_rx, init_tx, Empty
  <2>2. TypeOK
    BY <2>1 DEF Init, init_rx, init_tx, TypeOK, Desc, NoQuery
  <2>6. Done \in Entry
    BY <1>1 DEF Done, Sent, Entry
  <2>3. /\ tx \in [TxDesc -> Entry] /\ flight \in SUBSET Frame
        /\ lease \in [configured : BOOLEAN, dns : BOOLEAN]
        /\ pc = "poll" => ret \in {"idle", "tick", "dns send", "dns recv"}
    BY Zenon, <2>6 DEF Init, init_rx, init_tx, TxDesc, NoLease
  <2>4. unsent \in Seq(Entry) /\ sends \in Nat /\ sockets \in Seq(Socket)
    BY DEF Init, init_tx
  <2>5. query \in [host : Name, waited : 0 .. Timeout + 1]
    BY DEF Init, init_rx, init_tx, NoQuery, Name
  <2>. QED  BY Zenon, <2>1, <2>2, <2>3, <2>4, <2>5 DEF Typed
<1>3. RxRing
  <2>1. rx_cur = 0 /\ rdh = 0 /\ rdt = NumRx - 1 /\ written = 0 /\ read = 0
    BY DEF Init, init_rx
  <2>2. \A i \in Desc : ~rx[i].dd /\ Behind(i) = i
    BY <2>1 DEF Init, init_rx, init_tx, Empty, Behind, Desc
  <2>3. 0 \in Desc
    BY DEF Desc
  <2>. QED  BY <2>1, <2>2, <2>3 DEF RxRing, Desc
<1>4. TxRing
  BY DEF Init, init_rx, init_tx, TxRing, FramesGoOut, Ahead
<1>5. SocketsAgree
  <2>1. \A f \in Frames : f = NoFrame
    BY DEF Frames, Init, init_rx, init_tx, TxDesc, Empty, Done, Sent
  <2>2. ~Resolving /\ Len(sockets) = 0
    BY DEF Init, init_rx, init_tx, Resolving
  <2>. QED  BY <2>1, <2>2 DEF SocketsAgree, FirstReceives, FramesAreExpected, Expected, MineAnswers
<1>6. Answered
  BY DEF Init, Answered, AnswersMatch
<1>. QED
  BY <1>2, <1>3, <1>4, <1>5, <1>6 DEF IInv

\* All frames have the type of frames.
LEMMA FramesTyped == Typed => Frames \subseteq Frame
<1> SUFFICES ASSUME Typed, NEW f \in Frames PROVE f \in Frame
  OBVIOUS
<1>1. CASE f \in flight
  BY Zenon, <1>1 DEF Typed
<1>2. ASSUME NEW i \in TxDesc, f = tx[i].frame PROVE f \in Frame
  BY Zenon, <1>2 DEF Typed, Entry
<1>3. ASSUME NEW i \in Desc, f = rx[i].frame PROVE f \in Frame
  BY Zenon, <1>3 DEF Typed
<1>. QED
  BY <1>1, <1>2, <1>3 DEF Frames

\* What resolve_a returned is kept until the request is answered.
LEMMA ResultKept ==
  ASSUME IInv, UNCHANGED result, pc = "respond" => UNCHANGED <<pc, query>>
  PROVE  Answered'
BY Zenon DEF IInv, Answered, AnswersMatch

\* A step that leaves the rings, the frames and the sockets alone and begins no
\* query.
LEMMA QuietStep ==
  ASSUME IInv, Typed', Answered', UNCHANGED <<card, out, flight, sockets>>,
         Resolving' => Resolving /\ query'.host = query.host
  PROVE  IInv'
<1>1. RxRing' /\ TxRing' /\ Frames' = Frames
  <2>1. RxRing'
    BY Zenon DEF IInv, RxRing, Behind, card
  <2>2. TxRing'
    BY Zenon DEF IInv, TxRing, FramesGoOut, Ahead, out
  <2>3. Frames' = Frames
    BY Zenon DEF Frames, card, out
  <2>. QED  BY Zenon, <2>1, <2>2, <2>3
<1>2. /\ \A f \in Frame : Expected(f) => Expected(f)'
      /\ FirstReceives' /\ MineAnswers'
  BY Zenon, SameSockets DEF IInv
<1>3. FramesAreExpected'
  BY Zenon, <1>1, <1>2, FramesTyped DEF IInv, SocketsAgree, FramesAreExpected
<1>. QED
  BY <1>1, <1>2, <1>3 DEF IInv, SocketsAgree

\* New frames that are expected, in rings that are in order.
LEMMA FramesStep ==
  ASSUME IInv, Typed', RxRing', TxRing', Answered', sockets' = sockets,
         Resolving' => Resolving /\ query'.host = query.host,
         NEW new \in SUBSET Frame, \A f \in new : Expected(f),
         Frames' \subseteq Frames \cup new
  PROVE  IInv'
<1>1. /\ \A f \in Frame : Expected(f) => Expected(f)'
      /\ FirstReceives' /\ MineAnswers'
  BY Zenon, SameSockets DEF IInv
<1>2. \A f \in Frames \cup new : f \in Frame /\ Expected(f)
  BY Zenon, FramesTyped DEF IInv, SocketsAgree, FramesAreExpected
<1>3. FramesAreExpected'
  BY <1>1, <1>2 DEF FramesAreExpected
<1>. QED
  BY Zenon, <1>1, <1>3 DEF IInv, SocketsAgree

\* The card writes a frame that is on its way, or one of its own.
LEMMA CardWritesStep ==
  ASSUME IInv, NEW f \in flight \cup {NoFrame}, card_writes(f), flight' = flight
  PROVE  IInv'
<1>1. f \in Frame
  <2>1. NoFrame \in Frame
    BY DEF NoFrame, Frame, Name
  <2>. QED  BY Zenon, <2>1 DEF IInv, Typed
<1>2. /\ RxRing'
      /\ rx' \in [Desc -> [dd : BOOLEAN, n : 0 .. MaxFrames, frame : Frame]]
      /\ rdh' \in Desc /\ written' \in 0 .. MaxFrames
      /\ \A i \in Desc : rx'[i].frame \in {rx[i].frame, f}
  BY <1>1, CardFillsRing DEF IInv
<1>3. Typed'
  <2>1. TypeOK'
    BY ZenonT(30), <1>2 DEF IInv, Typed, TypeOK, card_writes, out, dhcp, http, task
  <2>. QED
    BY Zenon, <1>2, <2>1 DEF IInv, Typed, card_writes, out, dhcp, http, task
<1>4. TxRing' /\ tx' = tx
  BY DEF IInv, TxRing, FramesGoOut, Ahead, card_writes, out
<1>5. Frames' \subseteq Frames \cup {f}
  BY Zenon, <1>2, <1>4 DEF Frames
<1>6. {f} \in SUBSET Frame /\ \A g \in {f} : Expected(g)
  BY <1>1 DEF IInv, SocketsAgree, FramesAreExpected, Frames, Expected
<1>7. UNCHANGED <<sockets, result, pc, query>> /\ Resolving' = Resolving
  BY DEF card_writes, task, Resolving
<1>8. Answered'
  BY Zenon, <1>7, ResultKept
<1>. QED
  BY ZenonT(30), <1>1, <1>2, <1>3, <1>4, <1>5, <1>6, <1>7, <1>8, FramesStep

\* recv takes a frame off the ring and hands it to smoltcp.
LEMMA RecvStep ==
  ASSUME IInv, recv
  PROVE  IInv'
<1> DEFINE g == rx[rx_cur].frame
<1>1. /\ RxRing'
      /\ rx' \in [Desc -> [dd : BOOLEAN, n : 0 .. MaxFrames, frame : Frame]]
      /\ rx_cur' \in Desc /\ rdt' \in Desc /\ read' \in 0 .. MaxFrames
      /\ \A i \in Desc : rx'[i].frame \in {rx[i].frame, NoFrame}
  BY RecvEmptiesRing DEF IInv
<1>2. UNCHANGED <<rdh, written, out, flight, dhcp, http, task, result>>
  BY DEF recv
<1>3. Frames' \subseteq Frames \cup {NoFrame} /\ g \in Frames /\ Frames \subseteq Frame
  <2>1. tx' = tx /\ flight' = flight /\ rx_cur \in Desc
    BY Zenon, <1>2 DEF out, IInv, Typed, TypeOK
  <2>2. Frames' \subseteq Frames \cup {NoFrame} /\ g \in Frames
    BY Zenon, <1>1, <2>1 DEF Frames
  <2>. QED  BY <2>2, FramesTyped DEF IInv
<1>4. Resolving' = Resolving /\ query' = query /\ sockets' = Deliver(sockets, g)
  BY DEF recv, task, Resolving
<1>5. sockets' \in Seq(Socket) /\ Len(sockets') = Len(sockets) /\ SocketsAgree'
  BY Zenon, <1>3, <1>4, DeliverStep
<1>6. Typed'
  <2>1. TypeOK'
    BY ZenonT(30), <1>1, <1>2, <1>5 DEF IInv, Typed, TypeOK, out, dhcp, http, task
  <2>. QED
    BY Zenon, <1>1, <1>2, <1>5, <2>1 DEF IInv, Typed, out, dhcp, http, task
<1>7. TxRing' /\ Answered'
  <2>1. TxRing'
    BY <1>2 DEF IInv, TxRing, FramesGoOut, Ahead, out
  <2>2. Answered'
    BY <1>2, ResultKept DEF task
  <2>. QED  BY <2>1, <2>2
<1>. QED
  BY <1>1, <1>5, <1>6, <1>7 DEF IInv

\* A frame handed to send.
LEMMA SendStep ==
  ASSUME IInv, NEW f \in Frame, Expected(f), send(f),
         UNCHANGED <<card, flight, sockets, dhcp, http, query, ticks, result>>,
         pc # "respond", pc' = "poll", ret' \in {"idle", "tick", "dns send", "dns recv"},
         Resolving' => Resolving
  PROVE  IInv'
<1>1. /\ TxRing'
      /\ tx' \in [TxDesc -> Entry] /\ unsent' \in Seq(Entry) /\ sends' \in Nat
      /\ tdh' \in TxDesc /\ tdt' \in TxDesc /\ tx_cur' \in TxDesc
      /\ \A i \in TxDesc : tx'[i].frame \in {tx[i].frame, f}
  BY Zenon, SendFillsRing DEF IInv
<1>2. Typed'
  <2>1. TypeOK'
    BY Zenon, <1>1 DEF IInv, Typed, TypeOK, card, dhcp, http, TxDesc
  <2>. QED
    BY Zenon, <1>1, <2>1 DEF IInv, Typed, card, dhcp, http
<1>3. RxRing'
  BY Zenon DEF IInv, RxRing, Behind, card
<1>4. Frames' \subseteq Frames \cup {f}
  <2>1. rx' = rx /\ flight' = flight
    BY Zenon DEF card
  <2>. QED  BY Zenon, <1>1, <2>1 DEF Frames
<1>5. {f} \in SUBSET Frame /\ \A g \in {f} : Expected(g)
  OBVIOUS
<1>6. Answered'
  BY Zenon, ResultKept
<1>. QED
  BY Zenon, <1>1, <1>2, <1>3, <1>4, <1>5, <1>6, FramesStep

\* A frame smoltcp sends by itself.
LEMMA SendOtherStep ==
  ASSUME IInv, send_other
  PROVE  IInv'
<1>1. NoFrame \in Frame /\ Expected(NoFrame)
  BY DEF NoFrame, Frame, Name, Expected
<1>2. /\ pc # "respond" /\ pc' = "poll" /\ (Resolving' => Resolving)
      /\ ret' \in {"idle", "tick", "dns send", "dns recv"}
  BY Zenon DEF send_other, task, Resolving, IInv, Typed
<1>3. send(NoFrame) /\ UNCHANGED <<card, flight, sockets, dhcp, http, query, ticks, result>>
  BY DEF send_other, task
<1>. QED
  BY Zenon, <1>1, <1>2, <1>3, SendStep

\* The query goes out from a port that is bound, and asks for its host; or it is
\* refused.
LEMMA DnsSendStep ==
  ASSUME IInv, dns_send
  PROVE  IInv'
<1> DEFINE f == build_query(query.host)
<1>1. Resolving /\ sockets \in Seq(Socket) /\ query.host \in Name
  BY Zenon DEF dns_send, Resolving, IInv, Typed
<1>2. Len(sockets) \in 1 .. Len(sockets)
  BY <1>1 DEF IInv, SocketsAgree, MineAnswers
<1>3. Mine = sockets[Len(sockets)] /\ Mine \in Socket
  BY SMTT(30), <1>1, <1>2 DEF Mine
<1>4. f \in Frame
  BY <1>1, <1>3 DEF build_query, Frame, Socket
<1>5. Expected(f)
  BY <1>2, <1>3 DEF Expected, build_query
<1>6. pc = "dns send" /\ UNCHANGED <<card, flight, sockets, dhcp, http, query, ticks, result>>
  BY Zenon DEF dns_send
<1>7. CASE send(f) /\ Poll("dns recv")
  <2>1. /\ pc # "respond" /\ pc' = "poll" /\ (Resolving' => Resolving)
        /\ ret' \in {"idle", "tick", "dns send", "dns recv"}
    BY Zenon, <1>1, <1>6, <1>7 DEF Poll
  <2>. QED  BY Zenon, <1>4, <1>5, <1>6, <1>7, <2>1, SendStep
<1>8. CASE pc' = "respond" /\ UNCHANGED <<out, ret>>
  <2>1. Typed'
    <3>1. TypeOK'
      BY ZenonT(30), <1>6, <1>8 DEF IInv, Typed, TypeOK, card, out, dhcp, http
    <3>. QED
      BY Zenon, <1>6, <1>8, <3>1 DEF IInv, Typed, card, out, dhcp, http
  <2>2. ~Resolving' /\ Answered'
    BY Zenon, <1>6, <1>8, ResultKept DEF Resolving
  <2>. QED  BY Zenon, <1>6, <1>8, <2>1, <2>2, QuietStep
<1>. QED
  BY Zenon, <1>7, <1>8 DEF dns_send

\* The card sends; what may come back answers what it sent.
LEMMA CardSendsStep ==
  ASSUME IInv, card_sends
  PROVE  IInv'
<1> DEFINE f == tx[tdh].frame
<1>1. /\ TxRing' /\ tdh' \in TxDesc
      /\ tx' \in [TxDesc -> Entry] /\ unsent' \in Seq(Entry)
      /\ \A i \in TxDesc : tx'[i].frame \in {tx[i].frame, NoFrame}
  BY CardEmptiesRing DEF IInv
<1>2. /\ UNCHANGED <<card, tdt, tx_cur, sends, sockets, dhcp, http, task, result>>
      /\ flight' \subseteq flight \cup {f}
  BY Zenon DEF card_sends
<1>3. tdh \in TxDesc /\ f \in Frame /\ f \in Frames
  BY Zenon DEF IInv, Typed, TypeOK, TxDesc, Entry, Frames
<1>4. /\ {f, NoFrame} \in SUBSET Frame
      /\ \A g \in {f, NoFrame} : Expected(g)
  <2>1. NoFrame \in Frame /\ Expected(NoFrame)
    BY DEF NoFrame, Frame, Name, Expected
  <2>. QED  BY Zenon, <1>3, <2>1 DEF IInv, SocketsAgree, FramesAreExpected
<1> HIDE DEF f
<1>5. Typed'
  <2>1. TypeOK'
    BY ZenonT(30), <1>1, <1>2 DEF IInv, Typed, TypeOK, card, dhcp, http, task, TxDesc
  <2>. QED
    BY Zenon, <1>1, <1>2, <1>3, <2>1 DEF IInv, Typed, card, dhcp, http, task
<1>6. RxRing'
  BY <1>2 DEF IInv, RxRing, Behind, card
<1>7. Frames' \subseteq Frames \cup {f, NoFrame}
  <2>1. rx' = rx
    BY <1>2 DEF card
  <2>. QED  BY Zenon, <1>1, <1>2, <2>1 DEF Frames
<1>8. UNCHANGED <<sockets, result, pc, query>> /\ Resolving' = Resolving
  BY <1>2 DEF task, Resolving
<1>9. Answered'
  BY Zenon, <1>8, ResultKept
<1>. QED
  BY ZenonT(30), <1>1, <1>4, <1>5, <1>6, <1>7, <1>8, <1>9, FramesStep

\* A query begins, or ends at once: whatever has the port of its new socket was there for an
\* earlier socket of that port.
LEMMA BindStep ==
  ASSUME IInv, bind
  PROVE  IInv'
<1>1. sockets \in Seq(Socket) /\ Len(sockets) \in Nat /\ Len(sockets) <= MaxQueries
  <2>1. sockets \in Seq(Socket) /\ Len(sockets) <= MaxQueries
    BY Zenon DEF IInv, Typed, TypeOK
  <2>. QED  BY <2>1
<1>2. pc = "resolve" /\ UNCHANGED <<card, out, flight, dhcp, http, query, ticks, result>>
  BY Zenon DEF bind
<1>6. Answered'
  BY Zenon, <1>2, ResultKept
<1>3. CASE query.host \in LongName \/ ~lease.dns
  <2>1. pc' = "respond" /\ UNCHANGED <<ret, sockets>>
    BY Zenon, <1>3 DEF bind
  <2>2. Typed'
    <3>1. TypeOK'
      BY Zenon, <1>2, <2>1 DEF IInv, Typed, TypeOK, card, out, dhcp, http
    <3>. QED
      BY Zenon, <1>2, <2>1, <3>1 DEF IInv, Typed, card, out, dhcp, http
  <2>3. ~Resolving'
    BY <2>1 DEF Resolving
  <2>. QED  BY Zenon, <1>2, <1>6, <2>1, <2>2, <2>3, QuietStep
<1>4. CASE ~(query.host \in LongName \/ ~lease.dns)
  <2>1. PICK p \in Port : udp_bind(p)
    BY Zenon, <1>4 DEF bind
  <2> DEFINE s == [port |-> p, queue |-> << >>]
  <2>2. sockets' = Append(sockets, s)
    BY <2>1 DEF udp_bind
  <2>3. s \in Socket /\ s.port = p /\ s.queue = << >>
    BY DEF Socket
  <2> HIDE DEF s
  <2>4. /\ sockets' \in Seq(Socket) /\ Len(sockets') = Len(sockets) + 1
        /\ sockets'[Len(sockets) + 1] = s
        /\ \A i \in 1 .. Len(sockets) : sockets'[i] = sockets[i]
    BY <1>1, <2>2, <2>3
  <2>5. /\ Len(sockets') <= MaxQueries
        /\ pc' = "respond" \/ (pc' = "poll" /\ ret' = "dns send")
    <3>1. /\ Len(sockets) < MaxQueries
          /\ pc' = "respond" \/ (pc' = "poll" /\ ret' = "dns send")
      BY Zenon, <1>4 DEF bind, Poll
    <3>2. MaxQueries \in Nat /\ Len(sockets') = Len(sockets) + 1
      BY <2>4, NetAssumption
    <3>3. \A a, b \in Nat : a < b => a + 1 <= b
      BY SMTT(30)
    <3>. QED  BY Zenon, <1>1, <3>1, <3>2, <3>3
  <2>6. Typed'
    <3>1. TypeOK'
      BY Zenon, <1>2, <2>5 DEF IInv, Typed, TypeOK, card, out, dhcp, http
    <3>. QED
      BY Zenon, <1>2, <2>4, <2>5, <3>1 DEF IInv, Typed, card, out, dhcp, http
  <2>7. RxRing' /\ TxRing' /\ Frames' = Frames
    <3>1. RxRing'
      BY Zenon, <1>2 DEF IInv, RxRing, Behind, card
    <3>2. TxRing'
      BY Zenon, <1>2 DEF IInv, TxRing, FramesGoOut, Ahead, out
    <3>3. Frames' = Frames
      BY <1>2 DEF Frames, card, out
    <3>. QED  BY Zenon, <3>1, <3>2, <3>3
  <2>8. Mine' = s
    BY <2>4 DEF Mine
  <2>9. FirstReceives'
    <3>1. SUFFICES ASSUME NEW i \in 1 .. Len(sockets) + 1, NEW j \in 1 .. Len(sockets) + 1,
                          i < j, sockets'[i].port = sockets'[j].port
                   PROVE  sockets'[j].queue = << >>
      BY <2>4 DEF FirstReceives
    <3>2. CASE j = Len(sockets) + 1
      BY Zenon, <2>3, <2>4, <3>2
    <3>3. CASE j \in 1 .. Len(sockets)
      <4>1. i \in 1 .. Len(sockets)
        BY <1>1, <3>1, <3>3
      <4>. QED  BY Zenon, <2>4, <3>1, <3>3, <4>1 DEF IInv, SocketsAgree, FirstReceives
    <3>. QED  BY SMTT(30), <1>1, <3>2, <3>3
  <2>10. ASSUME NEW f \in Frames PROVE Expected(f)'
    <3>1. CASE f = NoFrame
      BY <3>1 DEF Expected, NoFrame
    <3>2. CASE f # NoFrame
      <4>1. PICK i \in 1 .. Len(sockets) : sockets[i].port = f.port
        BY <3>2 DEF IInv, SocketsAgree, FramesAreExpected, Expected
      <4>2. sockets'[i].port = f.port /\ i \in 1 .. Len(sockets') /\ i \in 1 .. Len(sockets') - 1
        BY <1>1, <2>4, <4>1
      <4>3. ~(MineAlone' /\ f.port = Mine'.port)
        BY <4>2 DEF MineAlone
      <4>. QED  BY Zenon, <4>2, <4>3 DEF Expected
    <3>. QED  BY Zenon, <3>1, <3>2
  <2>11. FramesAreExpected'
    BY <2>7, <2>10 DEF FramesAreExpected
  <2>12. MineAnswers'
    BY <1>1, <2>3, <2>4, <2>8 DEF MineAnswers
  <2>. QED  BY Zenon, <1>6, <2>6, <2>7, <2>9, <2>11, <2>12 DEF IInv, SocketsAgree
<1>. QED
  BY Zenon, <1>3, <1>4

\* The query takes its answer, gives up or waits on.
LEMMA DnsRecvStep ==
  ASSUME IInv, dns_recv
  PROVE  IInv'
<1>1. sockets \in Seq(Socket) /\ Len(sockets) \in Nat /\ Len(sockets) <= MaxQueries
  <2>1. sockets \in Seq(Socket) /\ Len(sockets) <= MaxQueries
    BY Zenon DEF IInv, Typed, TypeOK
  <2>. QED  BY <2>1
<1>2. UNCHANGED <<card, out, flight, dhcp, http, ticks>> /\ pc = "dns recv" /\ Resolving
  BY Zenon DEF dns_recv, Resolving
<1>3. Len(sockets) > 0 /\ Len(sockets) \in 1 .. Len(sockets)
  <2>1. Len(sockets) > 0
    BY Zenon, <1>2 DEF IInv, SocketsAgree, MineAnswers
  <2>. QED  BY <1>1, <2>1
<1>4. Mine = sockets[Len(sockets)] /\ Mine \in Socket
  BY <1>1, <1>3 DEF Mine
<1>5. CASE Mine.queue # << >>
  <2>1. /\ result' \subseteq {Head(Mine.queue)}
        /\ sockets' = [sockets EXCEPT ![Len(sockets)].queue = Tail(@)]
        /\ pc' = "respond" /\ UNCHANGED <<ret, query>>
    BY Zenon, <1>5 DEF dns_recv, AfterQuery, parse_a_response
  <2>2. Mine.queue \in Seq(Name) /\ Len(Mine.queue) \in Nat /\ Len(Mine.queue) > 0
    BY SMTT(30), <1>4, <1>5 DEF Socket
  <2>3. MineAlone
    <3>1. SUFFICES ASSUME NEW i \in 1 .. Len(sockets) - 1, sockets[i].port = Mine.port PROVE FALSE
      BY DEF MineAlone
    <3>2. i \in 1 .. Len(sockets) /\ i < Len(sockets)
      BY <1>1, <3>1
    <3>. QED  BY ZenonT(30), <1>3, <1>4, <1>5, <3>1, <3>2 DEF IInv, SocketsAgree, FirstReceives
  <2>4. Head(Mine.queue) = Mine.queue[1] /\ 1 \in 1 .. Len(Mine.queue)
    BY <2>2
  <2>5. Head(Mine.queue) = query.host
    BY Zenon, <1>2, <2>3, <2>4 DEF IInv, SocketsAgree, MineAnswers
  <2>6. Answered'
    BY Zenon, <2>1, <2>5 DEF Answered, AnswersMatch
  <2> DEFINE s == [Mine EXCEPT !.queue = Tail(Mine.queue)]
  <2>7. s \in Socket /\ s.port = Mine.port /\ sockets' = [sockets EXCEPT ![Len(sockets)] = s]
    <3>1. Tail(Mine.queue) \in Seq(Name)
      BY <1>5, <2>2
    <3>. QED  BY Zenon, <1>1, <1>3, <1>4, <2>1, <3>1 DEF Socket
  <2> HIDE DEF s
  <2>8. /\ sockets' \in Seq(Socket) /\ Len(sockets') = Len(sockets)
        /\ \A i \in 1 .. Len(sockets) : /\ sockets'[i].port = sockets[i].port
                                        /\ i # Len(sockets) => sockets'[i] = sockets[i]
    BY <1>1, <1>3, <1>4, <2>7, ReplacedInSeq
  <2>9. Typed' /\ ~Resolving'
    <3>1. TypeOK'
      BY Zenon, <1>1, <1>2, <2>1, <2>8 DEF IInv, Typed, TypeOK, card, out, dhcp, http
    <3>2. Typed'
      BY Zenon, <1>2, <2>1, <2>8, <3>1 DEF IInv, Typed, card, out, dhcp, http
    <3>. QED  BY Zenon, <2>1, <3>2 DEF Resolving
  <2>10. RxRing' /\ TxRing' /\ Frames' = Frames
    <3>1. RxRing'
      BY Zenon, <1>2 DEF IInv, RxRing, Behind, card
    <3>2. TxRing'
      BY Zenon, <1>2 DEF IInv, TxRing, FramesGoOut, Ahead, out
    <3>3. Frames' = Frames
      BY Zenon, <1>2 DEF Frames, card, out
    <3>. QED  BY Zenon, <3>1, <3>2, <3>3
  <2>11. FirstReceives'
    <3>1. SUFFICES ASSUME NEW i \in 1 .. Len(sockets), NEW j \in 1 .. Len(sockets),
                          i < j, sockets'[i].port = sockets'[j].port
                   PROVE  sockets'[j].queue = << >>
      BY <2>8 DEF FirstReceives
    <3>2. sockets[i].port = sockets[j].port
      BY <2>8, <3>1
    <3>3. j # Len(sockets)
      <4>1. SUFFICES ASSUME j = Len(sockets) PROVE FALSE
        OBVIOUS
      <4>2. i \in 1 .. Len(sockets) - 1 /\ sockets[i].port = Mine.port
        BY <1>1, <1>4, <3>1, <3>2, <4>1
      <4>. QED  BY <2>3, <4>2 DEF MineAlone
    <3>. QED  BY ZenonT(30), <2>8, <3>1, <3>2, <3>3 DEF IInv, SocketsAgree, FirstReceives
  <2>12. FramesAreExpected' /\ MineAnswers'
    <3>1. \A f \in Frames : Expected(f)'
      BY ZenonT(30), <2>8, <2>9 DEF IInv, SocketsAgree, FramesAreExpected, Expected
    <3>. QED  BY Zenon, <2>9, <2>10, <3>1 DEF FramesAreExpected, MineAnswers
  <2>. QED  BY Zenon, <2>6, <2>9, <2>10, <2>11, <2>12 DEF IInv, SocketsAgree
<1>6. CASE Mine.queue = << >>
  <2>1. /\ UNCHANGED <<sockets, result>> /\ query'.host = query.host
        /\ query' \in [host : Name, waited : 0 .. Timeout + 1]
        /\ pc' \in {"respond", "halted"} \/ (pc' = "poll" /\ ret' = "dns recv")
    <3>1. query \in [host : Name, waited : 0 .. Timeout + 1] /\ Timeout \in Nat
      BY Zenon, NetAssumption DEF IInv, Typed
    <3>2. UNCHANGED <<sockets, result>>
      BY Zenon, <1>6 DEF dns_recv, AfterQuery
    <3>3. \/ pc' \in {"respond", "halted"} /\ query' = query
          \/ /\ pc' = "poll" /\ ret' = "dns recv"
             /\ query' = [query EXCEPT !.waited = IF @ > Timeout THEN @ ELSE @ + 1]
      BY Zenon, <1>6 DEF dns_recv, Poll
    <3>4. /\ query'.host = query.host
          /\ query' \in [host : Name, waited : 0 .. Timeout + 1]
      <4>1. CASE query' = query
        BY <3>1, <4>1
      <4>2. CASE query' = [query EXCEPT !.waited = IF @ > Timeout THEN @ ELSE @ + 1]
        <5>1. query.waited \in 0 .. Timeout + 1 /\ query.host \in Name
          BY <3>1
        <5>2. (IF query.waited > Timeout THEN query.waited ELSE query.waited + 1)
                \in 0 .. Timeout + 1
          BY SMTT(30), <3>1, <5>1
        <5>. QED  BY Zenon, <3>1, <4>2, <5>1, <5>2
      <4>. QED  BY Zenon, <3>3, <4>1, <4>2
    <3>. QED  BY Zenon, <3>2, <3>3, <3>4
  <2>2. Typed'
    <3>1. TypeOK'
      BY ZenonT(30), <1>2, <2>1 DEF IInv, Typed, TypeOK, card, out, dhcp, http
    <3>. QED
      BY Zenon, <1>2, <2>1, <3>1 DEF IInv, Typed, card, out, dhcp, http
  <2>3. Answered'
    BY Zenon, <1>2, <2>1, ResultKept
  <2>. QED  BY Zenon, <1>2, <2>1, <2>2, <2>3, QuietStep
<1>. QED
  BY Zenon, <1>5, <1>6

\* What the tasks do between polls, and the client's segments.
LEMMA TaskStep ==
  ASSUME IInv,
         \/ poll_ends \/ net_poll_task \/ http_tick \/ tick \/ respond
         \/ syn \/ fin \/ rst \/ last_ack
         \/ \E path \in {"page"} \cup Host : request(path)
  PROVE  IInv'
<1> DEFINE Quiet == /\ UNCHANGED <<card, out, flight, sockets>> /\ Answered'
                    /\ Resolving' => Resolving /\ query'.host = query.host
           Kept == /\ leases' \in 0 .. MaxLeases
                   /\ tcp' \in {"Listen", "Established", "CloseWait", "LastAck", "Closed"}
                   /\ inbox' \in {"none", "page"} \cup Host
                   /\ client' \in {"away", "open", "waiting", "answered", "gone"}
                   /\ pc' \in {"idle", "poll", "tick", "respond", "resolve", "dns send", "dns recv", "halted"}
                   /\ ticks' \in BOOLEAN
                   /\ lease' \in [configured : BOOLEAN, dns : BOOLEAN]
                   /\ query' \in [host : Name, waited : 0 .. Timeout + 1]
                   /\ pc' = "poll" => ret' \in {"idle", "tick", "dns send", "dns recv"}
<1>1. ASSUME Quiet, Kept PROVE IInv'
  <2>1. TypeOK'
    BY Zenon, <1>1 DEF IInv, Typed, TypeOK, card, out
  <2>2. Typed'
    BY Zenon, <1>1, <2>1 DEF IInv, Typed, card, out
  <2>. QED  BY Zenon, <1>1, <2>2, QuietStep
<1>2. /\ leases \in 0 .. MaxLeases /\ MaxLeases \in Nat /\ Timeout \in Nat
      /\ tcp \in {"Listen", "Established", "CloseWait", "LastAck", "Closed"}
      /\ inbox \in {"none", "page"} \cup Host
      /\ client \in {"away", "open", "waiting", "answered", "gone"}
      /\ pc \in {"idle", "poll", "tick", "respond", "resolve", "dns send", "dns recv", "halted"}
      /\ ticks \in BOOLEAN
      /\ lease \in [configured : BOOLEAN, dns : BOOLEAN]
      /\ query \in [host : Name, waited : 0 .. Timeout + 1]
      /\ pc = "poll" => ret \in {"idle", "tick", "dns send", "dns recv"}
  BY Zenon, NetAssumption DEF IInv, Typed, TypeOK
<1>3. leases \in 0 .. MaxLeases /\ MaxLeases \in Nat /\ Timeout \in Nat
  BY Zenon, <1>2
<1>4. CASE poll_ends
  <2>1. Quiet
    BY Zenon, <1>2, <1>4, ResultKept DEF poll_ends, Resolving
  <2>2. lease' \in [configured : BOOLEAN, dns : BOOLEAN] /\ leases' \in 0 .. MaxLeases
    <3>1. CASE UNCHANGED dhcp
      BY Zenon, <1>2, <3>1 DEF dhcp
    <3>2. CASE dhcp_event
      <4>1. CASE lease' = NoLease /\ UNCHANGED leases
        BY Zenon, <1>2, <4>1 DEF NoLease
      <4>2. ASSUME NEW dns \in BOOLEAN, leases < MaxLeases, leases' = leases + 1,
                   lease' = Leased(lease, dns)
            PROVE  lease' \in [configured : BOOLEAN, dns : BOOLEAN] /\ leases' \in 0 .. MaxLeases
        <5>1. (lease.dns \/ dns) \in BOOLEAN
          BY Zenon, <1>2
        <5>2. lease' \in [configured : BOOLEAN, dns : BOOLEAN]
          BY Zenon, <4>2, <5>1 DEF Leased
        <5>3. leases' \in 0 .. MaxLeases
          BY SMTT(30), <1>3, <4>2
        <5>. QED  BY <5>2, <5>3
      <4>. QED  BY Zenon, <3>2, <4>1, <4>2 DEF dhcp_event
    <3>. QED  BY Zenon, <1>4, <3>1, <3>2 DEF poll_ends
  <2>3. Kept
    BY ZenonT(30), <1>2, <1>4, <2>2 DEF poll_ends, http
  <2>. QED  BY Zenon, <1>1, <2>1, <2>3
<1>5. CASE net_poll_task \/ http_tick
  <2>1. Quiet
    BY Zenon, <1>5, ResultKept DEF net_poll_task, http_tick, Poll, Resolving
  <2>2. Kept
    BY Zenon, <1>2, <1>5 DEF net_poll_task, http_tick, Poll, dhcp, http
  <2>. QED  BY Zenon, <1>1, <2>1, <2>2
<1>6. CASE tick
  <2>1. pc' \in {"idle", "respond", "resolve"} /\ inbox' = "none"
    BY Zenon, <1>6 DEF tick, route
  <2>2. Quiet
    BY Zenon, <1>6, <2>1, ResultKept DEF tick, Resolving
  <2>3. 0 \in 0 .. Timeout + 1
    BY SMTT(30), <1>3
  <2>4. query' \in [host : Name, waited : 0 .. Timeout + 1]
    <3>1. query' = query \/ (inbox \in Host /\ query' = [host |-> inbox, waited |-> 0])
      BY <1>2, <1>6 DEF tick, route
    <3>2. inbox \in Host =>
            [host |-> inbox, waited |-> 0] \in [host : Name, waited : 0 .. Timeout + 1]
      BY Zenon, <2>3 DEF Name
    <3>. QED  BY ZenonT(30), <1>2, <3>1, <3>2
  <2>5. /\ tcp' \in {"Listen", "Established", "CloseWait", "LastAck", "Closed"}
        /\ client' \in {"away", "open", "waiting", "answered", "gone"}
    BY ZenonT(30), <1>2, <1>6 DEF tick
  <2>6. Kept
    BY ZenonT(30), <1>2, <1>6, <2>1, <2>4, <2>5 DEF tick, dhcp
  <2>. QED  BY Zenon, <1>1, <2>2, <2>6
<1>7. CASE respond
  <2>1. Quiet
    BY Zenon, <1>7 DEF respond, Resolving, Answered, AnswersMatch
  <2>2. NoQuery \in [host : Name, waited : 0 .. Timeout + 1]
    <3>1. 0 \in 0 .. Timeout + 1
      BY <1>3
    <3>. QED  BY Zenon, <3>1 DEF NoQuery, Name
  <2>3. Kept
    BY Zenon, <1>2, <1>7, <2>2 DEF respond, dhcp
  <2>. QED  BY Zenon, <1>1, <2>1, <2>3
<1>8. CASE syn \/ fin \/ rst \/ last_ack
  <2>1. Quiet
    BY ZenonT(30), <1>8, ResultKept DEF syn, fin, rst, last_ack, OnlyTcp, task, Resolving
  <2>2. Kept
    BY Zenon, <1>2, <1>8 DEF syn, fin, rst, last_ack, OnlyTcp, Segment, task, dhcp
  <2>. QED  BY Zenon, <1>1, <2>1, <2>2
<1>9. ASSUME NEW path \in {"page"} \cup Host, request(path) PROVE IInv'
  <2>1. Quiet
    BY Zenon, <1>9, ResultKept DEF request, OnlyTcp, task, Resolving
  <2>2. Kept
    BY Zenon, <1>2, <1>9 DEF request, OnlyTcp, Segment, task, dhcp
  <2>. QED  BY Zenon, <1>1, <2>1, <2>2
<1>. QED
  BY Zenon, <1>4, <1>5, <1>6, <1>7, <1>8, <1>9

\* Every step keeps the invariant.
LEMMA NextIInv == IInv /\ [Next]_vars => IInv'
<1> SUFFICES ASSUME IInv, [Next]_vars PROVE IInv'
  OBVIOUS
<1>1. CASE recv
  BY <1>1, RecvStep
<1>2. CASE bind
  BY Zenon, <1>2, BindStep
<1>3. CASE dns_send
  BY <1>3, DnsSendStep
<1>4. CASE dns_recv
  BY <1>4, DnsRecvStep
<1>5. CASE card_sends
  BY <1>5, CardSendsStep
<1>6. CASE send_other
  BY <1>6, SendOtherStep
<1>7. CASE datagram \/ other_frame
  BY Zenon, <1>7, CardWritesStep DEF datagram, other_frame
<1>8. CASE \/ poll_ends \/ net_poll_task \/ http_tick \/ tick \/ respond
           \/ syn \/ fin \/ rst \/ last_ack
           \/ \E path \in {"page"} \cup Host : request(path)
  BY Zenon, <1>8, TaskStep
<1>9. CASE UNCHANGED vars
  <2>1. UNCHANGED <<card, out, flight, sockets, dhcp, http, task, result>>
    BY Zenon, <1>9 DEF vars
  <2>2. TypeOK'
    BY ZenonT(30), <2>1 DEF IInv, Typed, TypeOK, card, out, dhcp, http, task
  <2>3. Typed'
    BY Zenon, <2>1, <2>2 DEF IInv, Typed, card, out, dhcp, http, task
  <2>4. Resolving' = Resolving /\ UNCHANGED <<pc, query, result>>
    BY <2>1 DEF Resolving, task
  <2>5. Answered'
    BY Zenon, <2>4, ResultKept
  <2>. QED  BY Zenon, <2>1, <2>3, <2>4, <2>5, QuietStep
<1>. QED
  BY Zenon, <1>1, <1>2, <1>3, <1>4, <1>5, <1>6, <1>7, <1>8, <1>9 DEF Next, Kernel

\* The rings, the frames and the sockets agree at all times.
THEOREM Invariance == Spec => []IInv
BY InitIInv, NextIInv, PTL DEF Spec

\* The variables keep their types and the indices stay inside the rings.
THEOREM TypeCorrectness == Spec => []TypeOK
<1>1. IInv => TypeOK
  BY ZenonT(30) DEF IInv, Typed
<1>. QED
  BY <1>1, Invariance, PTL

\* recv reads the frames the card wrote in their order, each once, whatever the
\* size of the ring and however the card and the driver interleave.
THEOREM ReceiveOrder == Spec => []FramesInOrder
<1>1. IInv => FramesInOrder
  <2> SUFFICES ASSUME IInv PROVE FramesInOrder
    OBVIOUS
  <2>1. rx_cur \in Desc /\ read \in Nat /\ written \in Nat /\ NumRx \in Nat
    <3>1. /\ rx_cur \in Desc /\ read \in 0 .. MaxFrames /\ written \in 0 .. MaxFrames
          /\ NumRx \in Nat /\ MaxFrames \in Nat
      BY Zenon, NetAssumption DEF IInv, Typed, TypeOK
    <3>. QED  BY SMTT(30), <3>1
  <2>2. Behind(rx_cur) = 0
    BY <2>1 DEF Behind, Desc
  <2>3. rx[rx_cur].dd => rx[rx_cur].n = read + Behind(rx_cur)
    BY Zenon, <2>1 DEF IInv, RxRing
  <2>4. rx[rx_cur].dd => rx[rx_cur].n = read
    BY <2>1, <2>2, <2>3
  <2>. QED  BY <2>4 DEF FramesInOrder, IInv, RxRing
<1>. QED
  BY <1>1, Invariance, PTL

\* The card finds what send was given, in order and each frame once; the frames
\* that wait when send fills the last descriptor are lost, and no others.
THEOREM SendOrder == Spec => []FramesGoOut
<1>1. IInv => FramesGoOut
  BY DEF IInv, TxRing
<1>. QED
  BY <1>1, Invariance, PTL

\* resolve_a never returns the address of another host, whatever the ports it
\* draws and whenever answers arrive.
THEOREM RightAnswers == Spec => []AnswersMatch
<1>1. IInv => AnswersMatch
  BY Zenon DEF IInv, Answered
<1>. QED
  BY <1>1, Invariance, PTL
=============================================================================
