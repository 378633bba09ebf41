-------------------------- MODULE UdpTransferProofs --------------------------
(***************************************************************************)
(* Theorems about UdpTransfer for any number of frames and packets: as     *)
(* long as no datagram is lost everything is stored where it belongs, and  *)
(* with losses what is stored is still in the order it was sent.           *)
(***************************************************************************)
EXTENDS UdpTransfer, SequenceTheorems, TLAPS

-----------------------------------------------------------------------------
(***************************************************************************)
(* Packets and units.                                                      *)
(***************************************************************************)
LEMMA TotalNat == Total \in Nat /\ Packets \in Nat \ {0} /\ Pages \in Nat
BY UdpAssumption DEF Total

\* The two nested loops number the packets consecutively.
LEMMA Unit == ASSUME NEW n \in Nat PROVE UnitOf(n) = 2 * n
<1>. DEFINE q == n \div Packets
            m == n % Packets
<1>1. q \in Int /\ m \in Int /\ n = Packets * q + m
  BY TotalNat
<1>2. UnitOf(n) = 2 * (q * Packets + m)
  BY DEF UnitOf
<1>. HIDE DEF q, m
<1>3. q * Packets = Packets * q
  BY <1>1, TotalNat
<1>. QED BY <1>1, <1>2, <1>3

-----------------------------------------------------------------------------
(***************************************************************************)
(* The datagrams on their way to the server.                               *)
(***************************************************************************)
Even == {2 * n : n \in Nat}

\* Only packets that were sent, in the order they were sent.
Sent == \A n \in 1..Len(toServer) :
          toServer[n].kind = "data" => toServer[n].unit \in Even /\ toServer[n].unit < 2 * sent
Increasing == \A m, n \in 1..Len(toServer) :
                m < n /\ toServer[m].kind = "data" /\ toServer[n].kind = "data" =>
                  toServer[m].unit < toServer[n].unit

Datagrams == [kind : {"id", "info", "data"}, unit : Int]

\* What can be on its way, by what the server is waiting for.
Waiting ==
  /\ toServer \in Seq(Datagrams) /\ toClient \in Seq(Datagrams)
  /\ server = "awaitId" =>
       /\ client \in {"hello", "awaitAck"} /\ toClient = <<>>
       /\ \A n \in 1..Len(toServer) : toServer[n].kind = "id"
       /\ client = "hello" => toServer = <<>>
       /\ Len(toServer) <= 1
  /\ server # "awaitId" => client # "hello"
  /\ server = "awaitInfo" =>
       \A n \in 1..Len(toServer) :
         (toServer[n].kind = "info" /\ n = 1) \/ toServer[n].kind = "data"
  /\ client = "awaitAck" /\ server # "awaitId" => toServer = <<>> /\ server = "awaitInfo"
  /\ client = "send" => sent < Total
  /\ client \in {"hello", "awaitAck"} => sent = 0
  /\ server \in {"awaitId", "awaitInfo"} => received = 0
  /\ Sent /\ Increasing

\* What the server has stored, and what it is going to store next.
Stored ==
  /\ server = "receive" =>
       /\ received < Total
       /\ \A n \in 1..Len(toServer) :
            /\ toServer[n].kind = "data"
            /\ received > 0 => toServer[n].unit > buff[UnitOf(received - 1)]
  /\ \A n \in 0..(received - 1) : buff[UnitOf(n)] \in Even /\ buff[UnitOf(n)] < 2 * sent
  /\ OnlyForward

IInv == TypeOK /\ Waiting /\ Stored

LEMMA InitIInv == Init => IInv
<1>. SUFFICES ASSUME Init PROVE IInv
  OBVIOUS
<1>1. TypeOK
  <2>1. buff \in [0..(2 * Total - 1) -> {Unset} \union 0..(2 * Total - 1)]
    BY DEF Init
  <2>2. 0 \in 0..Total
    BY TotalNat
  <2>. QED BY <2>1, <2>2 DEF Init, TypeOK
<1>2. Len(toServer) = 0 /\ toServer \in Seq(Datagrams) /\ toClient \in Seq(Datagrams)
  BY EmptySeq DEF Init
<1>3. Waiting
  BY <1>2 DEF Init, Waiting, Sent, Increasing
<1>4. Stored
  BY DEF Init, Stored, OnlyForward
<1>. QED BY <1>1, <1>3, <1>4 DEF IInv

-----------------------------------------------------------------------------
(***************************************************************************)
(* The steps.                                                              *)
(***************************************************************************)
LEMMA AppendParts ==
  ASSUME NEW s \in Seq(Datagrams), NEW d \in Datagrams
  PROVE  /\ Append(s, d) \in Seq(Datagrams) /\ Len(Append(s, d)) = Len(s) + 1 /\ Len(s) \in Nat
         /\ \A n \in 1..Len(s) : Append(s, d)[n] = s[n]
         /\ Append(s, d)[Len(s) + 1] = d
         /\ \A n \in 1..(Len(s) + 1) : n \in 1..Len(s) \/ n = Len(s) + 1
OBVIOUS

LEMMA TailParts ==
  ASSUME NEW s \in Seq(Datagrams), s # <<>>
  PROVE  /\ Tail(s) \in Seq(Datagrams) /\ Len(s) \in Nat \ {0} /\ Len(Tail(s)) = Len(s) - 1
         /\ \A n \in 1..Len(Tail(s)) : n + 1 \in 1..Len(s) /\ Tail(s)[n] = s[n + 1]
         /\ 1 \in 1..Len(s) /\ Head(s) = s[1] /\ s[1] \in Datagrams
<1>1. Len(s) \in Nat /\ Len(s) # 0
  BY EmptySeq, LenProperties
<1>2. 1 \in 1..Len(s)
  BY <1>1
<1>3. Tail(s) \in Seq(Datagrams) /\ Len(Tail(s)) = Len(s) - 1 /\ Head(s) = s[1]
      /\ \A n \in 1..Len(Tail(s)) : Tail(s)[n] = s[n + 1]
  BY <1>1, HeadTailProperties
<1>4. s[1] \in Datagrams
  BY <1>2, ElementOfSeq
<1>. QED BY <1>1, <1>2, <1>3, <1>4

LEMMA ClientKeeps == IInv /\ ClientStep => IInv'
<1>. SUFFICES ASSUME IInv, ClientStep PROVE IInv'
  OBVIOUS
<1>. USE DEF IInv
<1>1. /\ UNCHANGED <<server, received, buff, lost>> /\ toServer \in Seq(Datagrams)
      /\ toClient \in Seq(Datagrams)
  BY DEF ClientStep, SendId, RecvAck, SendPacket, Waiting
<1>2. CASE SendId
  <2>1. /\ client = "hello" /\ client' = "awaitAck" /\ sent' = sent /\ toClient' = toClient
        /\ server = "awaitId" /\ toServer = <<>> /\ toServer' = Append(toServer, Id)
    BY <1>2 DEF SendId, Waiting
  <2>2. Id \in Datagrams /\ Id.kind = "id"
    BY DEF Id, Datagrams
  <2>3. /\ toServer' \in Seq(Datagrams) /\ Len(toServer') = 1
        /\ \A n \in 1..Len(toServer') : toServer'[n] = Id
    BY <2>1, <2>2, AppendParts, EmptySeq
  <2>4. Waiting'
    BY <1>1, <2>1, <2>2, <2>3 DEF Waiting, Sent, Increasing
  <2>5. Stored'
    BY <1>1, <2>1 DEF Stored, OnlyForward
  <2>6. TypeOK'
    BY <1>1, <2>1 DEF TypeOK
  <2>. QED BY <2>4, <2>5, <2>6
<1>3. CASE RecvAck
  <2>1. /\ client = "awaitAck" /\ client' = "send" /\ toClient # <<>> /\ toClient' = Tail(toClient)
        /\ toServer' = Append(toServer, Info) /\ sent' = sent /\ sent = 0
    BY <1>3 DEF RecvAck, Waiting
  <2>2. server = "awaitInfo" /\ toServer = <<>>
    BY <2>1 DEF Waiting
  <2>3. Info \in Datagrams /\ Info.kind = "info"
    BY DEF Info, Datagrams
  <2>4. /\ toServer' \in Seq(Datagrams) /\ Len(toServer') = 1
        /\ \A n \in 1..Len(toServer') : toServer'[n] = Info /\ n = 1
    BY <2>1, <2>2, <2>3, AppendParts, EmptySeq
  <2>5. toClient' \in Seq(Datagrams)
    BY <1>1, <2>1, TailParts
  <2>6. 0 < Total
    <3>1. Pages * Packets > 0
      BY UdpAssumption
    <3>. QED BY <3>1 DEF Total
  <2>7. Waiting'
    BY <1>1, <2>1, <2>2, <2>3, <2>4, <2>5, <2>6 DEF Waiting, Sent, Increasing
  <2>8. Stored'
    BY <1>1, <2>1, <2>2 DEF Stored, OnlyForward
  <2>9. TypeOK'
    BY <1>1, <2>1 DEF TypeOK
  <2>. QED BY <2>7, <2>8, <2>9
<1>4. CASE SendPacket
  <2>1. /\ client = "send" /\ sent < Total /\ sent \in Nat /\ sent' = sent + 1
        /\ toServer' = Append(toServer, Data(UnitOf(sent))) /\ toClient' = toClient
        /\ client' = IF LastSent THEN "closed" ELSE "send"
    BY <1>4, TotalNat DEF SendPacket, Waiting, TypeOK
  <2>. DEFINE d == Data(UnitOf(sent))
  <2>2. d \in Datagrams /\ d.kind = "data" /\ d.unit = 2 * sent /\ d.unit \in Even
    <3>1. UnitOf(sent) = 2 * sent
      BY <2>1, Unit
    <3>2. d = [kind |-> "data", unit |-> 2 * sent]
      BY <3>1 DEF Data
    <3>3. 2 * sent \in Int /\ 2 * sent \in Even
      BY <2>1 DEF Even
    <3>. QED BY <3>2, <3>3 DEF Datagrams
  <2>. HIDE DEF d
  <2>3. /\ toServer' \in Seq(Datagrams) /\ Len(toServer') = Len(toServer) + 1 /\ Len(toServer) \in Nat
        /\ \A n \in 1..Len(toServer) : toServer'[n] = toServer[n]
        /\ toServer'[Len(toServer) + 1] = d
        /\ \A n \in 1..Len(toServer') : n \in 1..Len(toServer) \/ n = Len(toServer) + 1
    BY <1>1, <2>1, <2>2, AppendParts DEF d
  <2>4. /\ client' \in {"send", "closed"} /\ (client' = "send" => sent' < Total)
        /\ sent' \in 0..Total
    BY <2>1, TotalNat DEF LastSent
  <2>5. server # "awaitId"
    BY <2>1 DEF Waiting
  <2>6. \A n \in 1..Len(toServer) :
          toServer[n].kind = "data" => toServer[n].unit \in Even /\ toServer[n].unit < 2 * sent
    BY DEF Waiting, Sent
  <2>7. \A x \in Even : x \in Nat
    BY DEF Even
  <2>8. Sent'
    <3>. SUFFICES ASSUME NEW n \in 1..Len(toServer'), toServer'[n].kind = "data"
                  PROVE  toServer'[n].unit \in Even /\ toServer'[n].unit < 2 * (sent + 1)
      BY <2>1 DEF Sent
    <3>1. CASE n \in 1..Len(toServer)
      BY <2>1, <2>3, <2>6, <2>7, <3>1
    <3>2. CASE n = Len(toServer) + 1
      BY <2>1, <2>2, <2>3, <3>2
    <3>. QED BY <2>3, <3>1, <3>2
  <2>9. Increasing'
    <3>. SUFFICES ASSUME NEW m \in 1..Len(toServer'), NEW n \in 1..Len(toServer'), m < n,
                         toServer'[m].kind = "data", toServer'[n].kind = "data"
                  PROVE  toServer'[m].unit < toServer'[n].unit
      BY DEF Increasing
    <3>1. m \in 1..Len(toServer)
      BY <2>3
    <3>2. CASE n \in 1..Len(toServer)
      BY <2>3, <3>1, <3>2 DEF Waiting, Increasing
    <3>3. CASE n = Len(toServer) + 1
      BY <2>1, <2>2, <2>3, <2>6, <2>7, <3>1, <3>3
    <3>. QED BY <2>3, <3>2, <3>3
  <2>10. Waiting'
    BY <1>1, <2>1, <2>2, <2>3, <2>4, <2>5, <2>8, <2>9 DEF Waiting
  <2>11. Stored'
    <3>1. received \in Nat
      BY TotalNat DEF TypeOK
    <3>2. \A n \in 0..(received - 1) : buff[UnitOf(n)] \in Even /\ buff[UnitOf(n)] < 2 * (sent + 1)
      BY <2>1, <2>7 DEF Stored
    <3>3. ASSUME server = "receive", NEW n \in 1..Len(toServer')
          PROVE  /\ toServer'[n].kind = "data"
                 /\ received > 0 => toServer'[n].unit > buff[UnitOf(received - 1)]
      <4>1. CASE n \in 1..Len(toServer)
        BY <2>3, <3>3, <4>1 DEF Stored
      <4>2. CASE n = Len(toServer) + 1
        <5>1. received > 0 => received - 1 \in 0..(received - 1)
          BY <3>1
        <5>2. received > 0 => buff[UnitOf(received - 1)] \in Nat /\ buff[UnitOf(received - 1)] < 2 * sent
          BY <2>7, <5>1 DEF Stored
        <5>. QED BY <2>1, <2>2, <2>3, <4>2, <5>2
      <4>. QED BY <2>3, <4>1, <4>2
    <3>4. OnlyForward' /\ (server = "receive" => received < Total)
      BY <1>1 DEF Stored, OnlyForward
    <3>. QED BY <1>1, <2>1, <3>2, <3>3, <3>4 DEF Stored
  <2>12. TypeOK'
    BY <1>1, <2>1, <2>4 DEF TypeOK
  <2>. QED BY <2>10, <2>11, <2>12
<1>. QED BY <1>2, <1>3, <1>4 DEF ClientStep

LEMMA ServerKeeps == IInv /\ ServerStep => IInv'
<1>. SUFFICES ASSUME IInv, ServerStep PROVE IInv'
  OBVIOUS
<1>. USE DEF IInv
<1>1. /\ UNCHANGED <<client, sent, lost>> /\ toServer # <<>> /\ toServer' = Tail(toServer)
      /\ toServer \in Seq(Datagrams) /\ toClient \in Seq(Datagrams) /\ received \in Nat
      /\ sent \in 0..Total /\ Total \in Nat
  BY TotalNat DEF ServerStep, RecvId, RecvInfo, RecvPacket, Waiting, TypeOK
<1>2. /\ toServer' \in Seq(Datagrams) /\ Len(toServer) \in Nat \ {0}
      /\ Len(toServer') = Len(toServer) - 1
      /\ \A n \in 1..Len(toServer') : n + 1 \in 1..Len(toServer) /\ toServer'[n] = toServer[n + 1]
      /\ 1 \in 1..Len(toServer) /\ Head(toServer) = toServer[1] /\ toServer[1] \in Datagrams
  BY <1>1, TailParts
<1>3. \A n \in 1..Len(toServer') : n \in Nat /\ n + 1 # 1 /\ 1 < n + 1
  BY <1>2
<1>4. Sent'
  BY <1>1, <1>2 DEF Waiting, Sent
<1>5. Increasing'
  <2>1. \A m, n \in 1..Len(toServer') : m < n => m + 1 < n + 1
    BY <1>2
  <2>. QED BY <1>2, <2>1 DEF Waiting, Increasing
<1>6. CASE RecvId
  <2>1. /\ server = "awaitId" /\ server' = "awaitInfo" /\ toClient' = Append(toClient, Id)
        /\ UNCHANGED <<received, buff>> /\ received = 0
    BY <1>6 DEF RecvId, Waiting
  <2>2. toClient' \in Seq(Datagrams)
    BY <1>1, <2>1, AppendParts DEF Id, Datagrams
  <2>3. client = "awaitAck" /\ Len(toServer) = 1
    BY <1>1, <1>2, <2>1 DEF Waiting
  <2>4. Len(toServer') = 0 /\ toServer' = <<>>
    BY <1>2, <2>3, EmptySeq
  <2>5. Waiting'
    BY <1>1, <1>2, <1>4, <1>5, <2>1, <2>2, <2>3, <2>4 DEF Waiting
  <2>6. Stored'
    BY <1>1, <2>1 DEF Stored, OnlyForward
  <2>7. TypeOK'
    BY <1>1, <2>1 DEF TypeOK
  <2>. QED BY <2>5, <2>6, <2>7
<1>7. CASE RecvInfo
  <2>1. /\ server = "awaitInfo" /\ UNCHANGED <<toClient, received, buff>> /\ received = 0
        /\ server' = IF toServer[1].kind = "info" THEN "receive" ELSE "confused"
    BY <1>2, <1>7 DEF RecvInfo, Waiting
  <2>2. \A n \in 1..Len(toServer') : toServer'[n].kind = "data"
    BY <1>2, <1>3, <2>1 DEF Waiting
  <2>3. client \notin {"hello", "awaitAck"}
    BY <1>1, <2>1 DEF Waiting
  <2>4. Waiting'
    BY <1>1, <1>2, <1>4, <1>5, <2>1, <2>3 DEF Waiting
  <2>5. 0 < Total
    <3>1. Pages * Packets > 0
      BY UdpAssumption
    <3>. QED BY <3>1 DEF Total
  <2>6. Stored'
    BY <1>1, <2>1, <2>2, <2>5 DEF Stored, OnlyForward
  <2>7. TypeOK'
    BY <1>1, <2>1 DEF TypeOK
  <2>. QED BY <2>4, <2>6, <2>7
<1>8. CASE RecvPacket
  <2>. DEFINE v == toServer[1].unit
  <2>1. /\ server = "receive" /\ UNCHANGED toClient /\ received' = received + 1
        /\ buff' = [buff EXCEPT ![2 * received] = v]
        /\ server' = IF LastPacket THEN "closed" ELSE "receive"
        /\ received < Total
    <3>1. Slot(received) = 2 * received
      BY <1>1, Unit DEF Slot
    <3>. QED BY <1>2, <1>8, <3>1 DEF RecvPacket, Stored
  <2>2. \A n \in 1..Len(toServer) : toServer[n].kind = "data"
    BY <2>1 DEF Stored
  <2>3. \A x \in Even : x \in Nat
    BY DEF Even
  <2>4. v \in Even /\ v < 2 * sent /\ v \in Nat
    BY <1>2, <2>2, <2>3 DEF Waiting, Sent
  <2>5. received > 0 => v > buff[UnitOf(received - 1)]
    BY <1>2, <2>1 DEF Stored
  <2>6. \A n \in 1..Len(toServer') : toServer'[n].kind = "data" /\ toServer'[n].unit > v
    <3>. SUFFICES ASSUME NEW n \in 1..Len(toServer')
                  PROVE  toServer'[n].kind = "data" /\ toServer'[n].unit > v
      OBVIOUS
    <3>1. n + 1 \in 1..Len(toServer) /\ toServer'[n] = toServer[n + 1] /\ 1 < n + 1
      BY <1>2, <1>3
    <3>2. v < toServer[n + 1].unit
      BY <1>2, <2>2, <3>1 DEF Waiting, Increasing
    <3>3. toServer[n + 1].unit \in Even
      BY <2>2, <3>1 DEF Waiting, Sent
    <3>. QED BY <2>2, <2>3, <2>4, <3>1, <3>2, <3>3
  <2>. HIDE DEF v
  <2>7. /\ buff'[UnitOf(received)] = v
        /\ \A n \in 0..(received - 1) : buff'[UnitOf(n)] = buff[UnitOf(n)]
    <3>1. 2 * received \in 0..(2 * Total - 1) /\ DOMAIN buff = 0..(2 * Total - 1)
      BY <1>1, <2>1 DEF TypeOK
    <3>2. ASSUME NEW n \in 0..(received - 1) PROVE UnitOf(n) \in DOMAIN buff /\ UnitOf(n) # 2 * received
      <4>1. n \in Nat /\ n < received
        BY <1>1, <3>2
      <4>2. UnitOf(n) = 2 * n
        BY <4>1, Unit
      <4>. QED BY <1>1, <2>1, <3>1, <4>1, <4>2
    <3>3. UnitOf(received) = 2 * received
      BY <1>1, Unit
    <3>. QED BY <2>1, <3>1, <3>2, <3>3
  <2>8. \A n \in 0..(received' - 1) : n \in 0..(received - 1) \/ n = received
    BY <1>1, <2>1
  <2>9. v >= UnitOf(received)
    <3>1. CASE received = 0
      BY <2>4, <3>1, Unit
    <3>2. CASE received > 0
      <4>1. received - 1 \in Nat /\ received - 1 \in 0..(received - 1)
        BY <1>1, <3>2
      <4>2. /\ buff[UnitOf(received - 1)] >= UnitOf(received - 1)
            /\ buff[UnitOf(received - 1)] \in Nat
        BY <2>3, <4>1 DEF Stored, OnlyForward
      <4>3. v > 2 * (received - 1)
        BY <2>4, <2>5, <3>2, <4>1, <4>2, Unit
      <4>4. PICK a \in Nat : v = 2 * a
        BY <2>4 DEF Even
      <4>. QED BY <1>1, <4>3, <4>4, Unit
    <3>. QED BY <1>1, <3>1, <3>2
  <2>10. OnlyForward'
    <3>. SUFFICES ASSUME NEW n \in 0..(received' - 1)
                  PROVE  /\ buff'[UnitOf(n)] >= UnitOf(n)
                         /\ n > 0 => buff'[UnitOf(n)] > buff'[UnitOf(n - 1)]
      BY DEF OnlyForward, UnitOf
    <3>1. CASE n \in 0..(received - 1)
      <4>1. n > 0 => n - 1 \in 0..(received - 1)
        BY <1>1, <3>1
      <4>. QED BY <2>7, <3>1, <4>1 DEF Stored, OnlyForward
    <3>2. CASE n = received
      <4>1. n > 0 => n - 1 \in 0..(received - 1)
        BY <1>1, <3>2
      <4>. QED BY <2>5, <2>7, <2>9, <3>2, <4>1
    <3>. QED BY <2>8, <3>1, <3>2
  <2>11. \A n \in 0..(received' - 1) : buff'[UnitOf(n)] \in Even /\ buff'[UnitOf(n)] < 2 * sent
    BY <2>4, <2>7, <2>8 DEF Stored
  <2>12. /\ server' \in {"receive", "closed"} /\ received' \in 0..Total
         /\ server' = "receive" => received' < Total
    BY <1>1, <2>1 DEF LastPacket
  <2>13. \A n \in 1..Len(toServer') :
           /\ toServer'[n].kind = "data"
           /\ received' > 0 => toServer'[n].unit > buff'[UnitOf(received' - 1)]
    <3>1. received' - 1 = received
      BY <1>1, <2>1
    <3>. QED BY <2>6, <2>7, <3>1
  <2>14. Stored'
    BY <1>1, <2>10, <2>11, <2>12, <2>13 DEF Stored
  <2>15. Waiting'
    BY <1>1, <1>2, <1>4, <1>5, <2>1, <2>12 DEF Waiting
  <2>16. TypeOK'
    <3>1. v \in 0..(2 * Total - 1)
      BY <1>1, <2>4
    <3>. QED BY <1>1, <2>1, <2>12, <3>1 DEF TypeOK
  <2>. QED BY <2>14, <2>15, <2>16
<1>. QED BY <1>6, <1>7, <1>8 DEF ServerStep

\* Removing a datagram leaves the others in their order.
LEMMA RemoveParts ==
  ASSUME NEW s \in Seq(Datagrams), NEW n \in 1..Len(s), NEW rest,
         rest = SubSeq(s, 1, n - 1) \o SubSeq(s, n + 1, Len(s))
  PROVE  /\ rest \in Seq(Datagrams) /\ Len(rest) = Len(s) - 1 /\ Len(s) \in Nat
         /\ \A m \in 1..Len(rest) : rest[m] = s[IF m < n THEN m ELSE m + 1]
<1>. DEFINE a == SubSeq(s, 1, n - 1)
            b == SubSeq(s, n + 1, Len(s))
<1>1. Len(s) \in Nat /\ n \in Nat /\ \A m \in 1..Len(s) : s[m] \in Datagrams
  BY LenProperties, ElementOfSeq
<1>2. a \in Seq(Datagrams) /\ Len(a) = n - 1 /\ \A m \in 1..(n - 1) : a[m] = s[m]
  BY <1>1, SubSeqProperties
<1>3. b \in Seq(Datagrams) /\ Len(b) = Len(s) - n /\ \A m \in 1..(Len(s) - n) : b[m] = s[n + m]
  BY <1>1, SubSeqProperties
<1>0. rest = a \o b
  OBVIOUS
<1>. HIDE DEF a, b
<1>4. /\ a \o b \in Seq(Datagrams) /\ Len(a \o b) = Len(a) + Len(b)
      /\ \A m \in 1..(Len(a) + Len(b)) :
           (a \o b)[m] = IF m <= Len(a) THEN a[m] ELSE b[m - Len(a)]
  BY <1>2, <1>3, ConcatProperties
<1>5. ASSUME NEW m \in 1..Len(a \o b)
      PROVE  (a \o b)[m] = s[IF m < n THEN m ELSE m + 1]
  <2>1. CASE m < n
    BY <1>1, <1>2, <1>3, <1>4, <2>1
  <2>2. CASE ~(m < n)
    <3>1. m - (n - 1) \in 1..(Len(s) - n) /\ n + (m - (n - 1)) = m + 1
      BY <1>1, <1>2, <1>3, <1>4, <2>2
    <3>. QED BY <1>1, <1>2, <1>3, <1>4, <2>2, <3>1
  <2>. QED BY <2>1, <2>2
<1>6. rest \in Seq(Datagrams) /\ Len(rest) = Len(s) - 1
  <2>1. Len(a \o b) = Len(s) - 1
    BY <1>1, <1>2, <1>3, <1>4
  <2>. QED BY <1>0, <1>4, <2>1, Zenon
<1>7. \A m \in 1..Len(rest) : rest[m] = s[IF m < n THEN m ELSE m + 1]
  BY <1>0, <1>5, Zenon
<1>. QED BY <1>1, <1>6, <1>7

LEMMA LoseKeeps == IInv /\ Lose => IInv'
<1>. SUFFICES ASSUME IInv, Lose PROVE IInv'
  OBVIOUS
<1>. USE DEF IInv
<1>1. /\ UNCHANGED <<client, sent, server, received, buff>> /\ lost' = TRUE
      /\ toServer \in Seq(Datagrams) /\ toClient \in Seq(Datagrams)
  BY DEF Lose, Waiting
<1>2. TypeOK'
  BY <1>1 DEF TypeOK
<1>3. CASE toServer' = toServer
  <2>1. toClient' \in Seq(Datagrams) /\ (toClient = <<>> => toClient' = <<>>)
    BY <1>1, <1>3, EmptySeq DEF Lose
  <2>2. Sent' /\ Increasing'
    BY <1>1, <1>3 DEF Waiting, Sent, Increasing
  <2>3. Waiting'
    BY <1>1, <1>3, <2>1, <2>2 DEF Waiting
  <2>4. Stored'
    BY <1>1, <1>3 DEF Stored, OnlyForward
  <2>. QED BY <1>2, <2>3, <2>4
<1>4. ASSUME NEW n \in DOMAIN toServer, UNCHANGED toClient,
             toServer' = SubSeq(toServer, 1, n - 1) \o SubSeq(toServer, n + 1, Len(toServer))
      PROVE  IInv'
  <2>. DEFINE At(m) == IF m < n THEN m ELSE m + 1
  <2>1. n \in 1..Len(toServer)
    BY <1>1, <1>4
  <2>2. /\ toServer' \in Seq(Datagrams) /\ Len(toServer') = Len(toServer) - 1
        /\ Len(toServer) \in Nat
        /\ \A m \in 1..Len(toServer') : toServer'[m] = toServer[At(m)]
    BY <1>1, <1>4, <2>1, RemoveParts
  <2>3. \A m \in 1..Len(toServer') : At(m) \in 1..Len(toServer) /\ (At(m) = 1 => m = 1)
    BY <2>1, <2>2
  <2>4. \A l, m \in 1..Len(toServer') : l < m => At(l) < At(m)
    BY <2>1, <2>2
  <2>. HIDE DEF At
  <2>5. Sent'
    BY <1>1, <2>2, <2>3 DEF Waiting, Sent
  <2>6. Increasing'
    BY <2>2, <2>3, <2>4 DEF Waiting, Increasing
  <2>7. toServer # <<>>
    BY <2>1
  <2>8. server = "awaitInfo" =>
          \A m \in 1..Len(toServer') :
            (toServer'[m].kind = "info" /\ m = 1) \/ toServer'[m].kind = "data"
    BY <2>2, <2>3 DEF Waiting
  <2>9. server = "awaitId" => /\ \A m \in 1..Len(toServer') : toServer'[m].kind = "id"
                              /\ Len(toServer') <= 1 /\ client # "hello"
    BY <2>2, <2>3, <2>7 DEF Waiting
  <2>10. Waiting'
    BY <1>1, <1>4, <2>2, <2>5, <2>6, <2>7, <2>8, <2>9 DEF Waiting
  <2>11. Stored'
    BY <1>1, <2>2, <2>3 DEF Stored, OnlyForward
  <2>. QED BY <1>2, <2>10, <2>11
<1>. QED BY <1>3, <1>4 DEF Lose

LEMMA StepKeeps == IInv /\ [Next]_vars => IInv'
<1>1. IInv /\ UNCHANGED vars => IInv'
  BY DEF vars, IInv, TypeOK, Waiting, Sent, Increasing, Stored, OnlyForward
<1>. QED BY <1>1, ClientKeeps, ServerKeeps, LoseKeeps DEF Next, Terminated

LEMMA Inductive == Spec => []IInv
<1>. QED BY InitIInv, StepKeeps, PTL DEF Spec

-----------------------------------------------------------------------------
(***************************************************************************)
(* Without losses the datagrams on their way are exactly those sent and    *)
(* not yet received, and each is received where it is expected.            *)
(***************************************************************************)
SentCount == CASE client = "hello" -> 0 [] client = "awaitAck" -> 1 [] OTHER -> sent + 2
TakenCount == CASE server = "awaitId" -> 0 [] server = "awaitInfo" -> 1 [] OTHER -> received + 2
Nth(n) == IF n = 1 THEN Id ELSE IF n = 2 THEN Info ELSE Data(UnitOf(n - 3))

Lossless ==
  ~lost => /\ Len(toServer) = SentCount - TakenCount
           /\ \A n \in 1..Len(toServer) : toServer[n] = Nth(TakenCount + n)
           /\ server # "confused"
           /\ \A u \in DOMAIN buff : buff[u] \in {Unset, u}

LEMMA Kinds ==
  /\ Id.kind = "id" /\ Info.kind = "info"
  /\ \A u : Data(u).kind = "data" /\ Data(u).unit = u
BY DEF Id, Info, Data

LEMMA LosslessClient ==
  ASSUME IInv, Lossless, ClientStep, ~lost
  PROVE  Lossless'
<1>1. /\ UNCHANGED <<server, received, buff, lost>> /\ toServer \in Seq(Datagrams)
      /\ sent \in Nat /\ received \in Nat
  BY TotalNat DEF ClientStep, SendId, RecvAck, SendPacket, IInv, Waiting, TypeOK
<1>2. Nth(SentCount + 1) \in Datagrams /\ toServer' = Append(toServer, Nth(SentCount + 1))
      /\ SentCount' = SentCount + 1 /\ SentCount \in Nat
  <2>1. CASE SendId
    <3>1. SentCount = 0 /\ SentCount' = 1 /\ toServer' = Append(toServer, Id)
      BY <2>1 DEF SendId, SentCount
    <3>2. Nth(0 + 1) = Id /\ Id \in Datagrams
      BY DEF Nth, Id, Datagrams
    <3>. QED BY <3>1, <3>2
  <2>2. CASE RecvAck
    <3>1. SentCount = 1 /\ SentCount' = 2 /\ toServer' = Append(toServer, Info)
      BY <2>2 DEF RecvAck, SentCount, IInv, Waiting
    <3>2. Nth(1 + 1) = Info /\ Info \in Datagrams
      BY DEF Nth, Info, Datagrams
    <3>. QED BY <3>1, <3>2
  <2>3. CASE SendPacket
    <3>1. /\ SentCount = sent + 2 /\ SentCount' = sent + 1 + 2
          /\ toServer' = Append(toServer, Data(UnitOf(sent)))
      BY <2>3 DEF SendPacket, SentCount
    <3>2. sent + 2 + 1 # 1 /\ sent + 2 + 1 # 2 /\ sent + 2 + 1 - 3 = sent
          /\ sent + 1 + 2 = sent + 2 + 1
      BY <1>1
    <3>3. Nth(sent + 2 + 1) = Data(UnitOf(sent))
      <4>. DEFINE c == sent + 2 + 1
      <4>1. c # 1 /\ c # 2 /\ c - 3 = sent
        BY <1>1
      <4>. HIDE DEF c
      <4>2. Nth(c) = Data(UnitOf(c - 3))
        BY <4>1 DEF Nth
      <4>3. Nth(c) = Data(UnitOf(sent))
        BY <4>1, <4>2
      <4>. QED BY <4>3 DEF c
    <3>4. UnitOf(sent) = 2 * sent
      BY <1>1, Unit
    <3>5. Data(UnitOf(sent)) \in Datagrams
      BY <1>1, <3>4 DEF Data, Datagrams
    <3>. QED BY <1>1, <3>1, <3>2, <3>3, <3>5
  <2>. QED BY <2>1, <2>2, <2>3 DEF ClientStep
<1>3. /\ Len(toServer') = Len(toServer) + 1 /\ Len(toServer) \in Nat
      /\ \A n \in 1..Len(toServer) : toServer'[n] = toServer[n]
      /\ toServer'[Len(toServer) + 1] = Nth(SentCount + 1)
      /\ \A n \in 1..(Len(toServer) + 1) : n \in 1..Len(toServer) \/ n = Len(toServer) + 1
  BY <1>1, <1>2, AppendParts
<1>4. TakenCount' = TakenCount /\ TakenCount \in Nat
  BY <1>1 DEF TakenCount
<1>5. Len(toServer) = SentCount - TakenCount
  BY DEF Lossless
<1>6. Len(toServer') = SentCount' - TakenCount'
  BY <1>2, <1>3, <1>4, <1>5
<1>7. \A n \in 1..Len(toServer') : toServer'[n] = Nth(TakenCount + n)
  <2>1. TakenCount + (Len(toServer) + 1) = SentCount + 1
    BY <1>2, <1>4, <1>5
  <2>2. \A n \in 1..Len(toServer) : toServer[n] = Nth(TakenCount + n)
    BY DEF Lossless
  <2>. QED BY <1>3, <2>1, <2>2
<1>. QED BY <1>1, <1>4, <1>6, <1>7 DEF Lossless, Nth, Id, Info, Data, UnitOf

LEMMA LosslessServer ==
  ASSUME IInv, Lossless, ServerStep, ~lost
  PROVE  Lossless'
<1>1. /\ UNCHANGED <<client, sent, lost>> /\ toServer # <<>> /\ toServer' = Tail(toServer)
      /\ toServer \in Seq(Datagrams) /\ received \in Nat
  BY TotalNat DEF ServerStep, RecvId, RecvInfo, RecvPacket, IInv, Waiting, TypeOK
<1>2. /\ Len(toServer) \in Nat \ {0} /\ Len(toServer') = Len(toServer) - 1
      /\ \A n \in 1..Len(toServer') : n + 1 \in 1..Len(toServer) /\ toServer'[n] = toServer[n + 1]
      /\ 1 \in 1..Len(toServer) /\ Head(toServer) = toServer[1]
  BY <1>1, TailParts
<1>3. /\ Len(toServer) = SentCount - TakenCount
      /\ \A n \in 1..Len(toServer) : toServer[n] = Nth(TakenCount + n)
      /\ server # "confused" /\ \A u \in DOMAIN buff : buff[u] \in {Unset, u}
  BY DEF Lossless
<1>4. SentCount' = SentCount
  BY <1>1 DEF SentCount
<1>5. TakenCount \in Nat
  BY <1>1 DEF TakenCount
<1>6. Head(toServer) = Nth(TakenCount + 1)
  BY <1>2, <1>3
<1>7. /\ server' # "confused" /\ TakenCount' = TakenCount + 1
      /\ \A u \in DOMAIN buff' : buff'[u] \in {Unset, u}
  <2>1. CASE RecvId
    BY <1>3, <2>1 DEF RecvId, TakenCount, IInv, Waiting
  <2>2. CASE RecvInfo
    <3>1. TakenCount = 1
      BY <2>2 DEF RecvInfo, TakenCount
    <3>2. Nth(1 + 1) = Info
      BY DEF Nth
    <3>3. server' = "receive" /\ received' = received /\ received = 0 /\ buff' = buff
      BY <1>6, <2>2, <3>1, <3>2, Kinds DEF RecvInfo, IInv, Waiting
    <3>. QED BY <1>3, <3>1, <3>3 DEF TakenCount
  <2>3. CASE RecvPacket
    <3>1. TakenCount = received + 2
      BY <2>3 DEF RecvPacket, TakenCount
    <3>2. received + 2 + 1 # 1 /\ received + 2 + 1 # 2 /\ received + 2 + 1 - 3 = received
      BY <1>1
    <3>3. Head(toServer) = Data(UnitOf(received))
      BY <1>6, <3>1, <3>2 DEF Nth
    <3>4. buff' = [buff EXCEPT ![UnitOf(received)] = UnitOf(received)] /\ received' = received + 1
      BY <2>3, <3>3, Kinds DEF RecvPacket, Slot
    <3>5. server' \in {"receive", "closed"}
      BY <2>3 DEF RecvPacket
    <3>. QED BY <1>1, <1>3, <3>1, <3>4, <3>5 DEF TakenCount
  <2>. QED BY <2>1, <2>2, <2>3 DEF ServerStep
<1>8. SentCount \in Int
  BY DEF SentCount, IInv, TypeOK
<1>9. Len(toServer') = SentCount' - TakenCount'
  BY <1>2, <1>3, <1>4, <1>5, <1>7, <1>8
<1>10. \A n \in 1..Len(toServer') : toServer'[n] = Nth(TakenCount + 1 + n)
  <2>1. \A n \in 1..Len(toServer') : TakenCount + (n + 1) = TakenCount + 1 + n
    BY <1>2, <1>5
  <2>. QED BY <1>2, <1>3, <2>1
<1>. QED BY <1>7, <1>9, <1>10 DEF Lossless, Nth, Id, Info, Data, UnitOf

LEMMA LosslessInductive == Spec => []Lossless
<1>1. Init => Lossless
  <2>1. Init => Len(toServer) = 0 /\ SentCount = 0 /\ TakenCount = 0
    BY EmptySeq DEF Init, SentCount, TakenCount
  <2>. QED BY <2>1 DEF Init, Lossless
<1>2. IInv /\ Lossless /\ [Next]_vars => Lossless'
  <2>. SUFFICES ASSUME IInv, Lossless, [Next]_vars, ~lost' PROVE Lossless'
    BY DEF Lossless
  <2>1. CASE ClientStep
    BY <2>1, LosslessClient DEF ClientStep, SendId, RecvAck, SendPacket
  <2>2. CASE ServerStep
    BY <2>2, LosslessServer DEF ServerStep, RecvId, RecvInfo, RecvPacket
  <2>3. CASE UNCHANGED vars
    BY <2>3 DEF vars, Lossless, SentCount, TakenCount, Nth, Id, Info, Data, UnitOf
  <2>. QED BY <2>1, <2>2, <2>3 DEF Next, Lose, Terminated
<1>. QED BY <1>1, <1>2, Inductive, PTL DEF Spec

-----------------------------------------------------------------------------
\* The states of both programs, their counters and image_buff keep their types.
THEOREM TypeCorrect == Spec => []TypeOK
<1>1. IInv => TypeOK
  BY DEF IInv
<1>. QED BY <1>1, Inductive, PTL

\* Without a loss no datagram is taken for one of another kind, and every packet
\* is stored at the place in image_buff it was read from.
THEOREM StoredInPlace == Spec => []InPlace
<1>1. IInv /\ Lossless => InPlace
  BY DEF IInv, Stored, Lossless, InPlace
<1>. QED BY <1>1, Inductive, LosslessInductive, PTL

\* Whatever is lost, packets are displaced towards the front only, and never
\* out of order.
THEOREM StoredInOrder == Spec => []OnlyForward
<1>1. IInv => OnlyForward
  BY DEF IInv, Stored
<1>. QED BY <1>1, Inductive, PTL

-----------------------------------------------------------------------------
(***************************************************************************)
(* What a transfer leaves out.                                             *)
(***************************************************************************)

\* Every second unit is never stored, and a transfer without loss stores the others.
HalfMissing ==
  \A k \in 0..(Total - 1) :
    /\ buff[2 * k + 1] = Unset
    /\ server = "closed" /\ ~lost => buff[2 * k] = 2 * k

OddUnset == \A k \in 0..(Total - 1) : buff[2 * k + 1] = Unset
ClosedFull == server = "closed" => received = Total

LEMMA HalfKept == IInv /\ OddUnset /\ ClosedFull /\ [Next]_vars => OddUnset' /\ ClosedFull'
<1>. SUFFICES ASSUME IInv, OddUnset, ClosedFull, [Next]_vars PROVE OddUnset' /\ ClosedFull'
  OBVIOUS
<1>1. CASE RecvPacket
  <2>1. received \in Nat /\ UnitOf(received) = 2 * received
    BY <1>1, TotalNat, Unit DEF IInv, TypeOK
  <2>2. buff \in [0..(2 * Total - 1) -> {Unset} \union 0..(2 * Total - 1)] /\ Total \in Nat
    BY TotalNat DEF IInv, TypeOK
  <2>3. ASSUME NEW k \in 0..(Total - 1) PROVE buff'[2 * k + 1] = buff[2 * k + 1]
    <3>1. 2 * k + 1 \in 0..(2 * Total - 1) /\ 2 * k + 1 # 2 * received
      BY <2>1, <2>2
    <3>. QED BY <1>1, <2>1, <2>2, <3>1 DEF RecvPacket, Slot
  <2>. QED BY <1>1, <2>1, <2>2, <2>3 DEF OddUnset, ClosedFull, RecvPacket, LastPacket
<1>2. CASE UNCHANGED <<server, received, buff>>
  BY <1>2 DEF OddUnset, ClosedFull
<1>3. CASE RecvId \/ RecvInfo
  BY <1>3 DEF RecvId, RecvInfo, OddUnset, ClosedFull
<1>. QED BY <1>1, <1>2, <1>3
         DEF Next, ClientStep, SendId, RecvAck, SendPacket, ServerStep, Lose, Terminated, vars

\* For any number of frames and packets: a client that advances a pointer to 16-bit
\* pixels by the bytes it has sent sends every second kilobyte of the image only.
\* No ImageComplete holds at the end of a transfer, not even of one without loss.
THEOREM HalfNeverSent == Spec => [](HalfMissing /\ (server = "closed" /\ ~lost => ~ImageComplete))
<1>1. Init => OddUnset /\ ClosedFull
  <2>1. ASSUME Init, NEW k \in 0..(Total - 1) PROVE buff[2 * k + 1] = Unset
    <3>1. 2 * k + 1 \in 0..(2 * Total - 1)
      BY TotalNat
    <3>. QED BY <2>1, <3>1 DEF Init
  <2>. QED BY <2>1 DEF Init, OddUnset, ClosedFull
<1>2. ASSUME IInv, Lossless, OddUnset, ClosedFull
      PROVE  HalfMissing /\ (server = "closed" /\ ~lost => ~ImageComplete)
  <2>1. Total \in Nat /\ Total > 0 /\ DOMAIN buff = 0..(2 * Total - 1)
    BY <1>2, UdpAssumption, TotalNat DEF IInv, TypeOK, Total
  <2>2. ASSUME NEW k \in 0..(Total - 1), server = "closed", ~lost PROVE buff[2 * k] = 2 * k
    <3>1. k \in 0..(received - 1) /\ k \in Nat /\ UnitOf(k) = 2 * k
      BY <1>2, <2>1, <2>2, Unit DEF ClosedFull
    <3>2. buff[2 * k] \in Even
      BY <1>2, <3>1 DEF IInv, Stored
    <3>3. 2 * k \in DOMAIN buff /\ Unset \notin Even
      BY <2>1 DEF Unset, Even
    <3>. QED BY <1>2, <2>2, <3>2, <3>3 DEF Lossless
  <2>3. server = "closed" /\ ~lost => ~ImageComplete
    <3>1. 0 \in 0..(Total - 1) /\ 2 * 0 + 1 = 1 /\ 1 \in DOMAIN buff
      BY <2>1
    <3>2. buff[1] = Unset
      BY <1>2, <3>1 DEF OddUnset
    <3>. QED BY <3>1, <3>2 DEF ImageComplete
  <2>. QED BY <1>2, <2>2, <2>3 DEF HalfMissing, OddUnset
<1>. QED BY <1>1, <1>2, HalfKept, Inductive, LosslessInductive, PTL DEF Spec
==============================================================================
