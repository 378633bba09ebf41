----------------------------- MODULE UdpTransfer -----------------------------
(***************************************************************************)
(* The camera simulator of testbench/test_udp: the client (the camera)     *)
(* sends an image sequence to the server (the blade) over UDP.  A hand     *)
(* shake of one datagram each way, one datagram with the image parameters, *)
(* then the frames, packet by packet, without sequence numbers,            *)
(* acknowledgements or retries.                                            *)
(*                                                                         *)
(* The unit of data is what one datagram carries: packet_size bytes, half  *)
(* as many 16-bit pixels.  Both sides advance their uint16 pointer by      *)
(* packet_size, hence by two units per packet.  A frame is taken to be a   *)
(* whole number of packets: otherwise num_packets is rounded up, and the   *)
(* last packet of a frame may reach beyond it on both sides.               *)
(***************************************************************************)
EXTENDS Integers, Sequences

CONSTANTS
  Pages,    \* image_info->page_num
  Packets   \* num_packets of a frame; image_size is Packets * packet_size

ASSUME UdpAssumption == Pages \in Nat \ {0} /\ Packets \in Nat \ {0}

VARIABLES
  client,    \* where the client is
  sent,      \* packets the client has sent
  server,    \* where the server is
  received,  \* packets the server has taken: i * num_packets + j
  buff,      \* image_buff: for each unit the unit stored there, or Unset
  toServer, toClient, \* datagrams in flight, oldest first
  lost       \* history: has the network dropped a datagram?

vars == <<client, sent, server, received, buff, toServer, toClient, lost>>

Total == Pages * Packets
Unset == -1
Id == [kind |-> "id", unit |-> 0]
Info == [kind |-> "info", unit |-> 0]
Data(u) == [kind |-> "data", unit |-> u]

\* The unit image_ptr points at for the n-th packet of the sequence.
UnitOf(n) == LET i == n \div Packets
                 j == n % Packets
             IN  2 * (i * Packets + j)

Init ==
  /\ client = "hello" /\ sent = 0
  /\ server = "awaitId" /\ received = 0
  /\ buff = [u \in 0..(2 * Total - 1) |-> Unset]
  /\ toServer = <<>> /\ toClient = <<>> /\ lost = FALSE

(***************************************************************************)
(* The client.                                                             *)
(***************************************************************************)
SendId ==
  /\ client = "hello"
  /\ toServer' = Append(toServer, Id)
  /\ client' = "awaitAck"
  /\ UNCHANGED <<sent, server, received, buff, toClient, lost>>

\* Receive the reply, send the image parameters.
RecvAck ==
  /\ client = "awaitAck" /\ toClient # <<>>
  /\ toClient' = Tail(toClient)
  /\ toServer' = Append(toServer, Info)
  /\ client' = "send"
  /\ UNCHANGED <<sent, server, received, buff, lost>>

\* One turn of the packet loop; after the last packet the client closes.
LastSent == sent + 1 = Total
SendPacket ==
  /\ client = "send"
  /\ toServer' = Append(toServer, Data(UnitOf(sent)))
  /\ sent' = sent + 1
  /\ client' = IF LastSent THEN "closed" ELSE "send"
  /\ UNCHANGED <<server, received, buff, toClient, lost>>

(***************************************************************************)
(* The server.                                                             *)
(***************************************************************************)
RecvId ==
  /\ server = "awaitId" /\ toServer # <<>>
  /\ toServer' = Tail(toServer)
  /\ toClient' = Append(toClient, Id)
  /\ server' = "awaitInfo"
  /\ UNCHANGED <<client, sent, received, buff, lost>>

\* Whatever comes is taken for the image parameters; pixels in their place make
\* the rest of the run arbitrary.
RecvInfo ==
  /\ server = "awaitInfo" /\ toServer # <<>>
  /\ toServer' = Tail(toServer)
  /\ server' = IF Head(toServer).kind = "info" THEN "receive" ELSE "confused"
  /\ UNCHANGED <<client, sent, received, buff, toClient, lost>>

\* Where the server's image_ptr points.
Bug_Slot(n) == UnitOf(n % Packets)
Slot(n) == UnitOf(n)

\* One turn of the receive loop: the datagram goes where the loop stands.
Bug_LastPacket == received = Total
LastPacket == received + 1 = Total
RecvPacket ==
  /\ server = "receive" /\ toServer # <<>>
  /\ toServer' = Tail(toServer)
  /\ buff' = [buff EXCEPT ![Slot(received)] = Head(toServer).unit]
  /\ received' = received + 1
  /\ server' = IF LastPacket THEN "closed" ELSE "receive"
  /\ UNCHANGED <<client, sent, toClient, lost>>

(***************************************************************************)
(* The network, and the end.                                               *)
(***************************************************************************)

\* A datagram is dropped, at the latest in a full socket buffer.
Lose ==
  /\ lost' = TRUE
  /\ \/ \E n \in DOMAIN toServer :
          /\ toServer' = SubSeq(toServer, 1, n - 1) \o SubSeq(toServer, n + 1, Len(toServer))
          /\ UNCHANGED toClient
     \/ toClient # <<>> /\ toClient' = <<>> /\ UNCHANGED toServer
  /\ UNCHANGED <<client, sent, server, received, buff>>

Terminated == client = "closed" /\ server = "closed" /\ UNCHANGED vars

-----------------------------------------------------------------------------
ClientStep == SendId \/ RecvAck \/ SendPacket
ServerStep == RecvId \/ RecvInfo \/ RecvPacket

Next == ClientStep \/ ServerStep \/ Lose \/ Terminated

Spec == Init /\ [][Next]_vars

\* Both processes run, and a datagram that is not lost arrives.
FairSpec == Spec /\ WF_vars(ClientStep) /\ WF_vars(ServerStep)

-----------------------------------------------------------------------------
(***************************************************************************)
(* Correctness.                                                            *)
(***************************************************************************)

\* The type of every variable.
TypeOK ==
  /\ client \in {"hello", "awaitAck", "send", "closed"}
  /\ server \in {"awaitId", "awaitInfo", "receive", "confused", "closed"}
  /\ sent \in 0..Total /\ received \in 0..Total /\ lost \in BOOLEAN
  /\ buff \in [0..(2 * Total - 1) -> {Unset} \union 0..(2 * Total - 1)]

\* While nothing is lost a unit is only stored where it belongs, and no datagram
\* of one kind is taken for another.
InPlace ==
  ~lost =>
    /\ \A u \in DOMAIN buff : buff[u] \in {Unset, u}
    /\ server # "confused"
    /\ \A n \in DOMAIN toServer : server = "receive" => toServer[n].kind = "data"

\* A transfer without loss ends, in both programs; neither waits for the other.
TransferEnds == []~lost => <>(client = "closed" /\ server = "closed")

\* Losses displace packets, but only towards the front and never out of order:
\* what the server holds is a subsequence of what was sent.
OnlyForward ==
  \A n \in 0..(received - 1) :
    /\ buff[UnitOf(n)] >= UnitOf(n)
    /\ n > 0 => buff[UnitOf(n)] > buff[UnitOf(n - 1)]

\* "send the image" (udp_client.c:39): when a transfer without loss has ended the
\* server has every unit of it.
ImageComplete ==
  server = "closed" /\ ~lost => \A u \in DOMAIN buff : buff[u] # Unset

=============================================================================
