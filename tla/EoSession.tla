------------------------------ MODULE EoSession ------------------------------
(***************************************************************************)
(* A client and a server keep their packet sequencers in step, as the page *)
(* "Packet Sequencing" of docs/usage.dox has them use sequencer.c: the     *)
(* server draws a start and sends it as two bytes, the client stamps every *)
(* packet with eo_writer_add_char, a ping moves both to a new start.  The  *)
(* network and what the server does with a stamp are external: the server  *)
(* reads the stamp with eo_reader_get_char, compares it with its own       *)
(* sequencer, and takes the new start when the answer to its ping arrives. *)
(* A packet of the network may be lost, repeated or overtaken.             *)
(***************************************************************************)
EXTENDS EoSequence

CONSTANTS
    MaxSent,    \* bound: packets a client stamps from one start
    MaxPings,   \* bound: pings in a session
    MaxFlight,  \* bound: packets on their way to the server
    MaxFaults,  \* bound: packets lost, repeated or overtaken
    Absent        \* no start, no sequencer, no packet

ASSUME SessionAssumption ==
    /\ CharMax >= 10
    /\ MaxSent \in Nat /\ MaxPings \in Nat /\ MaxFlight \in Nat /\ MaxFaults \in Nat
    /\ Absent \notin Int /\ Absent \notin Sequencer

VARIABLES
    server,    \* the server's sequencer, or Absent before the handshake
    client,    \* the client's sequencer, or Absent
    upcoming,  \* the start announced in an unanswered ping, or Absent
    toClient,  \* init and ping packets on their way
    toServer,  \* stamped packets on their way
    sent,      \* how many packets the client stamped from its start
    received,  \* how many packets the server took from its start
    pings,     \* how many pings were sent
    faults,    \* how many packets were lost, repeated or overtaken
    checked    \* the last packet the server compared, its verdict and due

vars == <<server, client, upcoming, toClient, toServer, sent, received, pings,
          faults, checked>>

\* The bytes eo_writer_add_char puts into the packet header.
Stamp(value) == Encoded(1, value)

Packet(kind, sequencer, index) ==
    [kind |-> kind, stamp |-> Stamp(SequencerValue(sequencer)),
     start |-> sequencer.start, index |-> index]

\* The server closes the connection on a wrong stamp.
Open == checked # Absent => checked.accepted

Init ==
    /\ server = Absent /\ client = Absent /\ upcoming = Absent
    /\ toClient = << >> /\ toServer = << >>
    /\ sent = 0 /\ received = 0 /\ pings = 0 /\ faults = 0
    /\ checked = Absent

-----------------------------------------------------------------------------
\* The server draws a start and splits it for its init packet.
ServerStart ==
    /\ server = Absent
    /\ \E start \in GeneratedStarts : \E seq1 \in InitLow(start) .. InitHigh(start) :
          LET b == InitBytes(start, seq1)
          IN  /\ b.result = "EO_SUCCESS"
              /\ server' = SequencerInit(start)
              /\ toClient' = Append(toClient, [kind |-> "init", bytes |-> b.bytes])
    /\ UNCHANGED <<client, upcoming, toServer, sent, received, pings, faults, checked>>

\* A ping announces a new start; one ping at a time.
ServerPing ==
    /\ Open /\ server # Absent /\ upcoming = Absent /\ pings < MaxPings
    /\ \E start \in GeneratedStarts : \E seq1 \in PingLow(start) .. PingHigh(start) :
          LET b == PingBytes(start, seq1)
          IN  /\ b.result = "EO_SUCCESS"
              /\ upcoming' = start
              /\ toClient' = Append(toClient, [kind |-> "ping", bytes |-> b.bytes])
    /\ pings' = pings + 1
    /\ UNCHANGED <<server, client, toServer, sent, received, faults, checked>>

ClientStart ==
    /\ toClient # << >> /\ Head(toClient).kind = "init"
    /\ client' = SequencerInit(StartFromInit(Head(toClient).bytes[1], Head(toClient).bytes[2]))
    /\ toClient' = Tail(toClient)
    /\ sent' = 0
    /\ UNCHANGED <<server, upcoming, toServer, received, pings, faults, checked>>

\* eo_sequencer_next, then eo_writer_add_char of what it gave.
ClientSend ==
    /\ client # Absent /\ sent < MaxSent /\ Len(toServer) < MaxFlight
    /\ Accepts(1, SequencerValue(client))
    /\ toServer' = Append(toServer, Packet("data", client, sent + 1))
    /\ client' = SequencerNext(client)
    /\ sent' = sent + 1
    /\ UNCHANGED <<server, upcoming, toClient, received, pings, faults, checked>>

\* The client takes the new start and answers with a packet stamped from it.
ClientPong ==
    /\ client # Absent /\ toClient # << >> /\ Head(toClient).kind = "ping"
    /\ Len(toServer) < MaxFlight
    /\ LET fresh == SequencerInit(StartFromPing(Head(toClient).bytes[1],
                                                Head(toClient).bytes[2]))
       IN  /\ Accepts(1, SequencerValue(fresh))
           /\ toServer' = Append(toServer, Packet("pong", fresh, 1))
           /\ client' = SequencerNext(fresh)
    /\ toClient' = Tail(toClient)
    /\ sent' = 1
    /\ UNCHANGED <<server, upcoming, received, pings, faults, checked>>

\* Take over the announced start when the packet answers the ping.
Current(packet) ==
    IF packet.kind = "pong" /\ upcoming # Absent THEN SequencerInit(upcoming) ELSE server

ServerReceive ==
    /\ Open /\ toServer # << >>
    /\ LET packet == Head(toServer)
           s      == Current(packet)
           fresh  == packet.kind = "pong" /\ upcoming # Absent
           due    == (IF fresh THEN 0 ELSE received) + 1
       IN  /\ checked' = [packet   |-> packet,
                          start    |-> s.start,
                          due      |-> due,
                          accepted |-> DecodeNumber(packet.stamp) = SequencerValue(s)]
           /\ server' = SequencerNext(s)
           /\ received' = due
           /\ upcoming' = IF fresh THEN Absent ELSE upcoming
    /\ toServer' = Tail(toServer)
    /\ UNCHANGED <<client, toClient, sent, pings, faults>>

\* The network loses a packet, repeats it, or lets it overtake the next one.
Disturbed(s) ==
    {[k \in 1 .. Len(s) - 1 |-> IF k < i THEN s[k] ELSE s[k + 1]] : i \in 1 .. Len(s)}
    \cup {[k \in 1 .. Len(s) + 1 |-> IF k <= i THEN s[k] ELSE s[k - 1]] : i \in 1 .. Len(s)}
    \cup {[s EXCEPT ![i] = s[i + 1], ![i + 1] = s[i]] : i \in 1 .. Len(s) - 1}

Disturb ==
    /\ faults < MaxFaults /\ toServer # << >>
    /\ toServer' \in Disturbed(toServer)
    /\ faults' = faults + 1
    /\ UNCHANGED <<server, client, upcoming, toClient, sent, received, pings, checked>>

Next ==
    \/ ServerStart \/ ServerPing \/ ServerReceive
    \/ ClientStart \/ ClientSend \/ ClientPong
    \/ Disturb

Spec == Init /\ [][Next]_vars
-----------------------------------------------------------------------------
PacketType == [kind : {"data", "pong"}, stamp : Seq(Byte), start : Int, index : Nat]

TypeOK ==
    /\ server \in Sequencer \cup {Absent} /\ client \in Sequencer \cup {Absent}
    /\ upcoming \in Int \cup {Absent}
    /\ toServer \in Seq(PacketType)
    /\ sent \in Nat /\ received \in Nat
    /\ checked # Absent => checked.packet \in PacketType

\* The value the client stamped a packet with.
StampedValue(packet) == packet.start + (packet.index % 10)

(* While nothing goes wrong on the way, the server rejects no packet, save  *)
(* one stamped EO_CHAR_MAX: through the handshake, any number of packets,   *)
(* and pings that cross packets still on their way.                         *)
InOrderPassUnlessMax ==
    faults = 0 => Open \/ StampedValue(checked.packet) = CharMax

(* docs/usage.dox: the number is there "to detect out-of-order or replayed  *)
(* packets".  One that was lost, repeated or overtaken within the last nine *)
(* is noticed: a packet stamped from the server's start and accepted is     *)
(* exactly the one that is due.                                             *)
AcceptedAreDue ==
    checked # Absent =>
        LET p == checked.packet
        IN  /\ checked.accepted
            /\ p.start = checked.start /\ StampedValue(p) < CharMax
            /\ p.index - checked.due \in -9 .. 9
            => p.index = checked.due

(* The client works from the start the server drew last or from the one     *)
(* before: what the two bytes say is what the server meant, and no ping is  *)
(* taken for another.                                                       *)
StartsAgree ==
    faults = 0 /\ client # Absent => client.start \in {server.start, upcoming}

(* The same session without the exception: an in-order packet is never      *)
(* taken for an out-of-order or replayed one.                               *)
InOrderPacketsPass == faults = 0 => Open
=============================================================================
