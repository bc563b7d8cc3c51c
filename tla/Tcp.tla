--------------------------------- MODULE Tcp ---------------------------------
(***************************************************************************)
(* A TCP connection of crates/network-stack: an active opener and the      *)
(* connection a listener makes for it, joined by a network that loses,     *)
(* duplicates and reorders segments.  Both ends run the code of tcp.rs;    *)
(* segments reach them through TcpConnectionTable::receive_packet.  Time   *)
(* is abstracted: a timer may expire at any moment, and the retry limit    *)
(* may be reached after any number of retransmissions.  Sequence numbers   *)
(* are modulo SeqSpace, which stands for 2^32.  The listener admits one    *)
(* connection and is gone when that connection has ended.                  *)
(***************************************************************************)
EXTENDS Integers, Sequences, FiniteSets

CONSTANTS SeqSpace,      \* the number of sequence numbers
          Iss,           \* [Ends -> 0..SeqSpace-1], the initial sequences
          Mss,           \* largest payload of a segment
          SendCapacity, ReceiveCapacity,
          MaxBytes,      \* [Ends -> Nat], bytes the application writes
          MaxInFlight,   \* segments the network holds; more are lost
          Strays         \* delayed control segments of an earlier connection

VARIABLES conn,     \* [Ends -> TcpConnection]
          net,      \* segments under way, each to arrive never, once or often
          written,  \* history: number of bytes each end queued
          got       \* history: the bytes each end accepted, in order

vars == <<conn, net, written, got>>

Ends == {"client", "server"}

Peer(e) == IF e = "client" THEN "server" ELSE "client"

Plus(a, b) == (a + b) % SeqSpace

sequence_before(a, b) == (a - b) % SeqSpace >= SeqSpace \div 2

sequence_after(a, b) == sequence_before(b, a)

\* A segment; bytes are named by their place in the sender's stream.
Segment(seq, ack, flags, payload) ==
  [seq |-> seq, ack |-> ack, flags |-> flags, payload |-> payload]

sequence_end(s) ==
  Plus(s.seq, Len(s.payload) + (IF "SYN" \in s.flags THEN 1 ELSE 0)
                             + (IF "FIN" \in s.flags THEN 1 ELSE 0))

local_window(c) == ReceiveCapacity - Len(c.receive_buffer)

Send(e, segment, window) == [from |-> e, seg |-> segment, window |-> window]

\* The acknowledgment of a connection that is not opening passively.
plain_ack(c) == Segment(c.send_next, c.receive_next, {"ACK"}, <<>>)

reset(s) ==
  IF "ACK" \in s.flags THEN Segment(s.ack, 0, {"RST"}, <<>>)
  ELSE Segment(0, sequence_end(s), {"RST", "ACK"}, <<>>)

NoConnection ==
  [state |-> "None", una |-> 0, send_next |-> 0, receive_next |-> 0, peer_window |-> 0,
   send_buffer |-> <<>>, receive_buffer |-> <<>>, outstanding |-> <<>>,
   sent |-> FALSE, close_requested |-> FALSE]

Opening(state, iss, segment) ==
  [NoConnection EXCEPT !.state = state, !.una = iss, !.send_next = Plus(iss, 1),
                       !.outstanding = <<segment>>]

\* find_tuple_mut finds a connection that is neither closed nor reset.
Live(c) == c.state \notin {"None", "Closed", "Reset"}

Synchronized == {"Established", "FinWait1", "FinWait2", "CloseWait", "LastAck", "TimeWait"}

-----------------------------------------------------------------------------
Init ==
  /\ conn = [e \in Ends |->
               IF e = "client"
               THEN Opening("SynSent", Iss[e], Segment(Iss[e], 0, {"SYN"}, <<>>))
               ELSE NoConnection]
  /\ net = {}
  /\ written = [e \in Ends |-> 0]
  /\ got = [e \in Ends |-> <<>>]

Update(e, c) == conn' = [conn EXCEPT ![e] = c]

\* The network takes the segment, or loses it where it is full.
Put(segment) == net' = IF Cardinality(net) < MaxInFlight THEN net \cup {segment} ELSE net

Transmit(e, c, segment) == Put(Send(e, segment, local_window(c)))

Lose(m) == net' = net \ {m} /\ UNCHANGED <<conn, written, got>>

(* The calls of the connection's owner. *)

queue_send(e) ==
  LET c == conn[e] IN
  /\ c.state \in {"Established", "CloseWait"}
  /\ written[e] < MaxBytes[e]
  /\ Len(c.send_buffer) + 1
       + (IF c.outstanding = <<>> THEN 0 ELSE Len(c.outstanding[1].payload)) <= SendCapacity
  /\ Update(e, [c EXCEPT !.send_buffer = Append(@, written[e] + 1)])
  /\ written' = [written EXCEPT ![e] = @ + 1]
  /\ UNCHANGED <<net, got>>

request_close(e) ==
  /\ conn[e].state \in {"Established", "CloseWait"}
  /\ Update(e, [conn[e] EXCEPT !.close_requested = TRUE])
  /\ UNCHANGED <<net, written, got>>

receive(e) ==
  /\ conn[e].state \notin {"None", "SynReceived"}
  /\ conn[e].receive_buffer # <<>>
  /\ Update(e, [conn[e] EXCEPT !.receive_buffer = Tail(@)])
  /\ UNCHANGED <<net, written, got>>

\* The owner announces its window, for example after a receive.
acknowledgment(e) ==
  LET c == conn[e] IN
  /\ Live(c) /\ c.state # "SynSent"
  /\ Transmit(e, c, IF c.state = "SynReceived" THEN c.outstanding[1] ELSE plain_ack(c))
  /\ UNCHANGED <<conn, written, got>>

\* A connection that has ended, with the fields that are still looked at.
Ended(c, state) ==
  [NoConnection EXCEPT !.state = state, !.receive_buffer = c.receive_buffer,
     !.outstanding = c.outstanding, !.sent = c.sent]

Aborted(c) == [NoConnection EXCEPT !.state = "Reset"]

abort(e) ==
  /\ Live(conn[e])
  /\ Update(e, Aborted(conn[e]))
  /\ UNCHANGED <<net, written, got>>

(* poll_transmit and tick. *)

\* The outstanding segment is sent, for the first time or again.  There is
\* at most one: new segments are made only when none is outstanding.  Its
\* acknowledgment field is the one it was made with.
Retransmit(e) ==
  LET c == conn[e] IN
  /\ c.outstanding # <<>>
  /\ Update(e, [c EXCEPT !.sent = TRUE])
  /\ Transmit(e, c, c.outstanding[1])
  /\ UNCHANGED <<written, got>>

RetriesExhausted(e) ==
  LET c == conn[e] IN
  /\ c.outstanding # <<>> /\ c.sent
  /\ Update(e, [NoConnection EXCEPT !.state = "Reset",
                  !.receive_buffer = IF c.state = "SynReceived" THEN <<>> ELSE c.receive_buffer])
  /\ UNCHANGED <<net, written, got>>

Push(e, c, segment) ==
  /\ Update(e, [c EXCEPT !.outstanding = <<segment>>, !.sent = TRUE,
                         !.send_next = sequence_end(segment)])
  /\ Transmit(e, c, segment)
  /\ UNCHANGED <<written, got>>

SendData(e) ==
  LET c == conn[e]
      n == CHOOSE n \in 0..Mss :
             /\ n <= Len(c.send_buffer) /\ n <= c.peer_window
             /\ \A i \in 0..Mss : i <= Len(c.send_buffer) /\ i <= c.peer_window => i <= n
  IN
  /\ c.state \in {"Established", "CloseWait"}
  /\ c.outstanding = <<>> /\ c.send_buffer # <<>> /\ n > 0
  /\ Push(e, [c EXCEPT !.send_buffer = SubSeq(@, n + 1, Len(@))],
          Segment(c.send_next, c.receive_next, {"ACK"}, SubSeq(c.send_buffer, 1, n)))

\* Mutant of FinMayGo: the FIN overtakes bytes that are still buffered.
FinMayGoEarly(c) == c.close_requested /\ c.outstanding = <<>>

FinMayGo(c) == c.close_requested /\ c.outstanding = <<>> /\ c.send_buffer = <<>>

SendFin(e) ==
  LET c == conn[e] IN
  /\ c.state \in {"Established", "CloseWait"}
  /\ FinMayGo(c)
  /\ Push(e, [c EXCEPT !.state = IF @ = "CloseWait" THEN "LastAck" ELSE "FinWait1",
                       !.close_requested = FALSE],
          Segment(c.send_next, c.receive_next, {"FIN", "ACK"}, <<>>))

tick(e) ==
  /\ conn[e].state = "TimeWait"
  /\ Update(e, Ended(conn[e], "Closed"))
  /\ UNCHANGED <<net, written, got>>

-----------------------------------------------------------------------------
(* receive_packet.  m is a segment on its way to e, c the connection there. *)

Arrivals(e) == {m \in net \cup Strays : m.from = Peer(e)}

inside(c, seq) == (seq - c.receive_next) % SeqSpace < local_window(c)

acceptable_sequence(c, s) ==
  LET length == Len(s.payload) + (IF "FIN" \in s.flags THEN 1 ELSE 0)
  IN  IF local_window(c) = 0 THEN length = 0 /\ s.seq = c.receive_next
      ELSE inside(c, s.seq) \/ (length # 0 /\ inside(c, Plus(s.seq, length - 1)))

Reply(e, c, segment) ==
  /\ Update(e, c)
  /\ Transmit(e, c, segment)
  /\ UNCHANGED <<written, got>>

Refuse(e, s) ==
  /\ Put(Send(e, reset(s), 0))
  /\ UNCHANGED <<conn, written, got>>

\* No connection: a listener admits a SYN, everything else is reset.
Admit(e, m) ==
  LET s == m.seg
      synack == Segment(Iss[e], Plus(s.seq, 1), {"SYN", "ACK"}, <<>>)
      c == [Opening("SynReceived", Iss[e], synack) EXCEPT
              !.receive_next = Plus(s.seq, 1), !.peer_window = m.window, !.sent = TRUE]
  IN
  /\ conn[e].state = "None"
  /\ s.flags = {"SYN"}
  /\ Reply(e, c, synack)

\* A closed or reset connection, or none while the segment acknowledges one.
RefuseStray(e, m) ==
  /\ "RST" \notin m.seg.flags
  /\ conn[e].state = "None" => "ACK" \in m.seg.flags
  /\ Refuse(e, m.seg)

ReceiveReset(e, m) ==
  LET c == conn[e] s == m.seg IN
  /\ IF c.state = "SynSent" THEN "ACK" \in s.flags /\ s.ack = c.send_next
     ELSE s.seq = c.receive_next
  /\ Update(e, Aborted(c))
  /\ UNCHANGED <<net, written, got>>

\* A reset inside the window that is not exact is challenged.
ChallengeReset(e, m) ==
  LET c == conn[e] s == m.seg IN
  /\ c.state # "SynSent"
  /\ s.seq # c.receive_next /\ inside(c, s.seq)
  /\ Reply(e, c, plain_ack(c))

\* SYN-SENT: an acknowledgment of something never sent is answered by a reset.
SynSentBadAck(e, m) ==
  /\ "ACK" \in m.seg.flags
  /\ m.seg.ack # conn[e].send_next
  /\ Refuse(e, m.seg)

Retired(c) == [c EXCEPT !.outstanding = <<>>, !.sent = FALSE]

acknowledge(c, ack) ==
  LET done == c.outstanding # <<>> /\ ~sequence_after(sequence_end(c.outstanding[1]), ack)
  IN  [IF done THEN Retired(c) ELSE c EXCEPT !.una = ack]

SynSentSynAck(e, m) ==
  LET c == [acknowledge(conn[e], m.seg.ack) EXCEPT !.state = "Established",
                           !.receive_next = Plus(m.seg.seq, 1), !.peer_window = m.window]
  IN
  /\ {"SYN", "ACK"} = m.seg.flags /\ m.seg.ack = conn[e].send_next
  /\ Reply(e, c, plain_ack(c))

duplicate_syn(c, s) ==
  c.state = "SynReceived" /\ s.flags = {"SYN"} /\ Plus(s.seq, 1) = c.receive_next

duplicate_syn_ack(c, s) ==
  /\ c.state = "Established" /\ s.flags = {"SYN", "ACK"}
  /\ Plus(s.seq, 1) = c.receive_next /\ s.ack = c.una

\* A repeated SYN is answered by the SYN/ACK; a repeated SYN/ACK, any other SYN
\* and any segment outside the window by a plain acknowledgment.
ReceiveRepeated(e, m) ==
  LET c == conn[e] s == m.seg IN
  /\ "SYN" \in s.flags \/ ~acceptable_sequence(c, s)
  /\ Reply(e, c, IF duplicate_syn(c, s) THEN c.outstanding[1] ELSE plain_ack(c))

\* What reaches on_segment: an acceptable segment with an acknowledgment.
Enters(c, s) == "SYN" \notin s.flags /\ "ACK" \in s.flags /\ acceptable_sequence(c, s)

ValidAck(c, s) ==
  IF c.state = "SynReceived" THEN s.ack = c.send_next
  ELSE ~sequence_before(s.ack, c.una) /\ ~sequence_after(s.ack, c.send_next)

ReceiveBadAck(e, m) ==
  LET c == conn[e] s == m.seg IN
  /\ ~(c.state # "SynReceived" /\ s.payload = <<>> /\ "FIN" \notin s.flags
       /\ s.seq # c.receive_next)
  /\ ~ValidAck(c, s)
  /\ IF c.state = "SynReceived" THEN Refuse(e, s) ELSE Reply(e, c, plain_ack(c))

\* The connection after the acknowledgment and the window of m.
Acknowledged(c, m) ==
  LET s == m.seg
      a == [acknowledge(c, s.ack) EXCEPT !.peer_window = m.window]
      advances == s.ack # c.una
  IN  CASE c.state = "SynReceived" -> [a EXCEPT !.state = "Established"]
        [] c.state = "FinWait1" /\ advances /\ s.ack = c.send_next -> [a EXCEPT !.state = "FinWait2"]
        [] OTHER -> a

\* A bare acknowledgment ahead of the stream is answered and ignored, except
\* that one which completes the passive opening does complete it.
ReceiveAhead(e, m) ==
  LET c == conn[e]
      s == m.seg
      a == IF c.state = "SynReceived" THEN Acknowledged(c, m) ELSE c
  IN
  /\ c.state = "SynReceived" => ValidAck(c, s)
  /\ s.payload = <<>> /\ "FIN" \notin s.flags /\ s.seq # c.receive_next
  /\ Reply(e, a, plain_ack(a))

\* Mutant of Accept: the stream position is not advanced.
AcceptInPlace(c, s) == [c EXCEPT !.receive_buffer = @ \o s.payload]

Accept(c, s) == [c EXCEPT !.receive_buffer = @ \o s.payload,
                          !.receive_next = Plus(@, Len(s.payload))]

AfterFin(c) ==
  [c EXCEPT !.receive_next = Plus(@, 1),
            !.state = CASE @ \in {"FinWait1", "FinWait2"} -> "TimeWait"
                        [] @ = "Established" -> "CloseWait"
                        [] OTHER -> @]

LastAckClosed(e, m) ==
  LET c == conn[e] s == m.seg IN
  /\ c.state = "LastAck"
  /\ s.payload = <<>> /\ "FIN" \notin s.flags => s.seq = c.receive_next
  /\ s.ack = c.send_next /\ s.ack # c.una
  /\ Update(e, Ended(acknowledge(c, s.ack), "Closed"))
  /\ UNCHANGED <<net, written, got>>

\* The text and the FIN of an acceptable segment, taken only in order.  Text
\* that does not fit leaves the acknowledgment applied and is not answered; a
\* bare acknowledgment is not answered either.
on_segment(e, m) ==
  LET c == conn[e]
      s == m.seg
      a == Acknowledged(c, m)
      text == s.payload # <<>>
      inorder == s.seq = a.receive_next
      overflow == text /\ inorder /\ Len(a.receive_buffer) + Len(s.payload) > ReceiveCapacity
      b == IF text /\ inorder THEN Accept(a, s) ELSE a
      fin == "FIN" \in s.flags /\ Plus(s.seq, Len(s.payload)) = b.receive_next
      d == IF fin THEN AfterFin(b) ELSE b
  IN
  /\ ValidAck(c, s)
  /\ ~text /\ "FIN" \notin s.flags => inorder
  /\ ~(c.state = "LastAck" /\ s.ack = c.send_next /\ s.ack # c.una)
  /\ IF overflow
     THEN Update(e, a) /\ UNCHANGED <<net, got>>
     ELSE /\ Update(e, d)
          /\ IF text \/ "FIN" \in s.flags
             THEN Transmit(e, d, plain_ack(d))
             ELSE UNCHANGED net
          /\ got' = IF text /\ inorder THEN [got EXCEPT ![e] = @ \o s.payload] ELSE got
  /\ UNCHANGED written

Deliver(e, m) ==
  LET c == conn[e]
      rst == "RST" \in m.seg.flags
  IN
  \/ ~Live(c) /\ (Admit(e, m) \/ RefuseStray(e, m))
  \/ Live(c) /\ rst /\ (ReceiveReset(e, m) \/ ChallengeReset(e, m))
  \/ c.state = "SynSent" /\ ~rst /\ (SynSentBadAck(e, m) \/ SynSentSynAck(e, m))
  \/ Live(c) /\ c.state # "SynSent" /\ ~rst /\
       (\/ ReceiveRepeated(e, m)
        \/ /\ Enters(c, m.seg)
           /\ \/ ReceiveBadAck(e, m) \/ ReceiveAhead(e, m)
              \/ LastAckClosed(e, m) \/ on_segment(e, m))

Next ==
  \/ \E e \in Ends :
       \/ queue_send(e) \/ request_close(e) \/ receive(e) \/ acknowledgment(e) \/ abort(e)
       \/ Retransmit(e) \/ RetriesExhausted(e) \/ SendData(e) \/ SendFin(e) \/ tick(e)
       \/ \E m \in Arrivals(e) : Deliver(e, m)
  \/ \E m \in net : Lose(m)

Spec == Init /\ [][Next]_vars

-----------------------------------------------------------------------------
\* However segments are lost, repeated and reordered, each end accepts the
\* bytes its peer wrote, in order, without a gap or a repetition, across the
\* wrap of the sequence numbers, and never more than its buffer announced.
StreamIntegrity ==
  \A e \in Ends :
    /\ got[e] = [i \in 1..Len(got[e]) |-> i]
    /\ Len(got[e]) <= written[Peer(e)]
    /\ Len(conn[e].receive_buffer) <= ReceiveCapacity

\* A FIN closes the stream behind its last byte.  An end that sent its FIN and
\* was not reset has had every byte accepted by its peer, and an end that took
\* a FIN has every byte its peer wrote.
OrderlyClose ==
  \A e \in Ends :
    /\ conn[e].state \in {"FinWait1", "FinWait2", "LastAck", "TimeWait", "Closed"}
         => Len(got[Peer(e)]) = written[e]
    /\ conn[e].state \in {"CloseWait", "LastAck", "TimeWait", "Closed"}
         => Len(got[e]) = written[Peer(e)]
=============================================================================
