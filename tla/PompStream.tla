----------------------------- MODULE PompStream -----------------------------
(***************************************************************************)
(* One direction of a stream (TCP or unix) pomp connection: the sending   *)
(* end's Connection.send, its writer thread draining the write handler's  *)
(* queue with sendall, the socket byte stream, and the receiving end's    *)
(* reader thread, which takes whatever recv(1024) returns and runs it     *)
(* through its Protocol framer.  The peer may also write bytes that no    *)
(* pomp encoder produced (Garbage), the case the framer's magic scan is   *)
(* for.  Opening and closing the connection are left to the Context      *)
(* model; here the connection is up throughout.                           *)
(***************************************************************************)
EXTENDS PompProtocol

CONSTANTS
    Inputs,      \* [id, fmt, args] of the Connection.send calls
    Noise,       \* byte sequences a foreign or corrupted peer may write
    MaxSends,    \* Connection.send calls
    MaxNoise     \* Garbage writes

\* socket.recv(1024) in Connection._reader
RECV_SIZE == 1024

VARIABLES
    txq,         \* the writer thread's queue: messages posted, not yet written
    wire,        \* bytes written to the socket and not yet received
    prot,        \* the reader thread's Protocol
    sent,        \* the messages posted by Connection.send, in order ([msgid, data])
    delivered,   \* the messages passed to ctx.notifyMessage, in order
    noise        \* Garbage writes so far

vars == <<txq, wire, prot, sent, delivered, noise>>

\* Both ends' Connection objects right after start (Protocol.__init__).
Init ==
    /\ txq = <<>> /\ wire = <<>>
    /\ prot = ResetFramer
    /\ sent = <<>> /\ delivered = <<>>
    /\ noise = 0

\* Connection.send: Message.write then sendMsg, which posts the message to
\* the writer thread.  A Message.write that raises reaches the caller and
\* nothing is posted.
Send(in) ==
    /\ Len(sent) < MaxSends
    /\ LET r == MessageWrite(in.id, in.fmt, in.args)
           m == [msgid |-> in.id, data |-> r.b.data]
       IN  /\ r.b.exc = NoExc
           /\ txq' = Append(txq, m)
           /\ sent' = Append(sent, m)
    /\ UNCHANGED <<wire, prot, delivered, noise>>

\* Connection._onWriteRequest(_WRITE_MSG): sock.sendall of the buffer.
WriteRequest ==
    /\ txq # <<>>
    /\ wire' = wire \o Head(txq).data
    /\ txq' = Tail(txq)
    /\ UNCHANGED <<prot, sent, delivered, noise>>

\* Bytes on the stream that are not a pomp message.
Garbage(g) ==
    /\ noise < MaxNoise
    /\ wire' = wire \o g
    /\ noise' = noise + 1
    /\ UNCHANGED <<txq, prot, sent, delivered>>

\* One turn of Connection._reader's loop: recv returns the next n bytes,
\* any n from 1 up to the 1024 asked for, and every message they close is
\* notified.
Recv(n) ==
    /\ n \in 1..Len(wire)
    /\ n <= RECV_SIZE
    /\ LET r == ReadChunk(prot, SubSeq(wire, 1, n), 0, <<>>)
       IN  /\ prot' = r.p
           /\ delivered' = delivered \o r.out
    /\ wire' = SubSeq(wire, n + 1, Len(wire))
    /\ UNCHANGED <<txq, sent, noise>>

Next ==
    \/ \E in \in Inputs : Send(in)
    \/ WriteRequest
    \/ \E g \in Noise : Garbage(g)
    \/ \E n \in 1..Len(wire) : Recv(n)

\* The writer thread runs its looper and the reader thread blocks in recv
\* for as long as the connection is up: both keep taking work while there
\* is some.
Fairness == WF_vars(WriteRequest) /\ WF_vars(\E n \in 1..Len(wire) : Recv(n))

Spec == Init /\ [][Next]_vars /\ Fairness

-----------------------------------------------------------------------------
(* Properties                                                              *)

Byte == 0..255
Message == [msgid : Nat, data : Seq(Byte)]
FramerState == [state : STATE_IDLE..STATE_PAYLOAD, hdr : Seq(Byte),
                msgid : Nat, size : Nat, body : Seq(Byte)]

\* Type invariant; the header buffer never holds more than the 12 header
\* bytes (Protocol._copy stops at HEADER_SIZE).
TypeOK ==
    /\ txq \in Seq(Message) /\ sent \in Seq(Message) /\ delivered \in Seq(Message)
    /\ wire \in Seq(Byte)
    /\ prot \in FramerState /\ Len(prot.hdr) <= HEADER_SIZE
    /\ noise \in 0..MaxNoise

\* The messages the Inputs make.
Sendable == {[msgid |-> in.id, data |-> MessageWrite(in.id, in.fmt, in.args).b.data] :
             in \in Inputs}

Channel == INSTANCE PompChannel WITH Msgs <- Sendable

\* The connection is a reliable FIFO channel of whole messages: what the
\* reader notifies is always a prefix of what Connection.send posted, in
\* the same order, byte for byte, whatever sizes recv returns and whatever
\* garbage lies between frames; and every message posted is eventually
\* notified.  It rests on the framer's states surviving across recv
\* chunks, the decode loop handing back its offset, the size check and the
\* header written by Message.finish.
ChannelSpec == Channel!Spec
=============================================================================
