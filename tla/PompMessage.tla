----------------------------- MODULE PompMessage -----------------------------
(***************************************************************************)
(* pomp/message.py with the Encoder and Decoder that borrow it: the life  *)
(* of one Message object under any sequence of API calls of one caller.    *)
(* The core is single-threaded (spec section 5): each call is one action,  *)
(* everything it does, up to a raised exception, included.                *)
(***************************************************************************)
EXTENDS PompCodec, FiniteSets, SequencesExt

CONSTANTS
    Ids,              \* message ids passed to init / write
    TypedInputs,      \* [tag, arg] pairs for writeI8 .. writeBuf
    FmtInputs,        \* [fmt, args] pairs for Encoder.write / Message.write
    ReadFmts,         \* formats passed to Message.read
    MaxCalls,         \* encoder write calls per message (bounds the buffer)
    MaxEncInits,      \* Encoder.init calls per message
    EncoderMisuse,    \* whether the caller re-inits or clears a message
                      \* while its Encoder still holds it
    ReadBeforeFinish  \* whether the caller reads messages it has not finished

VARIABLES
    msg,    \* the Message: [msgid, finished, buf]; buf = NoneBuf until init
    enc,    \* TRUE while the caller's Encoder holds the message (Encoder.msg)
    hist    \* since the last init: encoder calls, Encoder.init calls, the
            \* values written ([tag, arg]), whether an encoder call raised,
            \* and the conversions requested ('%' count or one per writeX)

vars == <<msg, enc, hist>>

\* Message.buf before init and after clear (Python None).
NoneBuf == [none |-> TRUE]

NoHist == [calls |-> 0, inits |-> 0, written |-> <<>>, failed |-> FALSE]

\* An exception raised inside a call reaches the caller; the object keeps
\* what was done before it.
Settle(b) == [b EXCEPT !.exc = NoExc]

\* Message.__init__
Init ==
    /\ msg = [msgid |-> 0, finished |-> FALSE, buf |-> NoneBuf]
    /\ enc = FALSE
    /\ hist = NoHist

\* Message.init(msgid): a fresh buffer.
MsgInit(id) ==
    /\ ~enc \/ EncoderMisuse
    /\ msg' = [msgid |-> id, finished |-> FALSE, buf |-> NewBuffer]
    /\ hist' = NoHist
    /\ UNCHANGED enc

\* Encoder().init(msg): relative skip of the header size.
EncoderInit ==
    /\ msg.buf # NoneBuf
    /\ hist.inits < MaxEncInits
    /\ LET b == skip(msg.buf, HEADER_SIZE)
       IN  /\ msg' = [msg EXCEPT !.buf = Settle(b)]
           /\ hist' = [hist EXCEPT !.inits = @ + 1, !.failed = @ \/ b.exc # NoExc]
    /\ enc' = TRUE

\* Encoder.clear
EncoderClear ==
    /\ enc
    /\ enc' = FALSE
    /\ UNCHANGED <<msg, hist>>

\* Record the outcome of an encoder call that wrote the values log.
Wrote(b, log) ==
    /\ msg' = [msg EXCEPT !.buf = Settle(b)]
    /\ hist' = [hist EXCEPT !.calls = @ + 1, !.written = @ \o log,
                            !.failed = @ \/ b.exc # NoExc]

\* Encoder.writeI8 .. writeF64, writeStr, writeBuf
EncoderWriteValue(tag, a) ==
    /\ enc /\ msg.buf # NoneBuf
    /\ hist.calls < MaxCalls
    /\ LET b == CASE tag = DATA_TYPE_STR -> writeStr(msg.buf, a)
                  [] tag = DATA_TYPE_BUF -> writeBuf(msg.buf, a)
                  [] OTHER               -> writeNum(msg.buf, tag, a.v)
       IN  Wrote(b, IF b.exc = NoExc THEN <<[tag |-> tag, arg |-> a]>> ELSE <<>>)
    /\ UNCHANGED enc

\* Encoder.write(fmt, *args)
EncoderWriteFmt(fmt, args) ==
    /\ enc /\ msg.buf # NoneBuf
    /\ hist.calls < MaxCalls
    /\ LET r == EncoderWrite(msg.buf, fmt, args)
       IN  Wrote(r.b, r.log)
    /\ UNCHANGED enc

Finish ==
    /\ msg.buf # NoneBuf
    /\ LET b == Finished(msg.buf, msg.msgid)
       IN  msg' = [msg EXCEPT !.buf = Settle(b),
                              !.finished = @ \/ b.exc = NoExc]
    /\ UNCHANGED <<enc, hist>>

\* Message.write(msgid, fmt, *args): init, a fresh Encoder, write, finish.
Write(id, fmt, args) ==
    LET r == MessageWrite(id, fmt, args)
    IN  /\ msg' = [msgid |-> id, buf |-> Settle(r.b), finished |-> r.b.exc = NoExc]
        /\ hist' = [NoHist EXCEPT !.inits = 1, !.calls = 1, !.written = r.log,
                                  !.failed = r.b.exc # NoExc]
        /\ UNCHANGED enc

\* Message.read(fmt) and Message.dump(): a Decoder moves the shared cursor.
Read(fmt) ==
    /\ msg.buf # NoneBuf
    /\ msg.finished \/ ReadBeforeFinish
    /\ msg' = [msg EXCEPT !.buf = Settle(DecoderRead(msg.buf, fmt).b)]
    /\ UNCHANGED <<enc, hist>>

Dump ==
    /\ msg.buf # NoneBuf
    /\ msg.finished \/ ReadBeforeFinish
    /\ msg' = [msg EXCEPT !.buf = Settle(DecoderDump(msg.buf).b)]
    /\ UNCHANGED <<enc, hist>>

\* Message.clear
Clear ==
    /\ ~enc \/ EncoderMisuse
    /\ msg' = [msgid |-> 0, finished |-> FALSE, buf |-> NoneBuf]
    /\ hist' = NoHist
    /\ UNCHANGED enc

Next ==
    \/ \E id \in Ids : MsgInit(id)
    \/ EncoderInit
    \/ EncoderClear
    \/ \E in \in TypedInputs : EncoderWriteValue(in.tag, in.arg)
    \/ \E in \in FmtInputs : EncoderWriteFmt(in.fmt, in.args)
    \/ Finish
    \/ \E id \in Ids, in \in FmtInputs : Write(id, in.fmt, in.args)
    \/ \E fmt \in ReadFmts : Read(fmt)
    \/ Dump
    \/ Clear

Spec == Init /\ [][Next]_vars

-----------------------------------------------------------------------------
(* Properties                                                              *)

Bytes == 0..255
\* Type invariant: every byte written is a byte, and no exception is left
\* pending between calls.
TypeOK ==
    /\ msg \in [msgid : Ids \cup {0}, finished : BOOLEAN,
                buf : {NoneBuf} \cup [data : Seq(Bytes), pos : Nat,
                                     readonly : BOOLEAN, exc : {NoExc}]]
    /\ enc \in BOOLEAN
    /\ hist \in [calls : 0..MaxCalls, inits : 0..MaxEncInits,
                 written : Seq([tag : 1..12, arg : {a.arg : a \in TypedInputs}
                                \cup UNION {Range(in.args) : in \in FmtInputs}]),
                 failed : BOOLEAN]

\* The format that reads back a value of each tag.
FmtFor(tag) ==
    CASE tag = DATA_TYPE_I8  -> <<"%", "h", "h", "d">>
      [] tag = DATA_TYPE_U8  -> <<"%", "h", "h", "u">>
      [] tag = DATA_TYPE_I16 -> <<"%", "h", "d">>
      [] tag = DATA_TYPE_U16 -> <<"%", "h", "u">>
      [] tag = DATA_TYPE_I32 -> <<"%", "d">>
      [] tag = DATA_TYPE_U32 -> <<"%", "u">>
      [] tag = DATA_TYPE_I64 -> <<"%", "l", "l", "d">>
      [] tag = DATA_TYPE_U64 -> <<"%", "l", "l", "u">>
      [] tag = DATA_TYPE_STR -> <<"%", "s">>
      [] tag = DATA_TYPE_BUF -> <<"%", "p">>
      [] tag = DATA_TYPE_F32 -> <<"%", "f">>
      [] tag = DATA_TYPE_F64 -> <<"%", "l", "f">>
ReadBackFmt(w) == FoldLeft(LAMBDA acc, e : acc \o FmtFor(e.tag), <<>>, w)

IntegerTag(tag) == tag \in 1..8
InRange(v, tag) ==
    IF tag \in SignedTags THEN -(2^(TagWidth(tag) - 1)) <= v /\ v < 2^(TagWidth(tag) - 1)
    ELSE 0 <= v /\ v < 2^TagWidth(tag)

\* A value the spec's round-trip promise covers: the Python type the tag
\* wants, integers within the width, singles representable, ASCII text.
WellFormed(e) ==
    CASE IntegerTag(e.tag)     -> e.arg.t = "int" /\ InRange(e.arg.v, e.tag)
      [] e.tag = DATA_TYPE_F32 -> e.arg.t = "int" \/ (e.arg.t = "float" /\ e.arg.v.k # "pi64")
      [] e.tag = DATA_TYPE_F64 -> e.arg.t \in {"int", "float"}
      [] e.tag = DATA_TYPE_STR -> e.arg.t = "str" /\ \A i \in DOMAIN e.arg.v : e.arg.v[i] < 128
      [] OTHER                 -> e.arg.t = "bytes"
Expected(e) ==
    IF e.tag \in FloatTags THEN ToFloat(e.arg).v
    ELSE IF IntegerTag(e.tag) THEN e.arg.v ELSE e.arg

Completed == msg.finished /\ ~hist.failed

\* Round trip (spec 8): once a message written without an encoder error is
\* finished, Message.read with the matching format returns exactly the
\* values written through Encoder.write / writeX, in order, and
\* Message.dump lists the same tags and values.  It depends on the header
\* skip of Encoder.init, the cursor kept by every write, the zigzag and
\* varint codecs on both sides and the header written by finish.
RoundTrip ==
    (Completed /\ \A i \in DOMAIN hist.written : WellFormed(hist.written[i]))
    => LET r == DecoderRead(msg.buf, ReadBackFmt(hist.written))
           d == DecoderDump(msg.buf)
       IN  /\ r.b.exc = NoExc
           /\ r.out = [i \in DOMAIN hist.written |-> Expected(hist.written[i])]
           /\ d.b.exc = NoExc
           /\ d.out = [i \in DOMAIN hist.written |->
                         [tag |-> hist.written[i].tag, v |-> Expected(hist.written[i])]]
=============================================================================
