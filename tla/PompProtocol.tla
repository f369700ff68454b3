---------------------------- MODULE PompProtocol ----------------------------
(***************************************************************************)
(* pomp/protocol.py: the Protocol framer that rebuilds messages from the   *)
(* chunks a socket returns.  The framer is a record                        *)
(*   state  : the _STATE_ constant, IDLE = 0, MAGIC_0..3 = 1..4,           *)
(*            HEADER = 5, PAYLOAD = 6, as in the code,                     *)
(*   hdr    : the bytes of headerBuf,                                      *)
(*   msgid, size : the fields of the decoded Header,                       *)
(*   body   : the bytes of the in-progress msg.buf (header included).      *)
(* Every buffer the framer writes is fresh or written at its end, so a    *)
(* byte sequence stands for it.  A delivered message is [msgid, data].    *)
(* One call of decode is one operator application; the reader thread's    *)
(* loop over a received chunk (connection.py) is ReadChunk.               *)
(***************************************************************************)
EXTENDS PompCodec
LOCAL INSTANCE FiniteSetsExt

STATE_IDLE == 0
STATE_HEADER_MAGIC_0 == 1
STATE_HEADER_MAGIC_3 == 4
STATE_HEADER == 5
STATE_PAYLOAD == 6

\* rxMsg = None
NoMsg == [none |-> TRUE]

\* Protocol._reset: header buffer, header and message dropped.
ResetFramer == [state |-> STATE_IDLE, hdr |-> <<>>, msgid |-> 0, size |-> 0, body |-> <<>>]

\* Protocol._checkMagic(idx, ...): compare the idx-th header byte; on a
\* mismatch go back to MAGIC_0 (the byte stays consumed), else advance.
CheckMagic(p, idx) ==
    [p EXCEPT !.state = IF p.hdr[idx + 1] # POMP_MAGIC_BYTES[idx + 1]
                        THEN STATE_HEADER_MAGIC_0 ELSE STATE_HEADER_MAGIC_0 + idx + 1]

\* Protocol._decodeHeader on a full header buffer: a size below the header
\* size sends the framer back to MAGIC_0; otherwise _allocMsg and the
\* header bytes seed the message buffer.
DecodeHeader(p) ==
    LET q == [p EXCEPT !.msgid = LE32(SubSeq(p.hdr, 5, 8)),
                       !.size = LE32(SubSeq(p.hdr, 9, 12))]
    IN  IF q.size < HEADER_SIZE THEN [q EXCEPT !.state = STATE_HEADER_MAGIC_0]
        ELSE [q EXCEPT !.body = q.hdr, !.state = STATE_PAYLOAD]

\* Faulty variant of CopyLen: _copy one byte past the header.
CopyLenOverrun(p, lenSrc) ==
    CASE p.state \in STATE_HEADER_MAGIC_0..STATE_HEADER_MAGIC_3 -> 1
      [] p.state = STATE_HEADER -> Min({lenSrc, HEADER_SIZE - Len(p.hdr) + 1})
      [] p.state = STATE_PAYLOAD -> Min({lenSrc, p.size - Len(p.body)})

\* Bytes one iteration of the decode loop takes from the lenSrc available:
\* _copyOne in the magic states, _copy up to the header or message size.
CopyLen(p, lenSrc) ==
    CASE p.state \in STATE_HEADER_MAGIC_0..STATE_HEADER_MAGIC_3 -> 1
      [] p.state = STATE_HEADER -> Min({lenSrc, HEADER_SIZE - Len(p.hdr)})
      [] p.state = STATE_PAYLOAD -> Min({lenSrc, p.size - Len(p.body)})

\* One iteration of the while loop of Protocol.decode on src from offset
\* off, with the end-of-payload check that closes it.  [p, off, msg].
Iter(p, src, off) ==
    LET n == CopyLen(p, Len(src) - off)
        cp == SubSeq(src, off + 1, off + n)
        q == CASE p.state = STATE_HEADER_MAGIC_0 ->
                    CheckMagic([ResetFramer EXCEPT !.hdr = cp], 0)
               [] p.state \in STATE_HEADER_MAGIC_0 + 1..STATE_HEADER_MAGIC_3 ->
                    CheckMagic([p EXCEPT !.hdr = @ \o cp], p.state - STATE_HEADER_MAGIC_0)
               [] p.state = STATE_HEADER ->
                    IF Len(p.hdr) + n = HEADER_SIZE
                    THEN DecodeHeader([p EXCEPT !.hdr = @ \o cp])
                    ELSE [p EXCEPT !.hdr = @ \o cp]
               [] p.state = STATE_PAYLOAD -> [p EXCEPT !.body = @ \o cp]
        done == q.state = STATE_PAYLOAD /\ Len(q.body) = q.size
    IN  [p |-> IF done THEN [q EXCEPT !.state = STATE_IDLE, !.body = <<>>] ELSE q,
         off |-> off + n,
         msg |-> IF done THEN [msgid |-> q.msgid, data |-> q.body] ELSE NoMsg]

\* The loop of Protocol.decode: it stops at the end of the source or once
\* a message is out (state IDLE), so at most one message per call.
RECURSIVE DecodeLoop(_, _, _, _)
DecodeLoop(p, src, off, rx) ==
    IF off >= Len(src) \/ p.state = STATE_IDLE THEN [p |-> p, off |-> off, msg |-> rx]
    ELSE LET r == Iter(p, src, off)
         IN  DecodeLoop(r.p, src, r.off, r.msg)

\* Protocol.decode(buf, off): an idle framer starts at MAGIC_0.
Decode(p, src, off) ==
    DecodeLoop(IF p.state = STATE_IDLE THEN [p EXCEPT !.state = STATE_HEADER_MAGIC_0]
               ELSE p, src, off, NoMsg)

\* Faulty variant of ReadChunk: the loop stops one byte short of the chunk.
RECURSIVE ReadChunkShort(_, _, _, _)
ReadChunkShort(p, buf, off, out) ==
    IF off >= Len(buf) - 1 THEN [p |-> p, out |-> out]
    ELSE LET r == Decode(p, buf, off)
         IN  ReadChunkShort(r.p, buf, r.off, IF r.msg = NoMsg THEN out ELSE Append(out, r.msg))

\* Connection._reader on one received chunk: decode from the offset the
\* last call returned until the chunk is used up, notifying each message
\* (out lists them in order).  [p, out].
RECURSIVE ReadChunk(_, _, _, _)
ReadChunk(p, buf, off, out) ==
    IF off >= Len(buf) THEN [p |-> p, out |-> out]
    ELSE LET r == Decode(p, buf, off)
         IN  ReadChunk(r.p, buf, r.off, IF r.msg = NoMsg THEN out ELSE Append(out, r.msg))
=============================================================================
