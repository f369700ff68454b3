----------------------------- MODULE PompBuffer -----------------------------
(***************************************************************************)
(* pomp/buffer.py: a byte container over io.BytesIO with a cursor and a   *)
(* read-only latch.  A buffer is a record                                   *)
(*   data     : the bytes (naturals 0..255),                                *)
(*   pos      : the BytesIO cursor, which may lie past the end,             *)
(*   readonly : the latch,                                                  *)
(*   exc      : "none", or the Python exception raised by the first failing *)
(*              call; once set, every later call of the same Python call    *)
(*              chain is skipped, as the exception unwinds it.              *)
(* BytesIO semantics kept: seeking past the end does not grow the buffer,  *)
(* a write past the end pads the gap with zero bytes, a read past the end  *)
(* returns fewer bytes.                                                     *)
(***************************************************************************)
EXTENDS Naturals, Sequences

NoExc == "none"

\* Buffer.__init__
NewBuffer == [data |-> <<>>, pos |-> 0, readonly |-> FALSE, exc |-> NoExc]

\* Buffer.__len__: the BytesIO end, not the cursor.
BufLen(b) == Len(b.data)

\* Raise exception e, unless an earlier one is already unwinding.
Raise(b, e) == IF b.exc = NoExc THEN [b EXCEPT !.exc = e] ELSE b

setReadOnly(b, r) == [b EXCEPT !.readonly = r]

setPos(b, p) == [b EXCEPT !.pos = p]

rewind(b) == setPos(b, 0)

\* Buffer.skip: assert not readonly; seek relative to the cursor.
skip(b, n) ==
    IF b.exc # NoExc THEN b
    ELSE IF b.readonly THEN Raise(b, "AssertionError")
    ELSE [b EXCEPT !.pos = @ + n]

\* BytesIO.write of s at the cursor: bytes between the end and the cursor
\* become zeros, s overwrites from the cursor on, the cursor moves past s.
WriteAt(d, p, s) ==
    LET n == IF Len(d) > p + Len(s) THEN Len(d) ELSE p + Len(s)
    IN  [i \in 1..n |-> IF p < i /\ i <= p + Len(s) THEN s[i - p]
                        ELSE IF i <= Len(d) THEN d[i] ELSE 0]

\* Buffer.write / writeByte: assert not readonly, then write.
write(b, s) ==
    IF b.exc # NoExc THEN b
    ELSE IF b.readonly THEN Raise(b, "AssertionError")
    ELSE [b EXCEPT !.data = WriteAt(@, b.pos, s), !.pos = @ + Len(s)]

writeByte(b, v) == write(b, <<v>>)

\* struct.pack("<I", v): four little-endian bytes.
LE32Bytes(v) == <<v % 256, (v \div 256) % 256,
                  (v \div 65536) % 256, (v \div 16777216) % 256>>

\* Buffer.writeInt; struct.pack raises struct.error outside 0..2^32-1.
writeInt(b, v) ==
    IF b.exc = NoExc /\ v < 0 THEN Raise(b, "struct.error")
    ELSE write(b, LE32Bytes(v))

\* Buffer.read(count): what lies between the cursor and the end, at most count.
ReadBytes(b, count) ==
    IF b.pos >= Len(b.data) THEN <<>>
    ELSE SubSeq(b.data, b.pos + 1,
                IF b.pos + count < Len(b.data) THEN b.pos + count ELSE Len(b.data))

read(b, count) == [b EXCEPT !.pos = @ + Len(ReadBytes(b, count))]

\* struct.unpack("<I", s) of four little-endian bytes.
LE32(s) == s[1] + 256 * s[2] + 65536 * s[3] + 16777216 * s[4]

\* Buffer.readByte / readInt: struct.unpack raises struct.error on a short read.
readByteVal(b) == ReadBytes(b, 1)[1]

readByte(b) ==
    IF b.exc # NoExc THEN b
    ELSE IF Len(ReadBytes(b, 1)) < 1 THEN Raise(b, "struct.error")
    ELSE read(b, 1)

readIntVal(b) == LE32(ReadBytes(b, 4))

readInt(b) ==
    IF b.exc # NoExc THEN b
    ELSE IF Len(ReadBytes(b, 4)) < 4 THEN Raise(b, "struct.error")
    ELSE read(b, 4)
=============================================================================
