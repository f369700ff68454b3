------------------------------ MODULE PompCodec ------------------------------
(***************************************************************************)
(* pomp/encoder.py and pomp/decoder.py: the typed value codec and the     *)
(* printf-style format interpreter, as operators over PompBuffer buffers.  *)
(*                                                                         *)
(* An argument of Encoder.write is a record [t, v] with t the Python type: *)
(* "int" (v an integer), "float" (v a model float, see Float), "str" (v    *)
(* the code points) or "bytes" (v the bytes).  Model strings and bytes    *)
(* hold letters, decimal digits, blanks and signs (and non-ASCII code      *)
(* points), so int() and float() of them parse decimal numerals only.     *)
(*                                                                         *)
(* TLC integers are 32-bit, so the 32- and 64-bit varint types are checked *)
(* at the widths W32 and W64 (the code's formulas with 32 and 64 replaced). *)
(***************************************************************************)
EXTENDS Integers, Sequences, PompBuffer, Bitwise

LOCAL Seqs == INSTANCE SequencesExt

CONSTANTS W32, W64     \* bit widths standing for the code's 32 and 64

ASSUME W32 \in 4..24 /\ W64 \in W32..28

\* pomp/protocol.py: magic bytes, data type tags, header size
POMP_MAGIC_BYTES == <<80, 79, 77, 80>>           \* 'P' 'O' 'M' 'P'
POMP_MAGIC == LE32(POMP_MAGIC_BYTES)
DATA_TYPE_I8 == 1
DATA_TYPE_U8 == 2
DATA_TYPE_I16 == 3
DATA_TYPE_U16 == 4
DATA_TYPE_I32 == 5
DATA_TYPE_U32 == 6
DATA_TYPE_I64 == 7
DATA_TYPE_U64 == 8
DATA_TYPE_STR == 9
DATA_TYPE_BUF == 10
DATA_TYPE_F32 == 11
DATA_TYPE_F64 == 12
HEADER_SIZE == 12

VarintTags == {DATA_TYPE_I32, DATA_TYPE_U32, DATA_TYPE_I64, DATA_TYPE_U64}
SignedTags == {DATA_TYPE_I8, DATA_TYPE_I16, DATA_TYPE_I32, DATA_TYPE_I64}
FloatTags  == {DATA_TYPE_F32, DATA_TYPE_F64}

\* Bit width of the value carried by an integer tag.
TagWidth(tag) ==
    CASE tag \in {DATA_TYPE_I8, DATA_TYPE_U8}   -> 8
      [] tag \in {DATA_TYPE_I16, DATA_TYPE_U16} -> 16
      [] tag \in {DATA_TYPE_I32, DATA_TYPE_U32} -> W32
      [] OTHER                                  -> W64

-----------------------------------------------------------------------------
(* Primitive conversions                                                   *)

\* Encoder._writeVarint: 7-bit groups, low first, high bit on all but the last.
RECURSIVE Varint(_)
Varint(v) == IF v < 128 THEN <<v>> ELSE <<(v % 128) + 128>> \o Varint(v \div 128)

\* writeI32/writeI64: ((val << 1) ^ (val >> (w-1))) & mask, >> arithmetic.
ZigZag(v, w) == ((2 * v) % 2^w) ^^ ((v \div 2^(w - 1)) % 2^w)

\* readI32/readI64: ((zval >> 1) ^ -(zval & 1)) & mask, then the sign.
ToSigned(u, w) == IF u <= 2^(w - 1) - 1 THEN u ELSE u - 2^w
UnZigZag(z, w) ==
    ToSigned(IF z % 2 = 0 THEN (z \div 2) % 2^w
             ELSE (2^w - 1) - ((z \div 2) % 2^w), w)

\* A Python float of the model is [k, n]: k = "exact" for the integral value
\* n (|n| < 2^8), "pi64" for the double nearest pi, "pi32" for the single
\* nearest pi (n = 3, what int() gives), "other" for any other bit pattern.
Float(k, n) == [k |-> k, n |-> n]
Log2(a) == CHOOSE e \in 0..8 : 2^e <= a /\ a < 2^(e + 1)

\* struct.pack("<f") / ("<d"): IEEE-754 layout of an integral value; both
\* pi values round to the same single.
PackF32(x) ==
    CASE x.k \in {"pi32", "pi64"} -> <<219, 15, 73, 64>>
      [] x.n = 0                  -> <<0, 0, 0, 0>>
      [] OTHER ->
         LET a == IF x.n < 0 THEN -x.n ELSE x.n
             e == Log2(a)
             m == (a - 2^e) * 2^(23 - e)
             ex == e + 127
         IN  <<m % 256, (m \div 256) % 256, (m \div 65536) + (ex % 2) * 128,
               (IF x.n < 0 THEN 128 ELSE 0) + ex \div 2>>
PackF64(x) ==
    CASE x.k = "pi32" -> <<0, 0, 0, 96, 251, 33, 9, 64>>
      [] x.k = "pi64" -> <<24, 45, 68, 84, 251, 33, 9, 64>>
      [] x.n = 0      -> <<0, 0, 0, 0, 0, 0, 0, 0>>
      [] OTHER ->
         LET a == IF x.n < 0 THEN -x.n ELSE x.n
             e == Log2(a)
             m == (a - 2^e) * 2^(20 - e)
             ex == e + 1023
         IN  <<0, 0, 0, 0, m % 256, (m \div 256) % 256,
               (m \div 65536) + (ex % 16) * 16,
               (IF x.n < 0 THEN 128 ELSE 0) + ex \div 16>>

\* struct.unpack("<f") / ("<d"): the model float with that layout.
Floats32 == {Float("pi32", 3)} \cup {Float("exact", n) : n \in -255..255}
Floats64 == Floats32 \cup {Float("pi64", 3)}
UnpackF32(s) ==
    IF \E x \in Floats32 : PackF32(x) = s
    THEN CHOOSE x \in Floats32 : PackF32(x) = s ELSE Float("other", 0)
UnpackF64(s) ==
    IF \E x \in Floats64 : PackF64(x) = s
    THEN CHOOSE x \in Floats64 : PackF64(x) = s ELSE Float("other", 0)

-----------------------------------------------------------------------------
(* Encoder (pomp/encoder.py)                                               *)

\* Faulty variant of EncodedNum: the & 0xff of the high byte of writeI16
\* and writeU16 dropped.
EncodedNumUnmasked(tag, v) ==
    CASE tag \in {DATA_TYPE_I8, DATA_TYPE_U8}   -> <<v % 256>>
      [] tag \in {DATA_TYPE_I16, DATA_TYPE_U16} -> <<v % 256, v \div 256>>
      [] tag \in {DATA_TYPE_I32, DATA_TYPE_I64} -> Varint(ZigZag(v, TagWidth(tag)))
      [] tag \in {DATA_TYPE_U32, DATA_TYPE_U64} -> Varint(v % 2^TagWidth(tag))
      [] tag = DATA_TYPE_F32                    -> PackF32(v)
      [] tag = DATA_TYPE_F64                    -> PackF64(v)

\* The payload bytes after the tag: writeI8 .. writeU64, writeF32, writeF64.
EncodedNum(tag, v) ==
    CASE tag \in {DATA_TYPE_I8, DATA_TYPE_U8}   -> <<v % 256>>
      [] tag \in {DATA_TYPE_I16, DATA_TYPE_U16} -> <<v % 256, (v \div 256) % 256>>
      [] tag \in {DATA_TYPE_I32, DATA_TYPE_I64} -> Varint(ZigZag(v, TagWidth(tag)))
      [] tag \in {DATA_TYPE_U32, DATA_TYPE_U64} -> Varint(v % 2^TagWidth(tag))
      [] tag = DATA_TYPE_F32                    -> PackF32(v)
      [] tag = DATA_TYPE_F64                    -> PackF64(v)

\* _writeType then the payload, one writeByte/_write at a time.
writeNum(b, tag, v) == write(b, <<tag>> \o EncodedNum(tag, v))

\* writeStr: the length check raises TypeError ("..." + int) instead of
\* EncodeException; tag and size are written before .encode("ascii") runs.
writeStr(b, a) ==
    IF b.exc # NoExc THEN b
    ELSE IF a.t \in {"int", "float"} THEN Raise(b, "TypeError")
    ELSE IF Len(a.v) + 1 > 65535 THEN Raise(b, "TypeError")
    ELSE LET b1 == write(b, <<DATA_TYPE_STR>> \o Varint(Len(a.v) + 1))
         IN  CASE a.t = "bytes"                        -> Raise(b1, "AttributeError")
               [] \E i \in DOMAIN a.v : a.v[i] >= 128  -> Raise(b1, "UnicodeEncodeError")
               [] OTHER                                -> write(b1, a.v \o <<0>>)

\* writeBuf: len() of a number raises; a str reaches BytesIO.write and raises.
writeBuf(b, a) ==
    IF b.exc # NoExc THEN b
    ELSE IF a.t \in {"int", "float"} THEN Raise(b, "TypeError")
    ELSE LET b1 == write(b, <<DATA_TYPE_BUF>> \o Varint(Len(a.v)))
         IN  IF a.t = "str" THEN Raise(b1, "TypeError") ELSE write(b1, a.v)

\* Length flags: 'l' sets L, a second 'l' turns L into LL, 'h' likewise;
\* any other combination leaves the flags as they are.
NextFlag(f, c) ==
    CASE c = "l" /\ f = "none" -> "l"
      [] c = "l" /\ f = "l"    -> "ll"
      [] c = "h" /\ f = "none" -> "h"
      [] c = "h" /\ f = "h"    -> "hh"
      [] OTHER                 -> f

FloatConvs == {"f", "F", "e", "E", "g", "G"}
Conversions == {"i", "d", "u", "s", "p"} \cup FloatConvs

\* The tag a conversion writes or reads under flags f.
IntTag(f, signed) ==
    CASE f = "ll" -> IF signed THEN DATA_TYPE_I64 ELSE DATA_TYPE_U64
      [] f = "hh" -> IF signed THEN DATA_TYPE_I8 ELSE DATA_TYPE_U8
      [] f = "h"  -> IF signed THEN DATA_TYPE_I16 ELSE DATA_TYPE_U16
      [] OTHER    -> IF signed THEN DATA_TYPE_I32 ELSE DATA_TYPE_U32
ConvTag(c, f) ==
    CASE c \in {"i", "d"}  -> IntTag(f, TRUE)
      [] c = "u"           -> IntTag(f, FALSE)
      [] c = "s"           -> DATA_TYPE_STR
      [] c = "p"           -> DATA_TYPE_BUF
      [] f = "l"           -> DATA_TYPE_F64
      [] OTHER             -> DATA_TYPE_F32

\* int() of a str (code points): surrounding blanks stripped, an optional
\* sign, then decimal digits; anything else raises ValueError.
SPACE == 32
DecimalDigits == 48..57
RECURSIVE LStrip(_)
LStrip(s) == IF s # <<>> /\ Head(s) = SPACE THEN LStrip(Tail(s)) ELSE s
Stripped(s) == Seqs!Reverse(LStrip(Seqs!Reverse(LStrip(s))))
Unsigned(s) ==
    LET t == Stripped(s)
    IN  IF t # <<>> /\ Head(t) \in {43, 45} THEN Tail(t) ELSE t   \* '+' '-'
IsIntStr(s) ==
    Unsigned(s) # <<>> /\ \A i \in DOMAIN Unsigned(s) : Unsigned(s)[i] \in DecimalDigits
IntOf(s) ==
    LET n == Seqs!FoldLeft(LAMBDA acc, d : 10 * acc + d - 48, 0, Unsigned(s))
    IN  IF Head(Stripped(s)) = 45 THEN -n ELSE n

\* int(val) and float(val): int() truncates, float() of an int is exact,
\* both parse a str of decimal digits.
ToInt(a) ==
    CASE a.t = "int"   -> [ok |-> TRUE, v |-> a.v]
      [] a.t = "float" -> [ok |-> TRUE, v |-> a.v.n]
      [] a.t = "str" /\ IsIntStr(a.v) -> [ok |-> TRUE, v |-> IntOf(a.v)]
      [] OTHER         -> [ok |-> FALSE, v |-> 0]
ToFloat(a) ==
    CASE a.t = "int"   -> [ok |-> TRUE, v |-> Float("exact", a.v)]
      [] a.t = "float" -> [ok |-> TRUE, v |-> a.v]
      [] a.t = "str" /\ IsIntStr(a.v) -> [ok |-> TRUE, v |-> Float("exact", IntOf(a.v))]
      [] OTHER         -> [ok |-> FALSE, v |-> Float("other", 0)]

\* One conversion of Encoder.write with argument a.
EncodeConv(b, c, f, a) ==
    CASE c = "s"             -> writeStr(b, a)
      [] c = "p"             -> writeBuf(b, a)
      [] c \in FloatConvs    ->
            IF ~ToFloat(a).ok \/ f \in {"ll", "h", "hh"}
            THEN Raise(b, "EncodeException")
            ELSE writeNum(b, ConvTag(c, f), ToFloat(a).v)
      [] OTHER               ->
            IF ~ToInt(a).ok THEN Raise(b, "EncodeException")
            ELSE writeNum(b, ConvTag(c, f), ToInt(a).v)

\* The loop of Encoder.write over the format characters.  st is [b, log]:
\* log lists [tag, arg] for each conversion that returned normally.
RECURSIVE EncodeFmt(_, _, _, _, _)
EncodeFmt(st, fmt, args, f, waitpercent) ==
    IF fmt = <<>> \/ st.b.exc # NoExc THEN st
    ELSE LET c == Head(fmt)
             fail(e) == [st EXCEPT !.b = Raise(@, e)]
         IN
         CASE waitpercent /\ c # "%" -> fail("EncodeException")
           [] waitpercent            -> EncodeFmt(st, Tail(fmt), args, "none", FALSE)
           [] c \in {"l", "h"}       -> EncodeFmt(st, Tail(fmt), args, NextFlag(f, c), FALSE)
           [] c \notin Conversions   -> fail("EncodeException")
           [] args = <<>>            -> fail("StopIteration")
           [] OTHER ->
              LET b1 == EncodeConv(st.b, c, f, Head(args))
                  e  == [tag |-> ConvTag(c, f), arg |-> Head(args)]
              IN  EncodeFmt([b |-> b1,
                             log |-> IF b1.exc = NoExc THEN Append(st.log, e)
                                     ELSE st.log],
                            Tail(fmt), Tail(args), f, TRUE)

\* Python's None given as the format.
NoneFmt == <<"None">>

\* Encoder.write(fmt, *args); a fmt of None returns at once.
EncoderWrite(b, fmt, args) ==
    IF fmt = NoneFmt THEN [b |-> b, log |-> <<>>]
    ELSE EncodeFmt([b |-> b, log |-> <<>>], fmt, args, "none", TRUE)

-----------------------------------------------------------------------------
(* Decoder (pomp/decoder.py).  A reader returns [b, v].                    *)

\* n successive readByte calls (or one _read(n) and struct.unpack): the
\* cursor passes what is there and struct.error is raised on a short read.
ReadN(b, n) ==
    IF b.exc # NoExc THEN b
    ELSE IF Len(ReadBytes(b, n)) < n THEN Raise(read(b, n), "struct.error")
    ELSE read(b, n)

\* _readType: the tag byte must be the expected one.
readType(b, tag) ==
    LET b1 == ReadN(b, 1)
    IN  IF b1.exc = NoExc /\ ReadBytes(b, 1)[1] # tag
        THEN Raise(b1, "DecodeException") ELSE b1

\* _readVarint: accumulate 7-bit groups while the high bit is set.
RECURSIVE ReadVarintFrom(_, _, _)
ReadVarintFrom(b, shift, acc) ==
    LET b1 == ReadN(b, 1)
    IN  IF b1.exc # NoExc THEN [b |-> b1, v |-> acc]
        ELSE LET x == ReadBytes(b, 1)[1]
                 acc1 == acc + (x % 128) * 2^shift
             IN  IF x >= 128 THEN ReadVarintFrom(b1, shift + 7, acc1)
                 ELSE [b |-> b1, v |-> acc1]
readVarint(b) == ReadVarintFrom(b, 0, 0)

\* readI8 .. readU64, readF32, readF64 after the tag.
FixedSize(tag) ==
    CASE tag \in {DATA_TYPE_I8, DATA_TYPE_U8}   -> 1
      [] tag \in {DATA_TYPE_I16, DATA_TYPE_U16} -> 2
      [] tag = DATA_TYPE_F32                    -> 4
      [] OTHER                                  -> 8
\* Faulty variant of FixedValue: readI8 without the sign correction.
FixedValueUnsigned(tag, s) ==
    CASE tag \in {DATA_TYPE_I8, DATA_TYPE_U8} -> s[1]
      [] tag = DATA_TYPE_I16 -> ToSigned(s[1] + 256 * s[2], 16)
      [] tag = DATA_TYPE_U16 -> s[1] + 256 * s[2]
      [] tag = DATA_TYPE_F32 -> UnpackF32(s)
      [] OTHER               -> UnpackF64(s)
FixedValue(tag, s) ==
    CASE tag = DATA_TYPE_I8  -> ToSigned(s[1], 8)
      [] tag = DATA_TYPE_U8  -> s[1]
      [] tag = DATA_TYPE_I16 -> ToSigned(s[1] + 256 * s[2], 16)
      [] tag = DATA_TYPE_U16 -> s[1] + 256 * s[2]
      [] tag = DATA_TYPE_F32 -> UnpackF32(s)
      [] OTHER               -> UnpackF64(s)
readNum(b, tag) ==
    LET b1 == readType(b, tag)
    IN  CASE b1.exc # NoExc -> [b |-> b1, v |-> 0]
          [] tag \in VarintTags ->
               LET r == readVarint(b1)
               IN  [b |-> r.b,
                    v |-> IF tag \in SignedTags
                          THEN UnZigZag(r.v, TagWidth(tag))
                          ELSE r.v % 2^TagWidth(tag)]
          [] OTHER ->
               LET b2 == ReadN(b1, FixedSize(tag))
               IN  [b |-> b2,
                    v |-> IF b2.exc = NoExc
                          THEN FixedValue(tag, ReadBytes(b1, FixedSize(tag)))
                          ELSE 0]

\* readStr: length in 1..0xffff, NUL terminated, ASCII.
readStr(b) ==
    LET r    == readVarint(readType(b, DATA_TYPE_STR))
        slen == r.v
        sval == ReadBytes(r.b, slen - 1)
        b1   == read(r.b, slen - 1)
        b2   == ReadN(b1, 1)
    IN  [b |-> CASE r.b.exc # NoExc                   -> r.b
                 [] slen <= 0 \/ slen > 65535          -> Raise(r.b, "DecodeException")
                 [] b2.exc # NoExc                     -> b2
                 [] ReadBytes(b1, 1)[1] # 0            -> Raise(b2, "DecodeException")
                 [] \E i \in DOMAIN sval : sval[i] >= 128 -> Raise(b2, "UnicodeDecodeError")
                 [] OTHER                              -> b2,
         v |-> [t |-> "str", v |-> sval]]

\* readBuf: the declared length is not checked against what is left.
readBuf(b) ==
    LET r == readVarint(readType(b, DATA_TYPE_BUF))
    IN  [b |-> read(r.b, r.v), v |-> [t |-> "bytes", v |-> ReadBytes(r.b, r.v)]]

ReadTag(b, tag) ==
    CASE tag = DATA_TYPE_STR -> readStr(b)
      [] tag = DATA_TYPE_BUF -> readBuf(b)
      [] OTHER               -> readNum(b, tag)

\* The loop of Decoder.read over the format characters; st is [b, out].
RECURSIVE DecodeFmt(_, _, _, _)
DecodeFmt(st, fmt, f, waitpercent) ==
    IF fmt = <<>> \/ st.b.exc # NoExc THEN st
    ELSE LET c == Head(fmt)
             fail(e) == [st EXCEPT !.b = Raise(@, e)]
         IN
         CASE waitpercent /\ c # "%" -> fail("DecodeException")
           [] waitpercent            -> DecodeFmt(st, Tail(fmt), "none", FALSE)
           [] c \in {"l", "h"}       -> DecodeFmt(st, Tail(fmt), NextFlag(f, c), FALSE)
           [] c \notin Conversions   -> fail("DecodeException")
           [] c \in FloatConvs /\ f \in {"ll", "h", "hh"} -> fail("DecodeException")
           [] OTHER ->
              LET r == ReadTag(st.b, ConvTag(c, f))
              IN  DecodeFmt([b |-> r.b,
                             out |-> IF r.b.exc = NoExc THEN Append(st.out, r.v)
                                     ELSE st.out],
                            Tail(fmt), f, TRUE)

\* Decoder.init then Decoder.read(fmt): the cursor is set past the header.
DecoderRead(b, fmt) ==
    IF fmt = NoneFmt THEN [b |-> setPos(b, HEADER_SIZE), out |-> <<>>]
    ELSE DecodeFmt([b |-> setPos(b, HEADER_SIZE), out |-> <<>>], fmt, "none", TRUE)

\* The loop of Decoder.dump: peek at each tag and read the value it names;
\* out lists [tag, v].  The text rendering is left out.
RECURSIVE DumpFrom(_)
DumpFrom(st) ==
    IF st.b.exc # NoExc \/ st.b.pos >= BufLen(st.b) THEN st
    ELSE LET tag == ReadBytes(st.b, 1)[1]
         IN  IF tag \notin 1..12
             THEN [st EXCEPT !.b = Raise(@, "DecodeException")]
             ELSE LET r == ReadTag(st.b, tag)
                  IN  DumpFrom([b |-> r.b,
                                out |-> IF r.b.exc = NoExc
                                        THEN Append(st.out, [tag |-> tag, v |-> r.v])
                                        ELSE st.out])
DecoderDump(b) == DumpFrom([b |-> setPos(b, HEADER_SIZE), out |-> <<>>])


-----------------------------------------------------------------------------
(* message.py: finish and write, as pure operators shared by the Message  *)
(* model and the framer and stream models.                                *)

\* Message.finish on buffer b: pad to the header, rewind, write magic, id
\* and the buffer length, then latch.
Finished(b, id) ==
    LET b1 == IF b.pos < HEADER_SIZE THEN skip(b, HEADER_SIZE - b.pos) ELSE b
        b2 == IF b1.exc = NoExc THEN rewind(b1) ELSE b1
        b3 == writeInt(writeInt(b2, POMP_MAGIC), id)
        b4 == writeInt(b3, BufLen(b3))
    IN  IF b4.exc = NoExc THEN setReadOnly(b4, TRUE) ELSE b4

\* Message.write(msgid, fmt, *args) on a fresh message: init, Encoder.init
\* (a skip of the header), Encoder.write, finish.  [b, log] as EncoderWrite.
MessageWrite(id, fmt, args) ==
    LET r == EncoderWrite(skip(NewBuffer, HEADER_SIZE), fmt, args)
    IN  [r EXCEPT !.b = IF r.b.exc = NoExc THEN Finished(r.b, id) ELSE r.b]
=============================================================================
