---------------------------- MODULE MCPompMessage ----------------------------
(***************************************************************************)
(* Model values for PompMessage.  The inputs reach every tag, the edges of *)
(* each width, multi-byte varints, the float rounding case and the error   *)
(* paths of writeStr, writeBuf and Encoder.write (a non-ASCII str, a str   *)
(* where bytes are wanted, a str where an int is wanted, a missing         *)
(* argument), an int just past the I32 width (2^(W32-1)) and a format     *)
(* ending in '%'.                                                          *)
(***************************************************************************)
EXTENDS PompMessage

I(n) == [t |-> "int", v |-> n]
S(s) == [t |-> "str", v |-> s]
B(s) == [t |-> "bytes", v |-> s]
F(k, n) == [t |-> "float", v |-> Float(k, n)]
Hi == <<72, 105>>

MCW32 == 12
MCW64 == 20
MCIds == {7}
MCTypedInputs ==
    { [tag |-> DATA_TYPE_I8,  arg |-> I(-128)],
      [tag |-> DATA_TYPE_U16, arg |-> I(65535)],
      [tag |-> DATA_TYPE_I32, arg |-> I(-2048)],
      [tag |-> DATA_TYPE_U32, arg |-> I(4095)],
      [tag |-> DATA_TYPE_F32, arg |-> F("pi32", 3)],
      [tag |-> DATA_TYPE_F64, arg |-> F("pi64", 3)],
      [tag |-> DATA_TYPE_STR, arg |-> S(<<200>>)],
      [tag |-> DATA_TYPE_BUF, arg |-> S(Hi)],
      [tag |-> DATA_TYPE_BUF, arg |-> B(<<>>)] }
MCFmtInputs ==
    { [fmt |-> <<"%", "h", "h", "u", "%", "s">>, args |-> <<I(255), S(Hi)>>],
      [fmt |-> <<"%", "l", "l", "d", "%", "f">>, args |-> <<I(-524288), I(-3)>>],
      [fmt |-> <<"%", "h", "d", "%", "l", "u">>, args |-> <<I(-1), I(128)>>],
      [fmt |-> <<"%", "d">>,                     args |-> <<S(Hi)>>],
      [fmt |-> <<"%", "d">>,                     args |-> <<I(2048)>>],
      [fmt |-> <<"%", "h", "h", "u", "%">>,      args |-> <<I(1)>>],
      [fmt |-> <<"%", "p", "%", "p">>,           args |-> <<B(Hi)>>],
      [fmt |-> NoneFmt,                          args |-> <<>>] }
MCReadFmts == { <<"%", "h", "h", "d">>, <<"%", "p">> }
=============================================================================
