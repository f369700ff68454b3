----------------------------- MODULE MCPompStream -----------------------------
(***************************************************************************)
(* Model values for PompStream: two messages of different sizes and ids   *)
(* (one with a multi-byte payload, one with a one-byte payload), sent up  *)
(* to twice in any mix, and the garbage of spec scenario 6 (a near-miss   *)
(* of the magic) or a lone zero byte, written once between frames.        *)
(***************************************************************************)
EXTENDS PompStream

MCW32 == 12
MCW64 == 20
MCInputs ==
    { [id |-> 7,  fmt |-> <<"%", "h", "h", "u", "%", "s">>,
       args |-> <<[t |-> "int", v |-> 255], [t |-> "str", v |-> <<72, 105>>]>>],
      [id |-> 42, fmt |-> <<"%", "h", "h", "d">>, args |-> <<[t |-> "int", v |-> -1]>>] }
\* Message.write with no format, as pompcli sends a message given no arguments.
MCEmptyInput == { [id |-> 7, fmt |-> NoneFmt, args |-> <<>>] }
MCNoise == { <<0, 80, 79, 77, 0>>, <<0>> }
=============================================================================
