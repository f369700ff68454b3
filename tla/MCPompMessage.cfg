\* Documented use of the Message API: one Encoder.init per message, reads
\* of finished messages only.
CONSTANTS
    W32 <- MCW32
    W64 <- MCW64
    Ids <- MCIds
    TypedInputs <- MCTypedInputs
    FmtInputs <- MCFmtInputs
    ReadFmts <- MCReadFmts
    MaxCalls = 2
    MaxEncInits = 1
    EncoderMisuse = FALSE
    ReadBeforeFinish = FALSE
SPECIFICATION Spec
INVARIANT TypeOK
INVARIANT RoundTrip
