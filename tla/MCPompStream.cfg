\* Reliable FIFO delivery over one stream connection, for any recv chunk
\* sizes and with resynchronising garbage between frames.  The connection
\* idles once everything is delivered, which is not a deadlock.
CONSTANTS
    W32 <- MCW32
    W64 <- MCW64
    Inputs <- MCInputs
    Noise <- MCNoise
    MaxSends = 2
    MaxNoise = 1
SPECIFICATION Spec
INVARIANT TypeOK
PROPERTY ChannelSpec
CHECK_DEADLOCK FALSE
