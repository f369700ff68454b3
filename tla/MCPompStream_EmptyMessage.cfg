\* A message written with no format (pompcli with no arguments) followed by
\* another: spec scenario 1 says its header carries size 12 and the peer
\* receives both.
CONSTANTS
    W32 <- MCW32
    W64 <- MCW64
    Inputs <- MCEmptyInput
    Noise <- MCNoise
    MaxSends = 2
    MaxNoise = 0
SPECIFICATION Spec
PROPERTY ChannelSpec
CHECK_DEADLOCK FALSE
