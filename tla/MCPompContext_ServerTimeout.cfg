\* pompcli -s -d -t 1: two peers connect and then both disconnect.
CONSTANTS
    c1 = c1
    c2 = c2
    Conns <- MCConns
    W32 <- MCW32
    W64 <- MCW64
    MaxRx = 1
    Cmds <- ServerDumpTimeout
    Dump = TRUE
    Timeout = {"server"}
    HasMsg = FALSE
    SendExc = "none"
    Interrupt = FALSE
    AppDisconnect = FALSE
    AppStop = FALSE
    Modes = {"server"}
SPECIFICATION Spec
INVARIANT SetupTimeoutAssert
