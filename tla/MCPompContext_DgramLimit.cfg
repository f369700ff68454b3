\* pompcli -u -d: a datagram context bound to its address, nothing sent.
CONSTANTS
    c1 = c1
    c2 = c2
    Conns <- MCConns
    W32 <- MCW32
    W64 <- MCW64
    MaxRx = 0
    Cmds <- DgramDump
    Dump = TRUE
    Timeout = {}
    HasMsg = FALSE
    SendExc = "none"
    Interrupt = FALSE
    AppDisconnect = FALSE
    AppStop = FALSE
    Modes = {"dgram"}
SPECIFICATION Spec
INVARIANT ConnectionLimit
