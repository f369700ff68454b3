\* A server application that calls ctx.stop() from a callback.
CONSTANTS
    c1 = c1
    c2 = c2
    Conns <- MCConns
    W32 <- MCW32
    W64 <- MCW64
    MaxRx = 1
    Cmds <- ServerDump
    Dump = TRUE
    Timeout = {}
    HasMsg = FALSE
    SendExc = "none"
    Interrupt = FALSE
    AppDisconnect = FALSE
    AppStop = TRUE
    Modes = {"server"}
SPECIFICATION Spec
INVARIANT LateAddClosed
