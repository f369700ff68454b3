\* pompcli inet:h:7 42: a message id with neither format nor arguments.
CONSTANTS
    c1 = c1
    c2 = c2
    Conns <- MCConns
    W32 <- MCW32
    W64 <- MCW64
    MaxRx = 1
    Cmds <- ClientIdOnly
    Dump = FALSE
    Timeout = {}
    HasMsg = TRUE
    SendExc = "TypeError"
    Interrupt = FALSE
    AppDisconnect = FALSE
    AppStop = FALSE
    Modes = {"client"}
SPECIFICATION Spec
INVARIANT MessagePosted
