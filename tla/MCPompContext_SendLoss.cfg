\* pompcli client sending one message: is it written before stop returns?
CONSTANTS
    c1 = c1
    c2 = c2
    Conns <- MCConns
    W32 <- MCW32
    W64 <- MCW64
    MaxRx = 1
    Cmds <- ClientSend
    Dump = FALSE
    Timeout = {}
    HasMsg = TRUE
    SendExc = "none"
    Interrupt = FALSE
    AppDisconnect = FALSE
    AppStop = FALSE
    Modes = {"client"}
SPECIFICATION Spec
INVARIANT SentReachesPeer
