\* pompcli client sending one message: connect, send, stop.
CONSTANTS
    c1 = c1
    c2 = c2
    Conns <- MCConns
    W32 <- MCW32
    W64 <- MCW64
    MaxRx = 1
    Cmds <- ClientSend
    Dump = FALSE
    Timeout = {}
    HasMsg = TRUE
    SendExc = "none"
    Interrupt = FALSE
    AppDisconnect = FALSE
    AppStop = FALSE
    Modes = {"client"}
SPECIFICATION Spec
INVARIANT TypeOK
INVARIANT SemaphoreAccounting
PROPERTY Termination
\* The process ends in state mpc = "done" (the Terminated step); any other
\* state with no step is a hang, which Termination reports with its trace.
CHECK_DEADLOCK FALSE
