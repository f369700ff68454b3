\* pompcli -t: the timeout fires while the connection is being made.
CONSTANTS
    c1 = c1
    c2 = c2
    Conns <- MCConns
    W32 <- MCW32
    W64 <- MCW64
    MaxRx = 1
    Cmds <- ClientSendTimeout
    Dump = FALSE
    Timeout = {"client"}
    HasMsg = TRUE
    SendExc = "none"
    Interrupt = FALSE
    AppDisconnect = FALSE
    AppStop = FALSE
    Modes = {"client"}
SPECIFICATION Spec
PROPERTY Termination
\* The hang is what this run is about: TLC reports it as the violation of
\* Termination rather than as a deadlock.
CHECK_DEADLOCK FALSE
