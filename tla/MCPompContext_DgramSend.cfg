\* pompcli -u inet:h:7 42 %d 5: a datagram context asked to send one message.
CONSTANTS
    c1 = c1
    c2 = c2
    Conns <- MCConns
    W32 <- MCW32
    W64 <- MCW64
    MaxRx = 0
    Cmds <- DgramSend
    Dump = FALSE
    Timeout = {}
    HasMsg = TRUE
    SendExc = "none"
    Interrupt = FALSE
    AppDisconnect = FALSE
    AppStop = FALSE
    Modes = {"dgram"}
SPECIFICATION Spec
PROPERTY Termination
CHECK_DEADLOCK FALSE
