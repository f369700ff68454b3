\* pompcli -s -d (two peers connect and close) and pompcli -u -d -t 1 (a
\* datagram context bound to its address, left when the timer fires);
\* Ctrl-C ends either, or an application callback disconnects a
\* connection or stops the context.
CONSTANTS
    c1 = c1
    c2 = c2
    Conns <- MCConns
    W32 <- MCW32
    W64 <- MCW64
    MaxRx = 0
    Cmds <- ServerAndDgram
    Dump = TRUE
    Timeout = {"dgram"}
    HasMsg = TRUE
    SendExc = "none"
    Interrupt = TRUE
    AppDisconnect = TRUE
    AppStop = TRUE
    Modes = {"server", "dgram"}
SPECIFICATION Spec
INVARIANT DisconnectOnce
INVARIANT ThreadsJoinedAtStop
INVARIANT SemaphoreAccounting
PROPERTY StopReturns
\* A datagram context whose loop ends with a _CONN_ADD queued hangs in
\* Context.stop like a client (run context_client_timeout); this run checks
\* its invariants in every state, the hung ones included.
CHECK_DEADLOCK FALSE
