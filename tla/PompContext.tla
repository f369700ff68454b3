---------------------------- MODULE PompContext ----------------------------
(***************************************************************************)
(* pomp/context.py (Context.connect, Context.listen and Context.bind),    *)
(* with the threads it runs and the application that drives it, pompcli's *)
(* App:                                                                    *)
(*   - the main thread: pompcli.App.run's looper, which takes the requests *)
(*     posted to the Context's mainHandler and the timer's, then stop;     *)
(*   - the socket thread: Context._runClient, _runServer or _runDgram;   *)
(*   - per Connection, its reader thread (_reader) and writer thread       *)
(*     (_writer's looper calling _onWriteRequest);                         *)
(*   - the peer at the other end of each connection, and the user.        *)
(* A thread's position in its code is a "pc" value; a blocking call        *)
(* (semaphore.acquire, Thread.join) is a guard.  Messages are abstract:    *)
(* the codec and the framer are PompMessage's and PompStream's subject.    *)
(***************************************************************************)
EXTENDS Naturals, Sequences, FiniteSets

CONSTANTS
    Conns,          \* the Connection objects _runClient may create, one per connect
    MaxRx,          \* messages each peer sends
    Dump,           \* pompcli -d: stay connected and dump what arrives
    Timeout,        \* the starts whose command line has -t (self.timeout >= 0)
    HasMsg,         \* a message was given on pompcli's command line
    SendExc,        \* what ctx.send of that message raises, "none" if nothing
    Interrupt,      \* the user may press Ctrl-C while the main loop runs
    AppDisconnect,  \* an application callback may call conn.disconnect()
    AppStop,        \* an application callback may call ctx.stop()
    Modes           \* how App.run starts the Context: "client" (Context.connect),
                    \* "server" (Context.listen), "dgram" (Context.bind)

VARIABLES
    mode,       \* the Context's start: connect, listen or bind (never changes)
    running,    \* Context.running
    conns,      \* Context.connections, in order
    sem,        \* the value of Context.semaphore
    ctxSock,    \* Context.sock: "none", "open" or "shut"
    spc,        \* where the socket thread is in _runClient, _runServer, _runDgram
    mainq,      \* the main thread looper's queue of requests
    looping,    \* the main looper's _running flag
    mpc,        \* where the main thread is: looper, stop, close, join
    closing,    \* the connection _doConnRemove is closing and whom it returns to
    timer,      \* App.timer: "none", "armed", or "fired" (still not None)
    hasmsg,     \* App.hasmsg
    cn,         \* per Connection: threads, writer queue, socket, peer, counts
    ev,         \* per Connection: the EventHandler calls made for it, in order
    exc         \* the exception a main-thread callback raised, or "none"
                \* (for an AttributeError, the attribute found missing)

vars == <<mode, running, conns, sem, ctxSock, spc, mainq, looping, mpc, closing,
          timer, hasmsg, cn, ev, exc>>

\* Context.listen: _start(16, self._runServer); Context.connect:
\* _start(1, self._runClient); Context.bind: _start(1, self._runDgram).
MAX_CONN == IF mode = "server" THEN 16 ELSE 1

NoConn == "none"

\* A Connection object's state.  st: "unused" (not created), "created" by
\* the socket thread; rd/wr: its reader and writer threads "none" (not
\* started), "run" or "done"; wq: the writer looper's queue; sock: "open",
\* "shut" (shutdown) or "closed"; crun: Connection.running; peer: messages
\* its peer has still to send, peerClosed: the peer closed its end;
\* posted/written: messages posted to the writer and written by sendall.
Unused == [st |-> "unused", rd |-> "none", wr |-> "none", wq |-> <<>>,
           sock |-> "none", crun |-> FALSE, peer |-> MaxRx, peerClosed |-> FALSE,
           posted |-> 0, written |-> 0]

\* A request on the main thread's queue: _CONN_ADD, _CONN_REMOVE, _CONN_MSG
\* (Context.mainHandler) or the timer's (App.timerHandler).
Req(w, c) == [what |-> w, conn |-> c]

\* Handler.post: _Loop.post puts (handler, req) on the loop's queue.
Post(q, r) == Append(q, r)

\* looper.exitLoop: the loop's _running = False; run() returns once the
\* callback that called it has.
ExitLoop == looping' = FALSE

IsListed(c) == \E i \in 1..Len(conns) : conns[i] = c

-----------------------------------------------------------------------------
(* pompcli's App: the EventHandler and the timer                           *)

\* App.setupTimeout, as called when self.timeout >= 0.
SetupTimeout(t) == IF mode \in Timeout THEN "armed" ELSE t

\* App.cancelTimeout: cancel does not take back a request already posted.
CancelTimeout == "none"

\* Connection.sendMsg of a stream connection: post _WRITE_MSG.
SendMsg(x) == [x EXCEPT !.wq = Append(@, "MSG"), !.posted = @ + 1]

\* Context.send: Message.write, then sendMsg on every connection.
CtxSend(f, cs) == [c \in DOMAIN f |-> IF \E i \in 1..Len(cs) : cs[i] = c
                                      THEN SendMsg(f[c]) ELSE f[c]]

\* Connection.start: both threads running, the writer's handler set.
ConnStart(x) == [x EXCEPT !.rd = "run", !.wr = "run", !.crun = TRUE]

\* Connection.close up to the joins: under cond, running = False, post
\* _WRITE_STOP, shutdown the socket.
CloseBegin(x) == [x EXCEPT !.crun = FALSE, !.wq = Append(@, "STOP"), !.sock = "shut"]

\* App.onConnected(c), the connections being cs and the Connection objects
\* f: send the command-line message once, leave the loop unless dumping,
\* cancel the timeout.  A send that raises posts nothing.  The handler of
\* EncodeException logs ex.message, which Python 3 exceptions lack: the
\* AttributeError leaves the main thread with the message still pending.
OnConnected(c, cs, f) ==
    /\ ev' = [ev EXCEPT ![c] = Append(@, "connected")]
    /\ IF hasmsg /\ SendExc = "EncodeException"
       THEN /\ cn' = f
            /\ exc' = "AttributeError:message" /\ mpc' = "raised"
            /\ UNCHANGED <<hasmsg, looping, timer>>
       ELSE /\ cn' = IF hasmsg /\ SendExc = "none" THEN CtxSend(f, cs) ELSE f
            /\ hasmsg' = FALSE
            /\ looping' = (looping /\ Dump)
            /\ timer' = CancelTimeout
            /\ UNCHANGED <<mpc, exc>>

\* setupTimeout's "assert self.timer is None" fails.
TimerAssertFails == mode \in Timeout /\ timer # "none"

\* App.onDisconnected(c): set the timeout up again, unless the assert
\* raises AssertionError.
OnDisconnected(c) ==
    /\ ev' = [ev EXCEPT ![c] = Append(@, "disconnected")]
    /\ IF TimerAssertFails THEN exc' = "AssertionError" /\ UNCHANGED timer
                           ELSE timer' = SetupTimeout(timer) /\ UNCHANGED exc

-----------------------------------------------------------------------------
(* Main thread                                                             *)

\* Context._start: the semaphore, the main handler, running = True, the
\* socket thread started.
ContextStarted ==
    /\ running = TRUE /\ conns = <<>> /\ sem = MAX_CONN
    /\ ctxSock = "none" /\ spc = IF mode = "client" THEN "start" ELSE "check"

\* App.run up to runLoop: the main thread's loop, the timeout armed if
\* one is set, then Context.listen or Context.connect.
Init ==
    /\ mode \in Modes
    /\ ContextStarted
    /\ mainq = <<>> /\ looping = TRUE /\ mpc = "loop" /\ exc = "none"
    /\ closing = [conn |-> NoConn, ret |-> "loop"]
    /\ timer = SetupTimeout("none") /\ hasmsg = HasMsg
    /\ cn = [c \in Conns |-> Unused]
    /\ ev = [c \in Conns |-> <<>>]

\* Context._doConnAdd: append, Connection.start, and App.onConnected
\* unless the context is a datagram one.
DoConnAdd(c) ==
    LET cs == Append(conns, c)
        started == [cn EXCEPT ![c] = ConnStart(@)]
    IN
    /\ conns' = cs
    /\ IF mode = "dgram"
       THEN cn' = started /\ UNCHANGED <<hasmsg, looping, timer, ev, mpc, exc>>
       ELSE OnConnected(c, cs, started)
    /\ UNCHANGED <<closing, sem>>

\* _doConnRemove's connections.remove(conn) and conn.close() up to its
\* joins; the main thread continues at ret once close has joined.
CloseListed(c, ret) ==
    /\ conns' = SelectSeq(conns, LAMBDA d : d # c)
    /\ cn' = [cn EXCEPT ![c] = CloseBegin(@)]
    /\ mpc' = "close"
    /\ closing' = [conn |-> c, ret |-> ret]
    /\ UNCHANGED <<looping, hasmsg, sem>>

\* The rest of _doConnRemove once onDisconnected has returned: remove the
\* connection, close it and continue at ret once close has joined.  An
\* exception from onDisconnected skips it and leaves the main thread.
RemoveAndClose(c, ret) ==
    IF TimerAssertFails
    THEN mpc' = "raised" /\ UNCHANGED <<conns, cn, closing, looping, hasmsg, sem>>
    ELSE CloseListed(c, ret)

\* Faulty variant of DoConnRemove: no "if conn in self.connections".
DoConnRemoveUnguarded(c, ret) ==
    OnDisconnected(c) /\ RemoveAndClose(c, ret)

\* Context._doConnRemove(conn): when conn is still listed,
\* App.onDisconnected (not for a datagram context), remove it and close
\* it.  Otherwise nothing.
DoConnRemove(c, ret) ==
    IF IsListed(c)
    THEN IF mode = "dgram" THEN CloseListed(c, ret) /\ UNCHANGED <<ev, timer, exc>>
                           ELSE OnDisconnected(c) /\ RemoveAndClose(c, ret)
    ELSE /\ mpc' = ret
         /\ UNCHANGED <<ev, timer, conns, cn, closing, looping, hasmsg, sem, exc>>

\* Context._onRequest(req), and App.onTimer for the timer's request.
\* After stop (running False) a request is dropped with a warning, but a
\* _CONN_ADD closes its connection first: Connection.close of a
\* Connection never started calls None.post, and the AttributeError
\* leaves the main thread.
OnRequest(r) ==
    \/ /\ r.what = "TIMER"
       /\ ExitLoop
       /\ UNCHANGED <<conns, cn, hasmsg, timer, ev, mpc, closing, sem, exc>>
    \/ /\ ~running /\ r.what # "TIMER"
       /\ IF r.what = "ADD" THEN exc' = "AttributeError:post" /\ mpc' = "raised"
                            ELSE UNCHANGED <<exc, mpc>>
       /\ UNCHANGED <<conns, cn, hasmsg, timer, ev, looping, closing, sem>>
    \/ running /\ r.what = "ADD" /\ DoConnAdd(r.conn)
    \/ running /\ r.what = "REMOVE" /\ DoConnRemove(r.conn, "loop")
    \/ /\ running /\ r.what = "MSG"  \* eventHandler.recvMessage
       /\ ev' = [ev EXCEPT ![r.conn] = Append(@, "message")]
       /\ UNCHANGED <<conns, cn, hasmsg, timer, looping, mpc, closing, sem, exc>>

\* One turn of the main thread's _Loop.run: step takes the head of the
\* queue and calls the handler's callback.  An exception other than
\* queue.Empty ends the loop and App.run with it (mpc "raised").
LoopStep ==
    /\ mpc = "loop" /\ looping /\ mainq # <<>>
    /\ mainq' = Tail(mainq)
    /\ OnRequest(Head(mainq))
    /\ UNCHANGED <<mode, running, spc, ctxSock>>

\* _Loop.step(timeout=0.1) on an empty queue returns False and run tries
\* again: the main thread waits, nothing changes.
LoopIdle ==
    /\ mpc = "loop" /\ looping /\ mainq = <<>>
    /\ UNCHANGED vars

\* Faulty variant of CloseJoin: close joins the reader thread only.
CloseJoinReaderOnly ==
    LET c == closing.conn IN
    /\ mpc = "close"
    /\ cn[c].rd # "run"
    /\ cn' = [cn EXCEPT ![c].sock = "closed"]
    /\ sem' = sem + 1
    /\ mpc' = closing.ret
    /\ closing' = [conn |-> NoConn, ret |-> "loop"]
    /\ UNCHANGED <<mode, running, conns, ctxSock, spc, mainq, looping, timer, hasmsg, ev, exc>>

\* Connection.close after the joins, back in _doConnRemove: once both
\* threads have ended, close the socket and release the semaphore.
CloseJoin ==
    LET c == closing.conn IN
    /\ mpc = "close"
    /\ cn[c].rd # "run" /\ cn[c].wr # "run"
    /\ cn' = [cn EXCEPT ![c].sock = "closed"]
    /\ sem' = sem + 1
    /\ mpc' = closing.ret
    /\ closing' = [conn |-> NoConn, ret |-> "loop"]
    /\ UNCHANGED <<mode, running, conns, ctxSock, spc, mainq, looping, timer, hasmsg, ev, exc>>

\* What the user and the application's own calls leave alone.
ctxVars == <<mode, running, conns, sem, ctxSock, spc, closing, timer, hasmsg, cn, ev, exc>>

\* Ctrl-C while runLoop waits: KeyboardInterrupt, caught by App.run, exitLoop.
UserInterrupt ==
    /\ Interrupt /\ mpc = "loop" /\ looping
    /\ ExitLoop
    /\ UNCHANGED <<mainq, mpc>> /\ UNCHANGED ctxVars

\* Connection.disconnect from an application callback: ctx.removeConn
\* posts _CONN_REMOVE.  (One call per connection is queued at a time.)
Disconnect(c) ==
    /\ AppDisconnect /\ mpc = "loop" /\ looping /\ IsListed(c)
    /\ ~ \E i \in 1..Len(mainq) : mainq[i] = Req("REMOVE", c)
    /\ mainq' = Post(mainq, Req("REMOVE", c))
    /\ UNCHANGED <<looping, mpc>> /\ UNCHANGED ctxVars

\* Context.stop called from an application callback, the loop running on
\* after it returns; its first step is running = False.
AppStopCall ==
    /\ AppStop /\ mpc = "loop" /\ looping /\ running
    /\ running' = FALSE
    /\ mpc' = "stop"
    /\ UNCHANGED <<mode, conns, sem, ctxSock, spc, mainq, looping, closing, timer, hasmsg, cn, ev, exc>>

\* runLoop has returned: App.run sleeps 100 ms and calls Context.stop,
\* whose first step is running = False.  After an application's own stop
\* in a callback, this second stop finds sockThread None and its join
\* raises AttributeError out of App.run.
StopBegin ==
    /\ mpc = "loop" /\ ~looping
    /\ IF running THEN running' = FALSE /\ mpc' = "stop" /\ UNCHANGED exc
                  ELSE exc' = "AttributeError:join" /\ mpc' = "raised" /\ UNCHANGED running
    /\ UNCHANGED <<mode, conns, sem, ctxSock, spc, mainq, looping, closing, timer, hasmsg, cn, ev>>

\* Context.stop's loop: _doConnRemove(connections[0]) while there is one.
StopRemove ==
    /\ mpc = "stop" /\ conns # <<>>
    /\ DoConnRemove(Head(conns), "stop")
    /\ UNCHANGED <<mode, running, ctxSock, spc, mainq>>

\* Context.stop: under cond, notifyAll and shutdown the socket thread's
\* socket if it has one.
StopSignal ==
    /\ mpc = "stop" /\ conns = <<>>
    /\ ctxSock' = IF ctxSock = "open" THEN "shut" ELSE ctxSock
    /\ mpc' = "join"
    /\ UNCHANGED <<mode, running, conns, sem, spc, mainq, looping, closing, timer, hasmsg, cn, ev, exc>>

\* Context.stop: sockThread.join(), then the cleanup; stop returns to the
\* callback that called it, or App.run returns.
StopJoin ==
    /\ mpc = "join" /\ spc = "done"
    /\ mpc' = IF looping THEN "loop" ELSE "done"
    /\ UNCHANGED <<mode, running, conns, sem, ctxSock, spc, mainq, looping, closing, timer, hasmsg, cn, ev, exc>>

\* The threading.Timer of App.setupTimeout fires: timerHandler.post.
TimerFire ==
    /\ timer = "armed"
    /\ timer' = "fired"
    /\ mainq' = Post(mainq, Req("TIMER", NoConn))
    /\ UNCHANGED <<mode, running, conns, sem, ctxSock, spc, looping, mpc, closing, hasmsg, cn, ev, exc>>

-----------------------------------------------------------------------------
(* Socket thread: Context._runClient, _runServer and _runDgram           *)

\* What the socket thread leaves alone.
mainVars == <<mode, running, conns, looping, mpc, closing, timer, hasmsg, ev, exc>>

\* A Connection object the socket thread can still create.
Fresh == CHOOSE d \in Conns : cn[d].st = "unused"
HasFresh == \E d \in Conns : cn[d].st = "unused"

\* Where the socket thread goes once _setupSock has opened a socket:
\* connect (_runClient), bind and listen (_runServer) or bind (_runDgram).
SockOpened == CASE mode = "client" -> "connect"
                [] mode = "server" -> "bind"
                [] OTHER           -> "dbind"

\* Where it goes after a semaphore.acquire() at the end of a turn: back to
\* _runServer's accept loop, or to the outer loop's test.
Reacquired == IF mode = "server" THEN "accept" ELSE "check"

\* _runClient: semaphore.acquire() before the loop.
SockAcquireFirst ==
    /\ spc = "start" /\ mode = "client" /\ sem > 0
    /\ sem' = sem - 1 /\ spc' = "check"
    /\ UNCHANGED <<ctxSock, mainq, cn>> /\ UNCHANGED mainVars

\* Faulty variant of SockCheck: the loop does not test running.
SockCheckForever ==
    /\ spc = "check"
    /\ ctxSock' = "open" /\ spc' = SockOpened
    /\ UNCHANGED <<sem, mainq, cn>> /\ UNCHANGED mainVars

\* while self.running, then _setupSock: under cond, a new socket, or
\* break (the thread ends) when running is False.
SockCheck ==
    /\ spc = "check"
    /\ IF running THEN ctxSock' = "open" /\ spc' = SockOpened
                  ELSE spc' = "done" /\ UNCHANGED ctxSock
    /\ UNCHANGED <<sem, mainq, cn>> /\ UNCHANGED mainVars

\* _runClient: sock.connect succeeds when the server accepts (there is a
\* Connection object left to create) and stop has not shut it down.
ConnectOk ==
    /\ spc = "connect" /\ ctxSock = "open" /\ HasFresh
    /\ spc' = "connected"
    /\ UNCHANGED <<sem, ctxSock, mainq, cn>> /\ UNCHANGED mainVars

\* _runClient: sock.connect raises (refused, unreachable, timed out, or
\* the socket was shut down).
ConnectFail ==
    /\ spc = "connect"
    /\ spc' = "failed"
    /\ UNCHANGED <<sem, ctxSock, mainq, cn>> /\ UNCHANGED mainVars

\* _runClient, connected: under cond a Connection takes the socket (shut
\* down if stop got there first), self.sock = None and _CONN_ADD is
\* posted; then _cleanupSock finds no socket.
SockPost ==
    /\ spc = "connected"
    /\ cn' = [cn EXCEPT ![Fresh].st = "created",
                        ![Fresh].sock = IF ctxSock = "shut" THEN "shut" ELSE "open"]
    /\ mainq' = Post(mainq, Req("ADD", Fresh))
    /\ ctxSock' = "none"
    /\ spc' = "acquire"
    /\ UNCHANGED sem /\ UNCHANGED mainVars

\* Faulty variant of SockRelease: a failed connect keeps the token.
SockReleaseMissing ==
    /\ spc = "failed"
    /\ ctxSock' = "none"
    /\ spc' = "acquire"
    /\ UNCHANGED <<sem, mainq, cn>> /\ UNCHANGED mainVars

\* _runClient, not connected: semaphore.release(), then _cleanupSock
\* closes the socket.
SockRelease ==
    /\ spc = "failed"
    /\ sem' = sem + 1
    /\ ctxSock' = "none"
    /\ spc' = "acquire"
    /\ UNCHANGED <<mainq, cn>> /\ UNCHANGED mainVars

\* Faulty variant of SockAcquire: it does not wait for a token.
SockAcquireNoWait ==
    /\ spc = "acquire"
    /\ sem' = sem - 1 /\ spc' = Reacquired
    /\ UNCHANGED <<ctxSock, mainq, cn>> /\ UNCHANGED mainVars

\* semaphore.acquire() at the end of a turn.  _runClient and _runDgram:
\* wait for the current connection to go, _waitForRetry (a bounded wait on
\* cond), back to the loop test.  _runServer: back to the accept loop's test.
SockAcquire ==
    /\ spc = "acquire" /\ sem > 0
    /\ sem' = sem - 1 /\ spc' = Reacquired
    /\ UNCHANGED <<ctxSock, mainq, cn>> /\ UNCHANGED mainVars

\* _runServer: setsockopt, bind and listen succeed, and the first token is
\* taken before the accept loop.
BindListen ==
    /\ spc = "bind" /\ ctxSock = "open" /\ sem > 0
    /\ sem' = sem - 1 /\ spc' = "accept"
    /\ UNCHANGED <<ctxSock, mainq, cn>> /\ UNCHANGED mainVars

\* _runServer: bind or listen raises; _cleanupSock, _waitForRetry, and
\* back to the loop test.
BindFail ==
    /\ spc = "bind"
    /\ ctxSock' = "none" /\ spc' = "check"
    /\ UNCHANGED <<sem, mainq, cn>> /\ UNCHANGED mainVars

\* Faulty variant of AcceptCall: the accept loop does not test running.
AcceptCallForever ==
    /\ spc = "accept"
    /\ spc' = "accepting"
    /\ UNCHANGED <<sem, ctxSock, mainq, cn>> /\ UNCHANGED mainVars

\* _runServer's accept loop test passes (running): the thread blocks in
\* sock.accept(), where stop may find it.
AcceptCall ==
    /\ spc = "accept" /\ running
    /\ spc' = "accepting"
    /\ UNCHANGED <<sem, ctxSock, mainq, cn>> /\ UNCHANGED mainVars

\* sock.accept() returns a peer, whatever running has become meanwhile: a
\* Connection takes its socket and _CONN_ADD is posted (the token goes
\* with it).
AcceptOk ==
    /\ spc = "accepting" /\ ctxSock = "open" /\ HasFresh
    /\ cn' = [cn EXCEPT ![Fresh].st = "created", ![Fresh].sock = "open"]
    /\ mainq' = Post(mainq, Req("ADD", Fresh))
    /\ spc' = "acquire"
    /\ UNCHANGED <<sem, ctxSock>> /\ UNCHANGED mainVars

\* Faulty variant of AcceptFail: the token is not released.
AcceptFailKeepsToken ==
    /\ spc = "accepting"
    /\ spc' = "acquire"
    /\ UNCHANGED <<sem, ctxSock, mainq, cn>> /\ UNCHANGED mainVars

\* sock.accept() times out or raises (always, once stop has shut the
\* listening socket down); the token is released.
AcceptFail ==
    /\ spc = "accepting"
    /\ sem' = sem + 1 /\ spc' = "acquire"
    /\ UNCHANGED <<ctxSock, mainq, cn>> /\ UNCHANGED mainVars

\* _runServer: running is False, the accept loop ends (keeping its token),
\* _cleanupSock, _waitForRetry, back to the outer loop test.
AcceptEnd ==
    /\ spc = "accept" /\ ~running
    /\ ctxSock' = "none" /\ spc' = "check"
    /\ UNCHANGED <<sem, mainq, cn>> /\ UNCHANGED mainVars

\* _runDgram: setsockopt and bind succeed; under cond a datagram
\* Connection takes the socket, self.sock = None, _CONN_ADD is posted
\* (no token was acquired for it), _cleanupSock finds no socket.
DgramBindOk ==
    /\ spc = "dbind" /\ ctxSock # "none" /\ HasFresh
    /\ cn' = [cn EXCEPT ![Fresh].st = "created",
                        ![Fresh].sock = IF ctxSock = "shut" THEN "shut" ELSE "open"]
    /\ mainq' = Post(mainq, Req("ADD", Fresh))
    /\ ctxSock' = "none" /\ spc' = "acquire"
    /\ UNCHANGED sem /\ UNCHANGED mainVars

\* _runDgram: bind raises; semaphore.release(), _cleanupSock.
DgramBindFail ==
    /\ spc = "dbind"
    /\ sem' = sem + 1
    /\ ctxSock' = "none" /\ spc' = "acquire"
    /\ UNCHANGED <<mainq, cn>> /\ UNCHANGED mainVars

-----------------------------------------------------------------------------
(* A Connection's reader and writer threads, and its peer                  *)

connVars == <<mode, running, conns, sem, ctxSock, spc, looping, mpc, closing, timer, hasmsg, ev, exc>>

\* One turn of Connection._reader: recv returns data the peer sent, the
\* Protocol frames a message and ctx.notifyMessage posts _CONN_MSG.
ReaderRecv(c) ==
    /\ cn[c].rd = "run" /\ cn[c].crun /\ cn[c].sock = "open" /\ cn[c].peer > 0
    /\ cn' = [cn EXCEPT ![c].peer = @ - 1]
    /\ mainq' = Post(mainq, Req("MSG", c))
    /\ UNCHANGED connVars

\* Connection._reader leaves its loop.  The thread waits in recv, which
\* returns no bytes only once the socket is shut down or, on a stream, the
\* peer has closed.  No bytes end a stream's loop; a datagram socket's
\* loop ends at its next test of running.  Then ctx.removeConn posts
\* _CONN_REMOVE and the thread ends.
ReaderExit(c) ==
    /\ cn[c].rd = "run"
    /\ \/ cn[c].sock = "shut" /\ (mode # "dgram" \/ ~cn[c].crun)
       \/ mode # "dgram" /\ cn[c].peerClosed
    /\ cn' = [cn EXCEPT ![c].rd = "done"]
    /\ mainq' = Post(mainq, Req("REMOVE", c))
    /\ UNCHANGED connVars

\* One turn of the writer's looper: Connection._onWriteRequest on the head
\* of its queue.  _WRITE_MSG: sock.sendall, whose error on a shut-down
\* socket is logged and the message dropped; _WRITE_STOP: exitLoop, and
\* the writer thread ends.
WriterStep(c) ==
    /\ cn[c].wr = "run" /\ cn[c].wq # <<>>
    /\ cn' = [cn EXCEPT ![c].wq = Tail(@),
                        ![c].written = @ + (IF Head(cn[c].wq) = "MSG" /\ cn[c].sock = "open"
                                            THEN 1 ELSE 0),
                        ![c].wr = IF Head(cn[c].wq) = "STOP" THEN "done" ELSE @]
    /\ UNCHANGED mainq /\ UNCHANGED connVars

\* The peer closes its end of an established stream connection (a
\* datagram socket has no connection to close); what it had not
\* sent yet is never sent.
PeerClose(c) ==
    /\ mode # "dgram"
    /\ cn[c].st = "created" /\ cn[c].sock \in {"open", "shut"} /\ ~cn[c].peerClosed
    /\ cn' = [cn EXCEPT ![c].peerClosed = TRUE, ![c].peer = 0]
    /\ UNCHANGED mainq /\ UNCHANGED connVars

\* App.run has returned, or died of an exception: nothing is left for the
\* main thread to do.
Terminated ==
    /\ mpc \in {"done", "raised"}
    /\ UNCHANGED vars

-----------------------------------------------------------------------------
MainThread ==
    \/ LoopStep \/ CloseJoin \/ StopBegin \/ StopRemove \/ StopSignal \/ StopJoin

SockThread ==
    \/ SockAcquireFirst \/ SockCheck \/ SockAcquire
    \/ ConnectOk \/ ConnectFail \/ SockPost \/ SockRelease
    \/ BindListen \/ BindFail \/ AcceptCall \/ AcceptOk \/ AcceptFail \/ AcceptEnd
    \/ DgramBindOk \/ DgramBindFail

Next ==
    \/ MainThread
    \/ LoopIdle \/ UserInterrupt \/ AppStopCall
    \/ \E c \in Conns : Disconnect(c)
    \/ TimerFire
    \/ SockThread
    \/ \E c \in Conns : ReaderRecv(c) \/ ReaderExit(c) \/ WriterStep(c) \/ PeerClose(c)
    \/ Terminated

\* Every thread that can go on eventually does: the main thread, the socket
\* thread, every reader and writer, and a timer that is armed.  A server
\* is assumed to accept a connect tried again and again (strong fairness
\* of ConnectOk), and a bind tried again and again to succeed once the
\* address is free (DgramBindOk); the peer, the user and the
\* application's own calls are under no obligation.
Fairness ==
    /\ WF_vars(MainThread)
    /\ WF_vars(SockThread)
    /\ SF_vars(ConnectOk) /\ SF_vars(DgramBindOk)
    /\ WF_vars(TimerFire)
    /\ \A c \in Conns : WF_vars(ReaderRecv(c) \/ ReaderExit(c)) /\ WF_vars(WriterStep(c))

Spec == Init /\ [][Next]_vars /\ Fairness

-----------------------------------------------------------------------------
(* Properties                                                              *)

Request == [what : {"ADD", "REMOVE", "MSG"}, conn : Conns] \cup {Req("TIMER", NoConn)}
ConnState == [st : {"unused", "created"}, rd : {"none", "run", "done"},
              wr : {"none", "run", "done"}, wq : Seq({"MSG", "STOP"}),
              sock : {"none", "open", "shut", "closed"}, crun : BOOLEAN,
              peer : 0..MaxRx, peerClosed : BOOLEAN, posted : Nat, written : Nat]

TypeOK ==
    /\ running \in BOOLEAN /\ looping \in BOOLEAN /\ hasmsg \in BOOLEAN
    /\ conns \in Seq(Conns) /\ sem \in 0..MAX_CONN
    /\ ctxSock \in {"none", "open", "shut"}
    /\ mode \in Modes
    /\ spc \in {"start", "check", "connect", "connected", "failed", "acquire",
                "bind", "accept", "accepting", "dbind", "done"}
    /\ mainq \in Seq(Request)
    /\ mpc \in {"loop", "close", "stop", "join", "done", "raised"}
    /\ exc \in {"none", "AssertionError", "AttributeError:post",
                "AttributeError:join", "AttributeError:message"}
    /\ closing \in [conn : Conns \cup {NoConn}, ret : {"loop", "stop"}]
    /\ timer \in {"none", "armed", "fired"}
    /\ cn \in [Conns -> ConnState]
    /\ ev \in [Conns -> Seq({"connected", "message", "disconnected"})]

\* The semaphore's tokens.  A client's socket thread holds one from an
\* acquire until it hands it to a Connection (posting _CONN_ADD) or
\* releases it after a failed connect, and keeps it when it ends (the
\* break out of the loop).  A server's holds one in its accept loop, from
\* the acquire before it until an accepted peer's _CONN_ADD or a failed
\* accept's release.  A Connection holds its token until _doConnRemove
\* releases it after close.
SockHoldsToken ==
    IF mode = "client" THEN spc \in {"check", "connect", "connected", "failed", "done"}
                       ELSE spc \in {"accept", "accepting"}
TokenHolders == {c \in Conns : cn[c].st = "created" /\ cn[c].sock # "closed"}
TokensHeld == sem + (IF SockHoldsToken THEN 1 ELSE 0) + Cardinality(TokenHolders)

\* Semaphore accounting across the socket thread, the main thread's
\* queue, Context.connections and Connection.close, for a client and a
\* server: the semaphore's value plus the tokens held is always
\* Context._start's maximum, so no release (a failed connect's or
\* accept's, or _doConnRemove's once per connection, whichever of stop,
\* disconnect and the reader's removeConn gets there first) is missed or
\* repeated.  The one exception is the token a server's accept loop keeps
\* when it ends on running = False; the thread then only ends.
SemaphoreAccounting ==
    mode \in {"client", "server"} =>
        \/ TokensHeld = MAX_CONN
        \/ mode = "server" /\ ~running /\ spc \in {"check", "done"}
           /\ TokensHeld = MAX_CONN - 1

\* Context._start's maxConnectionCount bounds the Connections open at once
\* (the socket thread waits "for current connection if any to complete"
\* before making another): a client or a datagram context has at most one
\* open Connection, a server at most 16.
ConnectionLimit == Cardinality(TokenHolders) <= MAX_CONN

\* Context._doConnRemove runs its body once per connection, however many
\* of stop, disconnect and the reader's removeConn ask for it: the event
\* handler hears onDisconnected at most once for a connection, and only
\* after onConnected.
DisconnectOnce ==
    \A c \in Conns :
        \A i \in 1..Len(ev[c]) : ev[c][i] = "disconnected" =>
            /\ \A j \in 1..Len(ev[c]) : j # i => ev[c][j] # "disconnected"
            /\ \E j \in 1..(i - 1) : ev[c][j] = "connected"

\* pompcli sends its message on connecting and stops: once Context.stop has
\* returned, every message Connection.sendMsg posted was written by the
\* writer thread (pompcli.py:104, "make sure message is sent").
SentReachesPeer ==
    mpc = "done" => \A c \in Conns : cn[c].written = cn[c].posted

\* pompcli sends the message its command line gives ("<msgid> [<fmt>
\* [<args>...]]", format and arguments optional): once App.onConnected has
\* run for a connection, Context.send has posted it to a writer.
MessagePosted ==
    (HasMsg /\ \E c \in Conns : \E i \in 1..Len(ev[c]) : ev[c][i] = "connected")
    => \E c \in Conns : cn[c].posted > 0

\* pompcli terminates: App.run's Context.stop returns (Context.stop joins
\* the socket thread, Connection.close joins the reader and writer).
Termination == <>(mpc = "done")

\* When Context.stop returns, no reader or writer thread of the context
\* is left running: every connection it started was closed and joined.
ThreadsJoinedAtStop ==
    mpc = "done" => \A c \in Conns : cn[c].rd # "run" /\ cn[c].wr # "run"

\* A server's Context.stop returns (or a callback it calls raises): the
\* socket thread, blocked in accept, is woken by the shutdown, leaves its
\* loops on running = False, and every Connection.close joins its threads.
StopReturns == mode = "server" => (mpc = "stop" ~> mpc \in {"loop", "done", "raised"})

\* App.setupTimeout's "assert self.timer is None" holds whenever
\* onDisconnected calls it.
SetupTimeoutAssert == exc # "AssertionError"

\* A _CONN_ADD that arrives after Context.stop is dropped cleanly:
\* _onRequest's conn.close() does not raise.
LateAddClosed == exc # "AttributeError:post"
=============================================================================
