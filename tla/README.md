# TLA+ models of libpomp (Python binding)

These modules model `src/python/pomp` with TLA+ and check it with TLC.
They cover the wire codec, the Message object and the stream framer, each
translated from the code. They also cover one direction of a stream
connection, checked against an abstract reliable channel. The last part is
the Context's threads (main looper, socket thread, per-connection reader and
writer) driven by pompcli, in client, server and datagram mode, and
pompcli's command line (`main`, `parseAddr`), which sets that run up.

## 1. The system

POMP sends messages made of an integer id and a typed argument tuple. A
printf-style format describes the tuple. The parts and how they interact:

| Part | Source | State | Operations |
|---|---|---|---|
| Buffer | `buffer.py` | BytesIO bytes, cursor, read-only latch | skip, setPos, rewind, write, writeByte, writeInt, read, readByte, readInt |
| Encoder | `encoder.py` | the message it holds | init (skip the header), write(fmt, args), writeI8..writeF64, writeStr, writeBuf, zigzag and varint |
| Decoder | `decoder.py` | the message it holds | init (cursor to 12), read(fmt), dump, readI8..readF64, readStr, readBuf |
| Message | `message.py` | msgid, finished, buf | init, finish (header, latch), setFinished, clear, write, read, dump |
| Protocol | `protocol.py` | state IDLE/MAGIC_0..3/HEADER/PAYLOAD, header buffer, header, in-progress message | decode(buf, off): at most one message per call, magic resync |
| Connection | `connection.py` | socket, reader thread, writer thread with its looper, peerAddr | send, sendMsg, sendMsgTo, start, close, _reader, _onWriteRequest |
| Context | `context.py` | connections, semaphore, socket thread, main handler, running | listen, connect, bind, stop, send, _onRequest, _doConnAdd, _doConnRemove, _runServer/_runClient/_runDgram |
| Looper | `looper.py` | per-thread queue, running flag | post, run, step, exitLoop |
| parseAddr | `__init__.py` | none | string to socket address |
| pompcli | `pompcli.py` | App: a Context, its timer, `hasmsg` | connect/listen/bind, send once connected, dump received messages, timeout, Ctrl-C, stop |

How they interact:

- **Sending.** `Connection.send` builds a Message with `Message.write`, which runs init, Encoder.init, Encoder.write and finish. It posts the message to the connection's writer thread, which `sendall`s the bytes.
- **Receiving.** The reader thread `recv`s up to 1024 bytes and feeds them to its `Protocol` until the chunk is used up. It posts every completed message to the Context's main-thread handler, which calls `recvMessage`.
- **Connection lifecycle.** Connections are created by the Context's socket thread. They are added, removed and closed through the same main-thread handler. A semaphore bounds how many connections can be open at once.

What makes it hard:

- The BytesIO cursor is shared by the Encoder, the Decoder and finish.
- Chunk boundaries can fall anywhere within a frame.
- The magic resynchronisation after garbage.
- Three threads per connection plus the main loop, with no lock on most of the shared state.

## 2. Modules

| Module | Models | Kind |
|---|---|---|
| `PompBuffer` | `buffer.py` | operators on a buffer record |
| `PompCodec` | `encoder.py`, `decoder.py`, the constants of `protocol.py`, `Message.finish`/`write` | operators (RECURSIVE format interpreters, varint, zigzag) |
| `PompMessage` | one Message under any sequence of API calls by one caller, with the Encoder that holds it | state machine |
| `PompProtocol` | `Protocol.decode` and the reader's chunk loop | operators, one decode call per application |
| `PompChannel` | what a connection promises: a FIFO channel of whole messages, eventually delivered | abstract specification |
| `PompStream` | sender, writer queue, byte stream, reader and framer of one stream connection; refines `PompChannel` | composed state machine |
| `PompContext` | `context.py` (client, server and datagram contexts), `Connection.start`/`close`/`disconnect`/`_reader`/`_writer`, `looper.py`'s loop, pompcli's `App` | state machine of threads |
| `PompCli` | `pompcli.main`, `App.__init__`, the mode choice and the send of `App.run`/`onConnected`; `parseAddr`, `parseInetAddr` | operators over command lines |
| `MCPompMessage`, `MCPompStream` | model values for TLC | MC modules |
| `MCPompContext` | model values, and the composition of `PompCli` with `PompContext`: each run names the pompcli command lines it stands for | MC module |

### PompBuffer

A buffer is a record `[data, pos, readonly, exc]`:

- `data` is the BytesIO content.
- `pos` is its cursor, which may lie past the end.
- `exc` is the Python exception the first failing call raised. Once it is set, the remaining steps of the same call chain do nothing, which models the unwinding.

The BytesIO rules are kept:

- A seek past the end does not grow the buffer.
- A write past the end fills the gap with zeros.
- A read at the end returns fewer bytes, and `struct.unpack` then raises `struct.error`.

### PompCodec

Every conversion is modelled by what it does:

- `Varint` is `_writeVarint`, and `ReadVarintFrom` is `_readVarint`.
- `ZigZag` and `UnZigZag` are the I32/I64 formulas on Python's unbounded ints, using the community `Bitwise` XOR. This keeps the out-of-range behaviour.
- `PackF32` and `PackF64` give the IEEE layout of integral values, plus π for single and double precision.

`EncodeFmt` and `DecodeFmt` are the loops of `Encoder.write` and `Decoder.read`, one format character per recursion step. They include the flags, `int()`/`float()` coercion, `StopIteration` on a missing argument and every `EncodeException`/`DecodeException` path. The width constants `W32` and `W64` stand in for 32 and 64 bits, because TLC's integers are 32-bit. The MC module uses 12 and 20: the zigzag and mask arithmetic is the same at any width, and the widths stay above the 8- and 16-bit tags.

### PompMessage

The variables are:

- `msg`: the Message object.
- `enc`: whether the caller's Encoder holds it.
- `hist`: history since the last init. This covers the values written, the encoder calls, whether one raised, the `%` count, and an epoch bit that tells buffer objects apart.

There is one action per API call: `MsgInit`, `EncoderInit`, `EncoderClear`, `EncoderWriteValue` (writeI8..writeBuf), `EncoderWriteFmt`, `Finish`, `Write`, `Read`, `Dump`, `Clear`. Each action is the whole call. A call that raises keeps what it did before the exception, and the exception then reaches the caller.

Two constants switch on the misuse the spec forbids:

- `EncoderMisuse`: re-init or clear a message while an Encoder holds it, with `MaxEncInits` = 2 for a second `Encoder.init`.
- `ReadBeforeFinish`: read a message before it is finished.

### PompProtocol

The framer is a record `[state, hdr, msgid, size, body]`, using the code's numbering of states.

- `Iter` is one iteration of the `while` loop of `decode`, including the end-of-payload check that closes it.
- `DecodeLoop` and `Decode` are one call.
- `ReadChunk` is `Connection._reader`'s `while off < len(buf)` loop.

### PompStream

The variables are:

- `txq`: the writer thread's queue.
- `wire`: bytes in the socket.
- `prot`: the reader's Protocol.
- `sent` and `delivered`: messages posted and notified.
- `noise`: the number of garbage writes so far.

The actions are:

- `Send`: `Connection.send`, which calls `Message.write` and then posts.
- `WriteRequest`: `_onWriteRequest` doing a `sendall`.
- `Garbage`: a peer writes bytes that are not a frame, between frames.
- `Recv(n)`: one turn of the reader loop, where `recv` returns any n bytes from 1 to 1024.

`ChannelSpec` is `PompChannel!Spec` under the identity mapping of `sent` and `delivered`. It is checked as a PROPERTY.

### PompContext

Each thread is a program counter. A blocking call (`semaphore.acquire`, `Thread.join`) is a guard on the step that follows it.

| Variable | Code |
|---|---|
| `mpc` | the main thread: in `runLoop` (`"loop"`), in `Connection.close`'s joins (`"close"`), in `Context.stop`'s removal loop (`"stop"`) or its `sockThread.join` (`"join"`), returned (`"done"`), or died of an exception (`"raised"`) |
| `mainq`, `looping` | the main `_Loop`'s queue (`_CONN_ADD`, `_CONN_REMOVE`, `_CONN_MSG`, the timer's request) and its `_running` flag |
| `running`, `conns`, `sem`, `ctxSock` | `Context.running`, `.connections`, the semaphore's value, `.sock` |
| `mode` | how `App.run` started the Context: `connect`, `listen` or `bind` |
| `spc` | the socket thread in `_runClient`, `_runServer` or `_runDgram` |
| `cn[c]` | Connection `c`: its reader and writer (`rd`, `wr`), `Connection.running`, the writer looper's queue, the socket (`open`/`shut`/`closed`), what its peer still sends, and the messages posted and written |
| `timer`, `hasmsg`, `ev`, `exc` | `App.timer`, `App.hasmsg`, the EventHandler calls made per connection, the exception that left the main loop (for an `AttributeError`, the attribute found missing: `post`, `join` or `message`) |

The main thread:
- `LoopStep` is one `_Loop.step` with its callback, which is `_onRequest` or `App.onTimer`. `OnRequest` is the whole of `_onRequest`, including `_doConnAdd` and `App.onConnected`, and `_doConnRemove` up to `close`'s joins (`RemoveAndClose`).
- `CloseJoin` is the rest of `close` plus `semaphore.release`.
- `StopBegin`, `StopRemove`, `StopSignal` and `StopJoin` are `App.run` after `runLoop`, and `Context.stop`. If a callback already stopped the context, `App.run`'s own `stop` finds `sockThread` None, and its `join` raises `AttributeError` (`context.py:130`).
- `OnConnected` is `App.onConnected`. A send that raises posts nothing. If it raises `EncodeException`, the handler's `ex.message` raises `AttributeError` on Python 3, and the main thread dies before `hasmsg` is cleared and before `exitLoop`.
- `AppStopCall` is `stop` called from a callback.

The socket thread has one action per branch of `_runClient`/`_runServer`/`_runDgram`: `SockCheck` (the loop test and `_setupSock`), `ConnectOk`/`ConnectFail`, `SockPost`, `SockRelease`, `SockAcquire`, `BindListen`/`BindFail`, `AcceptCall` (the thread blocks in `accept`), `AcceptOk`/`AcceptFail`/`AcceptEnd`, `DgramBindOk`/`DgramBindFail`.

In a datagram context `_doConnAdd` and `_doConnRemove` skip `onConnected`/`onDisconnected` (`CloseListed`), the reader does not stop on an empty datagram, and no peer closes its end.

The connection threads are `ReaderRecv`, `ReaderExit` (`removeConn` on leaving the loop) and `WriterStep` (`_onWriteRequest`). The reader waits in `recv`, so it leaves only once the socket is shut down or the stream's peer has closed. A `sendall` on a shut socket fails and its message is dropped.

The environment:
- `PeerClose`: the peer closes its end.
- `UserInterrupt`: Ctrl-C in `runLoop`.
- `TimerFire`: the `threading.Timer`.
- `Disconnect`: `conn.disconnect()` from a callback.

Constants switch on pompcli's options (`Dump`, `HasMsg`, `SendExc`, what `onConnected`'s send raises, and `Timeout`, the starts whose command line has `-t`) and what an application may do (`Interrupt`, `AppDisconnect`, `AppStop`). `Modes` is the set of starts TLC explores: `"client"`, `"server"`, `"dgram"`.

### PompCli, and the composition in MCPompContext

A command-line string is a sequence of code points.
- `ParseInetAddr` splits at the last `:` (`rfind`) and takes the port through `int()`. `int()` of a string is `IsIntStr`/`IntOf` in `PompCodec`: blanks stripped, an optional sign, decimal digits. The Encoder's `%d` coercion of a str argument uses the same operators.
- `ParseAddr` handles the `inet:`, `inet6:` and `unix:` forms. For `unix:@name` it builds NUL + name + `(108 - len(path))` NULs; `Nuls` of a negative count is empty, as `n * "\x00"` is.
- `Main(o, args)` is `main` after `parseArgs`: `AppInit` (`App.__init__`), then the address, the message id, the format and the arguments, with the four exit-1 paths. `o` is the Options record `parseArgs` returns.
- `StartMode` is `App.run`'s choice of `bind`, `listen` or `connect`. `SendRaised` is what `onConnected`'s `ctx.send(msgid, msgfmt, *msgargs)` raises: a `TypeError` when `msgargs` is None, otherwise what `Message.write` (`PompCodec`'s `MessageWrite`) raises, if anything.

`MCPompContext` composes the two modules. Each context cfg names the command lines it stands for (`Cmds <- ClientSend`, `ServerAndDgram`, ...). Assumptions then check that the cfg's `Dump`, `Timeout`, `HasMsg`, `SendExc` and `Modes` are what `Main`, `StartMode` and `SendRaised` make of those lines. The lines of one cfg start the Context in different ways, so each initial state is one command line. Another assumption checks that `pompcli inet:h:7 42 %d x` makes the send raise `EncodeException`. A cfg that disagrees with its command lines fails at startup.

The same module checks `UsageAccepted` as an assumption at the start of every context run. It is a constant fact, so TLC evaluates it once and no state is involved. It checks 58 command lines, with and without `-d`:
- every `<addr>` form of the usage text, including `inet6:::1:7`, whose host holds colons;
- a malformed address of each kind;
- no message id, a good one and a bad one.
The reference `UsageAddrs` is the usage text read declaratively. `UsageHolds` is the spec's exit rule: exit 1 exactly on a missing or unparsable address or message id. On any other line, the App runs with the address and the id's value.

Changes to the code that this assumption catches:
- `find` in place of `rfind` (`ParseInetAddrFirstColon`);
- the NUL padding off by one;
- the message id taken from the wrong argument.

## 3. Runs

| Run | cfg | Expect | Checks |
|---|---|---|---|
| message_roundtrip | `MCPompMessage.cfg` | pass | `TypeOK`, `RoundTrip`: with documented use, every finished message reads and dumps back exactly the values written |
| stream_fifo | `MCPompStream.cfg` | pass | `TypeOK`, `ChannelSpec`: the stream connection refines the FIFO channel, liveness included |
| stream_empty_message | `MCPompStream_EmptyMessage.cfg` | violation | `ChannelSpec` when a message with no format is sent |
| context_client_once | `MCPompContext.cfg` | pass | `TypeOK`, `SemaphoreAccounting` (the client's one token is always in exactly one place), `Termination` (pompcli sending one message always ends) |
| context_client_timeout | `MCPompContext_Timeout.cfg` | violation | `Termination` with `-t` |
| context_send_loss | `MCPompContext_SendLoss.cfg` | violation | `SentReachesPeer`: when stop returns, every message posted was written |
| context_server | `MCPompContext_Server.cfg` | pass | `pompcli -s -d` and `pompcli -u -d -t 1`: `DisconnectOnce` (onDisconnected at most once per connection, after onConnected), `ThreadsJoinedAtStop` (no reader or writer outlives stop), `SemaphoreAccounting` (a server's tokens are all accounted for: in the accept loop, with a Connection, or in the semaphore), `StopReturns` (a server's stop always returns) |
| context_server_timer | `MCPompContext_ServerTimeout.cfg` | violation | `SetupTimeoutAssert` with `-s -t` and two peers |
| context_stop_in_callback | `MCPompContext_StopInCallback.cfg` | violation | `LateAddClosed`: a `_CONN_ADD` after stop is dropped without an exception |
| context_dgram_limit | `MCPompContext_DgramLimit.cfg` | violation | `ConnectionLimit`: a datagram context has at most one open Connection |
| context_id_only | `MCPompContext_IdOnly.cfg` | violation | `MessagePosted` for `pompcli inet:h:7 42`: a message id without format or arguments is posted once connected |
| context_dgram_send | `MCPompContext_DgramSend.cfg` | violation | `Termination` for `pompcli -u inet:h:7 42 %d 5` |

What the violations show (details are in `PROJECT.json` "findings"):

- `Message.finish` on an empty payload writes size 8. The receiving framer rejects that header (`Bad header size`, `protocol.py:183`) and drops the message without a trace; the frames after it are delivered.
- pompcli `-t` (or Ctrl-C) can hang for good. If the loop ends with a `_CONN_ADD` still queued, the socket thread blocks in `semaphore.acquire` (`context.py:293`), and `stop` blocks in `sockThread.join` (`:130`).
- `Connection.close` shuts the socket down right after posting `_WRITE_STOP`, so a message queued before it is lost. The 100 ms sleep in `App.run` only narrows the window.
- `pompcli -s -t` with two peers fails `setupTimeout`'s assert.
- A `_CONN_ADD` handled after `stop` closes a never-started Connection. The resulting `AttributeError` leaves the main loop, and the socket leaks.
- `_runDgram` takes no semaphore token before its loop, unlike `_runClient`. Two seconds after the first bind, a second socket is bound to the same address (`SO_REUSEADDR`) and a second datagram Connection is added. `Context.bind` asked for at most one.
- `pompcli <addr> <msgid>` (or with a format and no arguments) connects, sends nothing and exits 0. `main` leaves `msgargs` None, and `ctx.send(..., *None)` raises `TypeError` inside `onConnected`'s catch-all. The usage marks format and arguments as optional.
- `pompcli -u <addr> <msgid> ...` never sends and never returns: the send and the `exitLoop` are in `onConnected`, which a datagram context never calls. `context_dgram_send` (`pompcli -u inet:h:7 42 %d 5`) shows it as a violation of `Termination`.

Each property of a passing run has a mutant in `PROJECT.json`: a faulty variant of a mapped definition, defined just before it, which TLC shows to break the property.

- `EncodedNumUnmasked` drops `& 0xff` and breaks `TypeOK`.
- `FixedValueUnsigned` removes readI8's sign correction and breaks `RoundTrip`.
- `CopyLenOverrun` copies one byte past the header and breaks `TypeOK` of the stream.
- `ReadChunkShort` stops the reader loop one byte early and breaks `ChannelSpec`.
- `SockAcquireNoWait` does not block on the semaphore and breaks `TypeOK`.
- `SockReleaseMissing` forgets a failed connect's release and breaks `SemaphoreAccounting`.
- `SockCheckForever` drops the `running` test and breaks `Termination`.
- `DoConnRemoveUnguarded` drops `if conn in self.connections` and breaks `DisconnectOnce`.
- `CloseJoinReaderOnly` joins only the reader and breaks `ThreadsJoinedAtStop`.
- `AcceptFailKeepsToken` forgets a failed accept's release and breaks `SemaphoreAccounting` of `context_server`.
- `AcceptCallForever` drops the accept loop's `running` test and breaks `StopReturns`: the socket thread then goes back into `accept` on a shut socket for ever.

### Bounds and why they are enough

- **MCPompMessage.** One id, and at most 2 encoder calls per message.
  - The typed inputs reach every tag and the edge of each width: I8 -128, U16 65535, I32 -2^(W32-1), U32 2^W32-1 (a multi-byte varint), π as F32 and F64, a non-ASCII str, a str where bytes are wanted, and an empty buffer.
  - The formats mix conversions and flags: `%lld%f`, `%hd%lu`, `%hhu%s`. They include the error paths: a str for `%d`, a missing argument, a trailing `%`, and a None format.
  - Two calls per message are enough to place a value after another one and to write after finish.
- **MCPompStream.** Two messages of 19 and 14 bytes, sent up to twice in any mix, and at most one garbage write.
  - The garbage is either scenario 6's `00 'P' 'O' 'M' 00` or `00`.
  - `recv` returns every size from 1 to the whole wire, so every split of a header, a payload and a magic is reached.
  - Two frames are enough for a chunk to close one frame and start the next.

- **MCPompContext.** Two Connection objects and one message per peer (`MaxRx = 1`). The semaphore is the code's: 1 for a client or a datagram context and 16 for a server.
  - For a client, two objects allow a connect, a loss of the connection and a reconnect.
  - For a server, two objects allow two peers at once, the case the timer assert needs.
  - For a datagram context, two objects allow the second bind that shows the missing token.
  - `context_server` runs with `MaxRx = 0`. The messages a peer sends are `context_client_once`'s subject, and without them the run with its liveness property takes seconds instead of five minutes. Closes, disconnects and stops still race every removal.
  - In `context_server` the server line has no `-t`: with it, a second disconnect fails `setupTimeout`'s assert (`context_server_timer`), and the main thread dies before the removals this run is about. The datagram line has `-t 1`. A datagram context makes no `onConnected`/`onDisconnected` calls, so the timer there only ends the loop, and the timer's steps are exercised.
  - One message per peer is enough to queue a `_CONN_MSG` against a removal, and to queue a send against a close.
  - Every failure the code handles is a choice at each step: a failed connect, bind or accept, a peer close at any point, Ctrl-C, the timer, `disconnect()` and `stop()` from a callback.

### Fairness

- **Stream.** `WF` on `WriteRequest` and on `Recv`. While the connection is up, the writer thread's looper keeps taking posted requests and the reader thread keeps calling `recv`. Both loops only exit on close, which is not in that model.
- **Context.** Each thread is a running Python thread, so it gets `WF`: the main thread's steps, the socket thread's steps, each reader, each writer, and the timer thread, which fires once armed.
  - `ConnectOk` gets `SF`: a server that exists accepts a connect tried again and again (the client retries every 2 s). `DgramBindOk` gets `SF` for the same reason: a bind retried every 2 s succeeds once the address is free.
  - The peer, the user and the application's own calls (`PeerClose`, `UserInterrupt`, `Disconnect`, `AppStopCall`) have no fairness: nothing obliges them to act.
  - `LoopIdle` (the 0.1 s idle `step`) is left outside `MainThread`, so an idle loop is not counted as progress.

`CHECK_DEADLOCK FALSE` is set in these cfgs only:
- The stream cfgs: once everything has been delivered, an idle connection has no enabled step, and that is the normal state of an idle connection.
- `MCPompContext.cfg`: the process ends in `mpc = "done"`. Any other state with no step is a hang, which `Termination` reports with its trace; the mutant `SockCheckForever` shows it does.
- `MCPompContext_Timeout.cfg`: for the same reason.
- `MCPompContext_DgramSend.cfg`: for the same reason.
- `MCPompContext_Server.cfg`: a datagram context hangs in `stop` when its loop ends with a `_CONN_ADD` queued, as a client does (`context_client_timeout`). The invariants are still checked in every state, and `StopReturns` checks that a server's stop never hangs.

The message runs and the other context runs check deadlock.

## 4. Plan and what is not modelled yet

Modules, in order:

1. PompBuffer, PompCodec, PompMessage (done).
2. PompProtocol with PompChannel/PompStream (done).
3. PompContext (done): client, server and datagram contexts, with pompcli's App.
4. **Datagram bytes** (next): `recvfrom`'s 1024-byte truncation and the framer kept across datagrams, as a datagram variant of PompStream.

Not modelled:

- `parseArgs` (optparse) and `setupLog` (logging): library configuration. `Main` takes their result, the Options record.
- The spec's usage line shows an `[<addrto>]` after `<addr>`, but `main` reads no such argument; the model follows the code.
- A port outside 0..65535 (or written `-1`, ` 7`) passes `parseAddr`. `connect`/`bind` then raise `OverflowError` in the socket thread, which is not caught there (hazard `__init__.py:49`). The sockets' range check and a thread dying of an exception are not modelled.
- Logging and `dump`'s text rendering.
- Float values other than integral ones and π: rounding is outside what TLC can enumerate. The two π cases keep the F32 rounding.
- The `unittest` file.
- `looper.stepLoop`, which nothing in the repository calls.
- `Connection.peerAddr`, `sendMsgTo` and `_WRITE_MSG_TO`. Nothing in the repository calls `sendMsgTo`, and pompcli never sends in datagram mode, so no caller reads `peerAddr`.
- Datagram bytes: truncation at 1024 and the framer across datagrams (item 4).
- A `KeyboardInterrupt` raised outside `runLoop`'s wait, for example during `stop`.
- The order of `recvMessage` after `onDisconnected` for a connection the application disconnected. TLC reaches it (`context.py:172`), but the spec gives the callbacks no order, so no property is checked.
- These runs are modelled, but not among the project's runs:
  - the empty-header check at the Message level (`stream_empty_message` shows the same bug end to end);
  - the trailing `%`;
  - out-of-range ints read back unmasked (`%d` of 2^(W32-1) reads -1, where spec 4.2 says masked); the property and its run were dropped to keep the number of runs;
  - garbage ending in `P` makes the framer lose the next frame (spec 9 says it is skipped): `ChannelSpec` fails with `Noise = {<<80>>}`;
  - Encoder re-init or a read before finish, which the spec forbids the caller (`PompMessage`'s `EncoderMisuse` and `ReadBeforeFinish` constants).
