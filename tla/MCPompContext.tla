--------------------------- MODULE MCPompContext ---------------------------
(* Model values for PompContext: two Connection objects (for a client, a  *)
(* connect and a reconnect after the first goes; for a server, two peers  *)
(* accepted), one message per peer.  The constants that pompcli's command  *)
(* line decides (the Context's start, -d, -t, the message and whether its  *)
(* send raises) are checked against what PompCli makes of the lines Cmds. *)
EXTENDS PompContext, PompCli, FiniteSets

CONSTANTS c1, c2, Cmds

MCConns == {c1, c2}

\* Varint widths for the codec, as in MCPompMessage.
MCW32 == 12
MCW64 == 20

\* Command-line strings, as code points.
ADDR  == <<105, 110, 101, 116, 58, 104, 58, 55>>     \* "inet:h:7"
ID42  == <<52, 50>>                                  \* "42"
FMT_D == <<37, 100>>                                 \* "%d"
ARG5  == <<53>>                                      \* "5"

Opt(s, u, d, t) == [server |-> s, udp |-> u, dump |-> d, timeout |-> t]
Line(o, args) == [o |-> o, args |-> args]

\* pompcli inet:h:7 42 %d 5 (with -t 1: ClientSendTimeout)
ClientSend == {Line(Opt(FALSE, FALSE, FALSE, -1), <<ADDR, ID42, FMT_D, ARG5>>)}
ClientSendTimeout == {Line(Opt(FALSE, FALSE, FALSE, 1), <<ADDR, ID42, FMT_D, ARG5>>)}
\* pompcli inet:h:7 42: a message id, no format, no arguments
ClientIdOnly == {Line(Opt(FALSE, FALSE, FALSE, -1), <<ADDR, ID42>>)}
\* pompcli -u -d inet:h:7, and pompcli -u inet:h:7 42 %d 5
DgramDump == {Line(Opt(FALSE, TRUE, TRUE, -1), <<ADDR>>)}
DgramSend == {Line(Opt(FALSE, TRUE, FALSE, -1), <<ADDR, ID42, FMT_D, ARG5>>)}
\* pompcli -s -d inet:h:7 42 %d 5 and pompcli -u -d -t 1 inet:h:7 42 %d 5
ServerAndDgram == {Line(Opt(TRUE, FALSE, TRUE, -1), <<ADDR, ID42, FMT_D, ARG5>>),
                   Line(Opt(FALSE, TRUE, TRUE, 1), <<ADDR, ID42, FMT_D, ARG5>>)}
\* pompcli -s -d -t 1 inet:h:7, and the same without -t
ServerDumpTimeout == {Line(Opt(TRUE, FALSE, TRUE, 1), <<ADDR>>)}
ServerDump == {Line(Opt(TRUE, FALSE, TRUE, -1), <<ADDR>>)}

\* pompcli inet:h:7 42 %d x: "x" is no int, so ctx.send raises
\* EncodeException (the path of OnConnected where ex.message raises).
ClientBadArg == {Line(Opt(FALSE, FALSE, FALSE, -1), <<ADDR, ID42, FMT_D, <<120>>>>)}
ASSUME \A l \in ClientBadArg : SendRaised(Main(l.o, l.args)) = "EncodeException"

Apps == {Main(l.o, l.args) : l \in Cmds}

\* Every line runs the App, each line starts the Context its own way, and
\* the lines of one model differ at most in that and in -t.
ASSUME \A a \in Apps : a.exit = 0
ASSUME Cardinality({StartMode(a) : a \in Apps}) = Cardinality(Apps)
ASSUME Cardinality({[d |-> a.dump, m |-> a.hasmsg, x |-> SendRaised(a)] : a \in Apps}) = 1

\* The configuration's values of PompContext's constants are those the
\* command lines give.
ASSUME Dump = \A a \in Apps : a.dump
ASSUME Timeout = {StartMode(a) : a \in {a \in Apps : a.timeout >= 0}}
ASSUME HasMsg = \A a \in Apps : a.hasmsg
ASSUME \A a \in Apps : a.hasmsg => SendExc = SendRaised(a)
ASSUME Modes = {StartMode(a) : a \in Apps}

\* Lines for the usage check: every <addr> form, a malformed address of
\* each kind, a message id or not, a bad one, with and without -d.
UsageAddrList == {ADDR,
                  <<105, 110, 101, 116, 54, 58, 58, 58, 49, 58, 55>>,  \* "inet6:::1:7"
                  <<117, 110, 105, 120, 58, 64, 97, 98>>,              \* "unix:@ab"
                  <<117, 110, 105, 120, 58, 47, 115>>,                 \* "unix:/s"
                  <<105, 110, 101, 116, 58, 104>>,                     \* "inet:h"
                  <<105, 110, 101, 116, 58, 104, 58, 120>>,            \* "inet:h:x"
                  <<116, 99, 112, 58, 104, 58, 55>>}                   \* "tcp:h:7"
UsageLines ==
    {Line(Opt(FALSE, FALSE, d, -1), args) :
        d \in BOOLEAN,
        args \in {<<>>} \cup {<<a>> : a \in UsageAddrList}
                 \cup {<<a, id>> : a \in UsageAddrList, id \in {ID42, <<120>>}}
                 \cup {<<a, ID42, FMT_D, ARG5>> : a \in UsageAddrList}}

\* pompcli accepts the command lines of its usage text, with the address
\* and message id they denote (pomp.parseAddr splitting host from port at
\* the last ':'), and exits 1 on the others (pompcli.main).  A constant
\* fact, so TLC checks it as an assumption when any run of this module
\* starts.
UsageAccepted == \A l \in UsageLines : UsageHolds(l.o, l.args)
ASSUME UsageAccepted
=============================================================================
