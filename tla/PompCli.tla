------------------------------- MODULE PompCli -------------------------------
(***************************************************************************)
(* pompcli.main and pomp.parseAddr: what a pompcli command line makes of   *)
(* the App that PompContext runs.  A command-line string is a sequence of  *)
(* code points.  main either exits 1 with a message on stderr or           *)
(* runs the App; App.run then starts the Context with bind, listen or      *)
(* connect, and App.onConnected sends the message the line gave, through  *)
(* Message.write (PompCodec).                                              *)
(***************************************************************************)
EXTENDS Integers, Sequences, SequencesExt, PompCodec

COLON == 58
AT    == 64
NUL   == 0
INET  == <<105, 110, 101, 116, 58>>           \* "inet:"
INET6 == <<105, 110, 101, 116, 54, 58>>       \* "inet6:"
UNIX  == <<117, 110, 105, 120, 58>>           \* "unix:"

\* buf[n:]
Drop(buf, n) == SubSeq(buf, n + 1, Len(buf))

\* The result of parseAddr: ok is FALSE where it raises ValueError.
Addr(family, host, port, path) ==
    [ok |-> TRUE, family |-> family, host |-> host, port |-> port, path |-> path]
AddrError == [ok |-> FALSE, family |-> "none", host |-> <<>>, port |-> 0, path |-> <<>>]

\* Faulty variant of parseInetAddr: buf.find(":") in place of rfind.
ParseInetAddrFirstColon(family, buf) ==
    LET sep == SelectInSeq(buf, LAMBDA ch : ch = COLON)
        port == Drop(buf, sep)
    IN  IF sep = 0 \/ ~IsIntStr(port) THEN AddrError
        ELSE Addr(family, SubSeq(buf, 1, sep - 1), IntOf(port), <<>>)

\* parseInetAddr: split at the last ':', the port through int().
ParseInetAddr(family, buf) ==
    LET sep == SelectLastInSeq(buf, LAMBDA ch : ch = COLON)
        port == Drop(buf, sep)
    IN  IF sep = 0 \/ ~IsIntStr(port) THEN AddrError
        ELSE Addr(family, SubSeq(buf, 1, sep - 1), IntOf(port), <<>>)

\* (108 - len(path)) * "\x00": no bytes when the count is not positive.
Nuls(n) == [i \in 1..n |-> NUL]

\* parseAddr: an "@" path is an abstract name, NUL first, NUL-padded.
ParseAddr(buf) ==
    LET path == Drop(buf, 5)
    IN  CASE IsPrefix(INET, buf)  -> ParseInetAddr("AF_INET", Drop(buf, 5))
          [] IsPrefix(INET6, buf) -> ParseInetAddr("AF_INET6", Drop(buf, 6))
          [] IsPrefix(UNIX, buf)  ->
               Addr("AF_UNIX", <<>>, 0,
                    IF path # <<>> /\ Head(path) = AT
                    THEN <<NUL>> \o Tail(path) \o Nuls(108 - Len(path))
                    ELSE path)
          [] OTHER                -> AddrError

\* A format string as the codec reads it: its characters.
FmtChar == (37 :> "%") @@ (100 :> "d") @@ (105 :> "i") @@ (117 :> "u")
           @@ (115 :> "s") @@ (112 :> "p") @@ (102 :> "f") @@ (108 :> "l")
           @@ (104 :> "h") @@ (120 :> "x") @@ (32 :> " ")
FmtOf(s) == [i \in DOMAIN s |-> FmtChar[s[i]]]

\* The options parseArgs gives: -s, -u, -d, -t <timeout> (-1 by default).
Options == [server : BOOLEAN, udp : BOOLEAN, dump : BOOLEAN, timeout : Int]

\* App.__init__(options): no message yet, msgfmt and msgargs None.
AppInit(o) ==
    [exit |-> 0, server |-> o.server, udp |-> o.udp, dump |-> o.dump,
     timeout |-> o.timeout, addr |-> AddrError, hasmsg |-> FALSE, msgid |-> 0,
     msgfmt |-> NoneFmt, hasargs |-> FALSE, msgargs |-> <<>>]

\* main: the address, then the message id (required unless dumping), the
\* format and the arguments, each optional; the arguments are str values.
\* exit is 1, or 0 where app.run() is called and sys.exit(0) follows.
Main(o, args) ==
    LET addr  == ParseAddr(args[1])
        r1    == Tail(args)
        hasId == r1 # <<>>
        r2    == IF hasId THEN Tail(r1) ELSE r1
        r3    == IF r2 # <<>> THEN Tail(r2) ELSE r2
    IN  CASE args = <<>>               -> [exit |-> 1]
          [] ~addr.ok                  -> [exit |-> 1]
          [] hasId /\ ~IsIntStr(r1[1]) -> [exit |-> 1]
          [] ~hasId /\ ~o.dump         -> [exit |-> 1]
          [] OTHER ->
               [AppInit(o) EXCEPT
                  !.addr = addr, !.hasmsg = hasId,
                  !.msgid = IF hasId THEN IntOf(r1[1]) ELSE @,
                  !.msgfmt = IF r2 # <<>> THEN FmtOf(r2[1]) ELSE @,
                  !.hasargs = r3 # <<>>,
                  !.msgargs = [i \in DOMAIN r3 |-> [t |-> "str", v |-> r3[i]]]]

\* App.run: Context.bind if -u, else listen if -s, else connect.
StartMode(app) ==
    IF app.udp THEN "dgram" ELSE IF app.server THEN "server" ELSE "client"

\* What App.onConnected's ctx.send(msgid, msgfmt, *msgargs) raises:
\* TypeError when msgargs is None, else what Message.write raises
\* (NoExc, "none", when it does not).
SendRaised(app) ==
    IF ~app.hasargs THEN "TypeError"
    ELSE MessageWrite(app.msgid, app.msgfmt, app.msgargs).b.exc
-----------------------------------------------------------------------------
(* The usage text and the spec's exit rule                                 *)

\* A decimal numeral, as <port> and <msgid> are written.
Numeral(s) == s # <<>> /\ \A i \in DOMAIN s : s[i] \in DecimalDigits

\* What the usage text's <addr> forms denote: inet:<addr>:<port>,
\* inet6:<addr>:<port>, unix:<path>, and unix:@<name>, the abstract
\* socket name, a 108-byte sun_path of NUL, the name, then NULs.
UsageAddrs(buf) ==
    LET Inet(pre, family) ==
          { Addr(family, SubSeq(buf, Len(pre) + 1, k - 1), IntOf(Drop(buf, k)), <<>>) :
              k \in { k \in Len(pre) + 1..Len(buf) :
                        IsPrefix(pre, buf) /\ buf[k] = COLON /\ Numeral(Drop(buf, k)) } }
        name == Drop(buf, 6)
        Unix == IF ~IsPrefix(UNIX, buf) THEN {}
                ELSE IF Len(buf) > 5 /\ buf[6] = AT
                THEN { Addr("AF_UNIX", <<>>, 0, p) :
                         p \in { [i \in 1..108 |-> IF i \in 2..Len(name) + 1
                                                  THEN name[i - 1] ELSE NUL] } }
                ELSE { Addr("AF_UNIX", <<>>, 0, Drop(buf, 5)) }
    IN  Inet(INET, "AF_INET") \cup Inet(INET6, "AF_INET6") \cup Unix

\* The spec: exit 1 on a missing or unparsable address or message id (the
\* id may be left out with -d); otherwise the App runs with the address
\* the usage text gives and the id's value.  Stated for lines whose port
\* and id are numerals or hold a letter, where the spec is clear.
UsageHolds(o, args) ==
    LET r == Main(o, args)
        bad == \/ args = <<>>
               \/ UsageAddrs(args[1]) = {}
               \/ Len(args) >= 2 /\ ~Numeral(args[2])
               \/ Len(args) < 2 /\ ~o.dump
    IN  /\ (r.exit = 1) = bad
        /\ r.exit = 0 =>
              /\ r.addr \in UsageAddrs(args[1])
              /\ r.hasmsg = (Len(args) >= 2)
              /\ r.hasmsg => r.msgid = IntOf(args[2])
=============================================================================
