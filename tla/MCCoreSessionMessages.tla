------------------------ MODULE MCCoreSessionMessages ------------------------
(* The registrations of CoreSession (coresession.cpp:100-107) for one line of  *)
(* each sort: a QUIT, numerics with and without handlers of their own, *)
(* a list reply, a CTCP query, and the message events they end in.             *)
EXTENDS CoreSessionMessages
Low == 1
Normal == 2
High == 3
H(o, e, p, l) == [object |-> o, event |-> e, priority |-> p, late |-> l]
RegisteredValue == <<
  H("parser", "incoming", Normal, FALSE),
  H("sessionproc", "numeric", High, FALSE),
  H("sessionproc", "quit", High, FALSE),
  H("sessionproc", "301", High, FALSE),
  H("sessionproc", "322", High, FALSE),
  H("sessionproc", "ctcpgroup", High, FALSE),
  H("ctcp", "rawprivmsg", Normal, FALSE),
  H("stringifier", "numeric", Normal, FALSE),
  H("stringifier", "quit", Normal, FALSE),
  H("stringifier", "301", Normal, FALSE),
  H("stringifier", "314", Normal, FALSE),
  H("stringifier", "322", Normal, FALSE),
  H("stringifier", "ctcpgroup", Normal, FALSE),
  H("session", "message", Low, FALSE),
  H("sessionproc", "quit", Low, TRUE),
  H("ctcp", "ctcpgroup", Low, TRUE) >>
KeysValue == [
  incoming |-> <<"incoming">>, message |-> <<"message">>,
  quit |-> <<"quit">>, rawprivmsg |-> <<"rawprivmsg">>,
  n301 |-> <<"301", "numeric">>, n314 |-> <<"314", "numeric">>, n322 |-> <<"322", "numeric">>,
  n903 |-> <<"903", "numeric">>,
  ctcp |-> <<"ctcpgroup">>, flush |-> <<"ctcpflush", "ctcpgroup">>]
Lines == {<<"quit">>, <<"n301">>, <<"n314">>, <<"n322">>, <<"n903">>, <<"rawprivmsg">>,
          <<"rawprivmsg", "rawprivmsg">>}
SendsOf(h) ==
  LET r == Registered[h]
  IN CASE r.object = "parser" -> Lines \union {<< >>}
       [] r.object = "stringifier" -> {<<"message">>, << >>}
       [] r.object = "ctcp" /\ r.event = "rawprivmsg" -> {<<"message">>, <<"ctcp", "flush">>}
       [] OTHER -> {<< >>}
SendsValue == [h \in 1 .. 16 |-> SendsOf(h)]
StoppersValue == {4, 5, 9, 10, 12}
=============================================================================
