---------------------------- MODULE MCClientSession ----------------------------
(***************************************************************************)
(* Instance of ClientSession: one client that talks and one that connects  *)
(* only.  Bytes are octal digits, of which 4 is the quick-acknowledge bit  *)
(* and 3 or 7 the marker of a long length.                                 *)
(***************************************************************************)
EXTENDS ClientSession

CONSTANTS Talker, Other, Dc

Dcs == {Dc}
Clients == {Talker, Other}

Everything ==
  [masking |-> TRUE, proxyLine |-> FALSE, worker |-> TRUE, cf |-> TRUE, h2 |-> TRUE]
Bare ==
  [masking |-> FALSE, proxyLine |-> TRUE, worker |-> FALSE, cf |-> FALSE, h2 |-> FALSE]
BothConfigs == {Everything, Bare}

Frm(op, fin, data) == [op |-> op, fin |-> fin, data |-> data]

\* A message in two fragments with a ping between them, one longer than a TLS record,
\* and a close.
Talk ==
  [frames   |-> <<Frm(OP_BINARY, FALSE, <<1>>), Frm(OP_PING, TRUE, <<0>>),
                  Frm(OP_CONT, TRUE, <<2, 3>>), Frm(OP_PONG, TRUE, <<>>),
                  Frm(OP_BINARY, TRUE, <<4, 5, 6, 7, 0>>), Frm(OP_CLOSE, TRUE, <<1, 2, 3>>)>>,
   messages |-> <<<<1, 2, 3>>, <<4, 5, 6, 7, 0>>>>]

\* A message beyond the limit, in fragments; and a frame beyond it.
TooLong ==
  [frames   |-> <<Frm(OP_TEXT, TRUE, <<7>>), Frm(OP_BINARY, FALSE, <<1, 2, 3, 4>>),
                  Frm(OP_CONT, TRUE, <<5, 6, 7>>), Frm(OP_BINARY, TRUE, <<3>>)>>,
   messages |-> <<<<7>>>>]
TooLongFrame ==
  [frames   |-> <<Frm(OP_BINARY, TRUE, <<1, 2, 3, 4, 5, 6, 7>>), Frm(OP_BINARY, TRUE, <<3>>)>>,
   messages |-> <<>>]

Brief == [frames |-> <<Frm(OP_PING, TRUE, <<6>>), Frm(OP_BINARY, TRUE, <<5>>)>>,
          messages |-> <<<<5>>>>]

Client(hello, good, proto, records, packets, whole, server) ==
  [hello |-> hello, good |-> good, media |-> FALSE, test |-> FALSE, dst |-> Dc,
   proto |-> proto, records |-> records, packets |-> packets, whole |-> whole,
   frames |-> server.frames, messages |-> server.messages, deaf |-> {}]

Silent == [frames |-> <<>>, messages |-> <<>>]

Talkers ==
  { \* a short packet, to be acknowledged quickly, and a long one; records with a change-cipher record
    \* among them, the last one cut off
    Client("tls", TRUE, "abridged", <<3, 0, 4, 9>>,
           <<<<5, 3, 3>>, <<7, 1, 1, 2>>>>, 2, Brief),
    \* a packet that does not end, in whole records
    Client("tls", TRUE, "intermediate", <<4, 7>>,
           <<<<2, 0, 7, 7>>, <<2, 4, 1, 1>>, <<3>>>>, 2, TooLong),
    \* the same over a plain connection, and one without length
    Client("other", TRUE, "intermediate", <<>>,
           <<<<2, 4, 7, 7>>, <<2, 0>>>>, 1, TooLongFrame),
    Client("tls", TRUE, "abridged", <<3, 5>>,
           <<<<3, 1, 5, 6>>, <<4, 1>>>>, 1, Talk),
    \* who does not get as far, or by other ways
    Client("forged", TRUE, "abridged", <<>>, <<>>, 0, Silent),
    [Client("tls", TRUE, "abridged", <<2>>, <<>>, 0, Silent) EXCEPT !.media = TRUE],
    [Client("tls", TRUE, "abridged", <<2>>, <<>>, 0, Silent) EXCEPT !.dst = None,
                                                                !.test = TRUE] }
    \cup
  { \* who does not read, or whose server does not, when it ends
    [Client("tls", TRUE, "abridged", <<2>>, <<>>, 0, Silent) EXCEPT !.deaf = d] :
      d \in {{"client"}, {"server"}} }
    \cup
  { [Client("forged", TRUE, "abridged", <<>>, <<>>, 0, Silent) EXCEPT !.deaf = {"client"}] }

Others ==
  { Client("other", TRUE, "abridged", <<>>, <<>>, 0, Silent),
    Client("other", FALSE, "abridged", <<>>, <<>>, 0, Silent) }

ScriptsOf == [s \in Clients |-> IF s = Talker THEN Talkers ELSE Others]
================================================================================
