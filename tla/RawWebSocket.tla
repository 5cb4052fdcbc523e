----------------------------- MODULE RawWebSocket -----------------------------
(***************************************************************************)
(* Frames of RawWebSocket, src/proxy/raw_websocket.py: how one is built,   *)
(* how one is read, and what recv() does with it.  Operators only.         *)
(*                                                                         *)
(* A frame on the wire is <<first, 0, Frame>>, its length in one of three  *)
(* forms, and its payload; first is the opcode, plus Fin if it is the last *)
(* frame of a message.  Masking is left out: it is undone by the reader.   *)
(***************************************************************************)
EXTENDS Integers, SequencesExt

CONSTANTS
  Small,       \* 126: from here on the length has a field of 16 bits
  Medium,      \* 65536: from here on one of 64 bits
  MaxMessage   \* MAX_MESSAGE_LEN

ASSUME LengthAssumption == {Small, Medium, MaxMessage} \subseteq Nat

OP_CONT   == 0
OP_TEXT   == 1
OP_BINARY == 2
OP_CLOSE  == 8
OP_PING   == 9
OP_PONG   == 10
Fin       == 16

Frame == -2
Header(x) == <<x, 0, Frame>>

LengthField(n) ==
  IF n < Small THEN <<Header(n)>>
  ELSE IF n < Medium THEN <<Header(Small), Header(n)>>
  ELSE <<Header(Small + 1), Header(n)>>

\* A frame that is not the last of its message comes from the peer only.
EncodeFrame(op, fin, data) ==
  <<Header(op + (IF fin THEN Fin ELSE 0))>> \o LengthField(Len(data)) \o data

BuildFrame(op, data) == EncodeFrame(op, TRUE, data)

\* _read_frame: the first frame of a wire and its size there.
ReadFrame(wire) ==
  LET first == wire[1][1]
      long  == wire[2][1] >= Small
      len   == IF long THEN wire[3][1] ELSE wire[2][1]
      head  == IF long THEN 3 ELSE 2
  IN [op |-> first % Fin, fin |-> first >= Fin, len |-> len, size |-> head + len,
      data |-> SubSeq(wire, head + 1, head + len)]

\* What recv() does with the next frame: deliver a message, wait for more, answer
\* a ping, stop for a close frame, or raise.  frag holds the fragments so far.
Recv(frag, wire) ==
  LET f      == ReadFrame(wire)
      joined == frag \o f.data
      Does(what, rest, message) == [does |-> what, frag |-> rest, data |-> message]
  IN IF f.len > MaxMessage THEN Does("raise", frag, <<>>)
     ELSE CASE f.op = OP_CLOSE -> Does("close", frag, SubSeq(f.data, 1, Min({2, f.len})))
            [] f.op = OP_PING  -> Does("pong", frag, f.data)
            [] f.op \notin {OP_CONT, OP_TEXT, OP_BINARY, OP_CLOSE, OP_PING}
                               -> Does("skip", frag, <<>>)
            [] f.op \in {OP_CONT, OP_TEXT, OP_BINARY} ->
                 IF f.fin /\ frag = <<>> THEN Does("deliver", <<>>, f.data)
                 ELSE IF Len(joined) > MaxMessage THEN Does("raise", frag, <<>>)
                 ELSE IF ~f.fin THEN Does("skip", joined, <<>>)
                 ELSE Does("deliver", <<>>, joined)

================================================================================
