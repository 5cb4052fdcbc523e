------------------------------ MODULE MsgSplitter ------------------------------
(***************************************************************************)
(* MsgSplitter of src/proxy/bridge.py: cuts the upload stream of a client  *)
(* into the packets of the MTProto transport, so that each becomes one     *)
(* WebSocket frame.  Operators only: ClientSession holds the state.        *)
(*                                                                         *)
(* Lengths are read from the plain text, the parts are cut from the cipher *)
(* text.  Bytes are 0 .. 2 * High - 1, where High is 0x80 of the code.     *)
(***************************************************************************)
EXTENDS Integers, SequencesExt

CONSTANTS
  High,         \* 0x80, the quick-acknowledge bit of an abridged header
  Word,         \* 4: abridged lengths count words
  LongBytes,    \* 3: length bytes after the abridged marker 0x7F or 0xFF
  FieldBytes,   \* 4: length bytes of the intermediate transports
  None

ASSUME SplitterAssumption ==
  /\ {High, Word, LongBytes, FieldBytes} \subseteq Nat \ {0}
  /\ None \notin Int

\* A field of FieldBytes bytes without its top bit holds numbers up to a positive one
\* (the provers know nothing of powers).
ASSUME FieldAssumption == High * (2 * High)^(FieldBytes - 1) \in Nat \ {0}

Drop(s, n) == SubSeq(s, n + 1, Len(s))

LittleEndian(bytes) ==
  LET from[i \in 1..(Len(bytes) + 1)] ==
        IF i = Len(bytes) + 1 THEN 0 ELSE bytes[i] + 2 * High * from[i + 1]
  IN from[1]

\* An empty payload is not a packet; a packet that has not arrived waits.
Sized(header, payload, plain) ==
  IF payload = 0 THEN 0
  ELSE IF Len(plain) < header + payload THEN None
  ELSE header + payload

NextAbridgedLen(plain) ==
  LET short  == plain[1] % High
      long   == short = High - 1
      header == IF long THEN 1 + LongBytes ELSE 1
  IN IF Len(plain) < header THEN None
     ELSE Sized(header,
                Word * (IF long THEN LittleEndian(SubSeq(plain, 2, header)) ELSE short),
                plain)

NextIntermediateLen(plain) ==
  IF Len(plain) < FieldBytes THEN None
  ELSE Sized(FieldBytes,
             LittleEndian(SubSeq(plain, 1, FieldBytes))
               % (High * (2 * High)^(FieldBytes - 1)),
             plain)

NextPacketLen(proto, plain) ==
  IF proto = "abridged" THEN NextAbridgedLen(plain) ELSE NextIntermediateLen(plain)

NewSplitter(proto) ==
  [proto |-> proto, cipher |-> <<>>, plain |-> <<>>, disabled |-> FALSE]

\* split(): the parts to send and the splitter afterwards.
Split(sp, chunk, plain) ==
  LET c == sp.cipher \o chunk
      p == sp.plain \o plain
      loop[o \in 0..Len(c)] ==
        LET n == IF o = Len(c) THEN None ELSE NextPacketLen(sp.proto, Drop(p, o))
        IN IF n = None
           THEN [parts |-> <<>>, offset |-> o, disabled |-> FALSE]
           ELSE IF n = 0
           THEN [parts |-> <<Drop(c, o)>>, offset |-> Len(c), disabled |-> TRUE]
           ELSE [loop[o + n] EXCEPT !.parts = <<SubSeq(c, o + 1, o + n)>> \o @]
      end == loop[0]
  IN IF sp.disabled
     THEN [parts |-> <<chunk>>, sp |-> sp]
     ELSE [parts |-> end.parts,
           sp    |-> [sp EXCEPT !.cipher = Drop(c, end.offset),
                                !.plain = Drop(p, end.offset),
                                !.disabled = end.disabled]]

\* flush(): the tail, if any, and the splitter without it.
Flush(sp) ==
  [parts |-> IF sp.cipher = <<>> THEN <<>> ELSE <<sp.cipher>>,
   sp    |-> [sp EXCEPT !.cipher = <<>>, !.plain = <<>>]]

================================================================================
