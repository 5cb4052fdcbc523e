-------------------------------- MODULE FakeTls --------------------------------
(***************************************************************************)
(* FakeTlsStream of src/proxy/fake_tls.py: the client's bytes come and go  *)
(* in records that look like TLS.  Operators only.                         *)
(*                                                                         *)
(* A wire is a sequence of items <<value, position, key>>: a byte with its *)
(* place in a key stream, or, with the key Plain, the header of a record   *)
(* <<length, type, Plain>>.                                                *)
(***************************************************************************)
EXTENDS Integers, SequencesExt

CONSTANTS
  TlsChunk,    \* 65536, the most one read of a record body returns
  AppDataMax   \* TLS_APPDATA_MAX

ASSUME ChunkAssumption == {TlsChunk, AppDataMax} \subseteq Nat \ {0}

Plain   == -1
CCS     == 20
ALERT   == 21
APPDATA == 23

Record(type, length) == <<length, type, Plain>>

\* Items of the change-cipher records at the front, which readers skip.
CcsLength(wire) ==
  LET after[i \in 0..Len(wire)] ==
        IF /\ i < Len(wire)
           /\ wire[i + 1] = Record(CCS, wire[i + 1][1])
           /\ i + 1 + wire[i + 1][1] <= Len(wire)
        THEN after[i + 1 + wire[i + 1][1]] ELSE i
  IN after[0]

Taken(left, wire, data) == [left |-> left, wire |-> wire, data |-> data]

AfterCcs(wire) == SubSeq(wire, CcsLength(wire) + 1, Len(wire))

\* Every outcome of _read_tls_payload on what may have arrived, where left bytes
\* of the current record are still to come.  No data is the end of the stream: a
\* record of another type ends it, and so does an empty one, because read(0)
\* returns nothing.  At the end of the connection see EndRaises.
Payloads(left, wire) ==
  LET w   == AfterCcs(wire)
      len == w[1][1]
  IN IF left > 0
     THEN {Taken(left - k, SubSeq(wire, k + 1, Len(wire)), SubSeq(wire, 1, k)) :
             k \in 1..Min({left, Len(wire)})}
     ELSE IF w = <<>> THEN {}
     ELSE IF w[1][2] # APPDATA \/ len = 0 THEN {Taken(0, Tail(w), <<>>)}
     ELSE {Taken(len - k, SubSeq(w, k + 2, Len(w)), SubSeq(w, 2, k + 1)) :
             k \in 1..Min({len, TlsChunk, Len(w) - 1})}

\* When the connection ends, a header is read with readexactly, which raises, the
\* body of a record with read, which returns nothing.
EndRaises(left, wire) ==
  left = 0 /\ (AfterCcs(wire) = <<>> \/ AfterCcs(wire)[1][2] # APPDATA)

WrapOneRecord(data) ==
  IF data = <<>> THEN <<>> ELSE <<Record(APPDATA, Len(data))>> \o data

\* wrap_tls_record: as many records as the length needs, none for no data.
WrapTlsRecord(data) ==
  LET Part(i) == SubSeq(data, (i - 1) * AppDataMax + 1, Min({i * AppDataMax, Len(data)}))
  IN FlattenSeq([i \in 1..((Len(data) + AppDataMax - 1) \div AppDataMax) |->
                   <<Record(APPDATA, Len(Part(i)))>> \o Part(i)])

================================================================================
