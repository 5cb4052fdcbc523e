----------------------------- MODULE ReplyStream -----------------------------
(***************************************************************************)
(* What a channel promises the Telegram client of the replies that arrive  *)
(* over HTTP/2 (_HttpChannel and bridge_h2 of src/proxy/cf_h2.py): they    *)
(* are handed on one after another, in the order in which they were        *)
(* accepted; few of them wait; the stream ends once, what waits is dropped *)
(* then, and if it ended with a transport error, the client may be told    *)
(* so, once, with nothing after it.                                        *)
(***************************************************************************)
EXTENDS Integers, Sequences

CONSTANTS
  Channels,
  Lengths,         \* of replies
  QueueSize,       \* how many may wait
  MaxChannelBytes  \* and of what length together

VARIABLES
  waiting,  \* the replies that wait
  bytes,    \* their length
  ended,    \* the stream has ended
  error,    \* with a transport error
  told      \* which the client was told

vars == <<waiting, bytes, ended, error, told>>

Init ==
  /\ waiting = [c \in Channels |-> <<>>]
  /\ bytes = [c \in Channels |-> 0]
  /\ ended = [c \in Channels |-> FALSE]
  /\ error = [c \in Channels |-> FALSE]
  /\ told = [c \in Channels |-> FALSE]

Accept(c, n) ==
  /\ ~ended[c]
  /\ Len(waiting[c]) < QueueSize
  /\ bytes[c] + n <= MaxChannelBytes
  /\ waiting' = [waiting EXCEPT ![c] = Append(@, n)]
  /\ bytes' = [bytes EXCEPT ![c] = @ + n]
  /\ UNCHANGED <<ended, error, told>>

Deliver(c) ==
  /\ ~ended[c]
  /\ waiting[c] # <<>>
  /\ waiting' = [waiting EXCEPT ![c] = Tail(@)]
  /\ bytes' = [bytes EXCEPT ![c] = @ - Head(waiting[c])]
  /\ UNCHANGED <<ended, error, told>>

End(c) ==
  /\ ~ended[c]
  /\ ended' = [ended EXCEPT ![c] = TRUE]
  /\ \E e \in BOOLEAN : error' = [error EXCEPT ![c] = e]
  /\ waiting' = [waiting EXCEPT ![c] = <<>>]
  /\ bytes' = [bytes EXCEPT ![c] = 0]
  /\ UNCHANGED told

Tell(c) ==
  /\ error[c] /\ ~told[c]
  /\ told' = [told EXCEPT ![c] = TRUE]
  /\ UNCHANGED <<waiting, bytes, ended, error>>

Next ==
  \E c \in Channels :
    \/ \E n \in Lengths : Accept(c, n)
    \/ Deliver(c)
    \/ End(c)
    \/ Tell(c)

Spec == Init /\ [][Next]_vars
=============================================================================
