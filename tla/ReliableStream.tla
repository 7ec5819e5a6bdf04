---------------------------- MODULE ReliableStream ----------------------------
(***************************************************************************)
(* What a tunnel session promises in each direction: a pipe of at most     *)
(* Window chunks that are written and not received, read in order and      *)
(* exactly once.  Frames, acknowledgements and retransmissions are not     *)
(* visible here; TunnelSession implements this module.                     *)
(***************************************************************************)
EXTENDS Integers, Sequences

CONSTANTS Ends, Peer(_), Window

VARIABLES
  written,   \* written[e]: chunks e has put in its pipe
  stream,    \* stream[e]: the chunks that came out of the pipe at e
  taken      \* taken[e]: how many of them e's application has read

vars == <<written, stream, taken>>

Init ==
  /\ written = [e \in Ends |-> 0]
  /\ stream = [e \in Ends |-> <<>>]
  /\ taken = [e \in Ends |-> 0]

\* write(): the next chunk enters the pipe if there is room for it.
Put(e) ==
  /\ written[e] < Len(stream[Peer(e)]) + Window
  /\ written' = [written EXCEPT ![e] = @ + 1]
  /\ UNCHANGED <<stream, taken>>

\* Some of the chunks in the pipe come out, in the order they went in.
Arrive(e) ==
  /\ \E n \in 1 .. written[Peer(e)] - Len(stream[e]) :
       stream' = [stream EXCEPT ![e] = @ \o [i \in 1 .. n |-> Len(@) + i]]
  /\ UNCHANGED <<written, taken>>

\* read(): the application takes what has arrived, or part of it.
Get(e) ==
  /\ \E n \in 1 .. Len(stream[e]) - taken[e] : taken' = [taken EXCEPT ![e] = @ + n]
  /\ UNCHANGED <<written, stream>>

Next == \E e \in Ends : Put(e) \/ Arrive(e) \/ Get(e)

Spec == Init /\ [][Next]_vars
=============================================================================
