----------------------------- MODULE ReadStream -----------------------------
(***************************************************************************)
(* What TCPConn.Read promises its callers, with no threads and no locks:   *)
(* every connection is a byte queue, the receive loop appends to it one    *)
(* byte at a time, and a Read removes one contiguous batch from its front  *)
(* in a single indivisible step.  TCPConn implements this specification.   *)
(***************************************************************************)
EXTENDS Integers, Sequences

CONSTANTS Conn,     \* the connections
          Byte      \* the values of a byte

VARIABLES queue,    \* queue[c]: bytes received on c that no Read has returned
          taken     \* taken[c]: bytes that Reads of c have returned, in order

vars == <<queue, taken>>

Init == /\ queue = [c \in Conn |-> <<>>]
        /\ taken = [c \in Conn |-> <<>>]

Put(c) == /\ \E b \in Byte : queue' = [queue EXCEPT ![c] = Append(@, b)]
          /\ UNCHANGED taken

Take(c) ==
  \E n \in 1..Len(queue[c]) :
    /\ taken' = [taken EXCEPT ![c] = @ \o SubSeq(queue[c], 1, n)]
    /\ queue' = [queue EXCEPT ![c] = SubSeq(@, n + 1, Len(@))]

Next == \E c \in Conn : Put(c) \/ Take(c)

Spec == Init /\ [][Next]_vars
=============================================================================
