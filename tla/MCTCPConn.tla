----------------------------- MODULE MCTCPConn ------------------------------
(* Instances of TCPConn for TLC. *)
EXTENDS TCPConn

CONSTANTS ip, portA, portB, portC, p1, p2, b1, b2, b3

A == [ip |-> ip, port |-> portA]
B == [ip |-> ip, port |-> portB]
C == [ip |-> ip, port |-> portC]
MCLocal == {A, B, C}
MCOneLocal == {A}

Seg(p, a, syn, ack, seq, data) ==
  [src |-> p, dst |-> a, syn |-> syn, ack |-> ack, seq |-> seq, win |-> 3,
   len |-> Len(data), data |-> data]

Syn(p, a)    == Seg(p, a, TRUE, FALSE, 0, <<>>)
SynAck(p, a) == Seg(p, a, TRUE, TRUE, 0, <<>>)
Ack(p, a)    == Seg(p, a, FALSE, TRUE, 1, <<>>)
Data12(p, a) == Seg(p, a, FALSE, TRUE, 1, <<b1, b2>>)
Data3(p, a)  == Seg(p, a, FALSE, TRUE, 3, <<b3>>)

(* Everything two peers may send to two ports while connections open. *)
OpeningSegments ==
  UNION {{Syn(p, a), SynAck(p, a), Ack(p, a)} : p \in Peer, a \in Local}

(* One peer opens a connection to each of three ports, with repeated SYNs  *)
(* and ACKs; another one does to the first port, and the first sends data. *)
OpeningAndData ==
  UNION {{Syn(p1, a), Ack(p1, a)} : a \in Local}
    \cup {SynAck(p1, A), SynAck(p2, A), Data12(p1, A)}

(* One peer's connection, opened with one segment to spend the bound on    *)
(* data.                                                                   *)
ShortOpening == {SynAck(p1, A), Data12(p1, A), Data3(p1, A)}

FullBuffers == {[len |-> n, cap |-> n] : n \in 1..2}
AllBuffers == {[len |-> 2, cap |-> 2], [len |-> 1, cap |-> 2]}
=============================================================================
