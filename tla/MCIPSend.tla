------------------------------ MODULE MCIPSend ------------------------------
(* Instances of IPSend for TLC. *)
EXTENDS IPSend

(* 10.0.0.1:8080 answering 10.0.0.2:41000, and answering 192.168.112.40,   *)
(* whose IP header adds up to 131071.                                      *)
Near == [src |-> <<2560, 1>>, dst |-> <<2560, 2>>,
         sport |-> 8080, dport |-> 41000]
Far == [Near EXCEPT !.dst = <<49320, 28712>>]
MCConn == {Near, Far}

(* Sums whose carries, added in once, carry again: from the first one, the *)
(* third ACK; the second and third ones at once, with one of the windows.  *)
FoldsTwice == {63166, 63167, 26832}
LowWords == {0, 1, 65534, 65535}
MCISN == {<<4660, w>> : w \in LowWords \cup FoldsTwice}
            \cup {<<65535, 65535>>}
MCAnswer == {[ack |-> <<30000, 1>>, win |-> w] : w \in Window}
=============================================================================
