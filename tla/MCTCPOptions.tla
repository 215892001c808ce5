---------------------------- MODULE MCTCPOptions ----------------------------
(***************************************************************************)
(* SYNs with up to three options in any order, and every way in which the  *)
(* options area can end, and segments whose data offset says what cannot   *)
(* be: less than a fixed header, or more than the frame.                   *)
(***************************************************************************)
EXTENDS TCPOptions, SequencesExt

Options ==
  {<<1>>,                                   \* NOP
   <<2, 4, 5, 180>>, <<2, 4, 0, 0>>,        \* MSS 1460, and none
   <<2, 3, 9>>,                             \* MSS of the wrong length
   <<3, 3, 7>>, <<3, 3, 15>>,               \* scales, legal and not
   <<4, 2>>,                                \* SACK permitted
   <<5, 10, 0, 0, 0, 1, 0, 0, 0, 9>>,       \* SACK, one block
   <<8, 10, 2, 4, 1, 1, 3, 3, 1, 1>>,       \* a time stamp full of kinds
   <<19, 4, 2, 4>>}                         \* a kind that is not known

Lists == UNION {[1..n -> Options] : n \in 0..3}

(* The end of the options, an option of length 0 or 1, one longer than the *)
(* rest of the area, and a kind with no length.                            *)
Ends == {<<>>, <<0>>, <<0, 2, 4, 0>>, <<3, 0>>, <<3, 1>>, <<2, 4, 5>>, <<3>>}

(* The peer fills up to a word with NOPs; a frame has at least 6 bytes     *)
(* after the fixed headers, and padding is 0.                              *)
Zeros(n) == [i \in 1..n |-> 0]
MCSegment ==
  {LET short == (-(Len(FlattenSeq(list)) + Len(end))) % 4
       wrote == list \o [i \in 1..short |-> <<1>>]
       area == FlattenSeq(wrote) \o end
       data == area \o payload
       padding == IF Len(data) < 6 THEN Zeros(6 - Len(data)) ELSE <<>>
   IN [opt |-> data \o padding, off |-> 5 + (Len(area) \div 4),
       wrote |-> wrote,
       at |-> [i \in 1..(Len(wrote) + 1) |-> Len(FlattenSeq(SubSeq(wrote, 1, i - 1)))]] :
     list \in Lists, end \in Ends, payload \in {<<>>, <<3>>}}

(* Payloads that read like options, cut at any of their bytes from the     *)
(* sixth on; and one in which index exceeds a uint8.                       *)
Bytes == {FlattenSeq(list) : list \in [1..2 -> Options]}
Payloads == UNION {{SubSeq(b, 1, n) : n \in 6..Len(b)} : b \in Bytes}
Long == [i \in 1..240 |-> 1] \o <<4, 2, 5, 10, 0, 0>>
NoArea(opts, offs) ==
  {[opt |-> opt, off |-> off, wrote |-> <<>>, at |-> <<0>>] :
     opt \in opts, off \in offs}
AnySegment == MCSegment \cup NoArea(Payloads \cup {Long}, {0, 4})
                        \cup NoArea(Payloads, {15})
=============================================================================
