-------------------------- MODULE TCPOptionsProofs --------------------------
(***************************************************************************)
(* What tcpParseOpt does with any bytes a peer can put after the fixed TCP *)
(* header, in an options area of any size.                                 *)
(***************************************************************************)
EXTENDS TCPOptions, WellFoundedInduction, TLAPS

(* The bytes are those of one segment, and StaysInArea is what makes its   *)
(* own steps stay in the area: as long as index and length add up to the   *)
(* area, an option that is not partial ends inside it.                     *)
IInv == seg \in Segment /\ TypeOK /\ StaysInArea

OptRx == [mss_clamp : 1..(U16 - 1), user_mss : {0}, wscale_ok : BOOLEAN,
          snd_wscale : 0..14, sack_ok : 0..1, tstamp_ok : {FALSE},
          saw_tstamp : {0}]

(* The length tcpParseOpt computes is a uint16; it is that of the options  *)
(* when the data offset is not below 5.                                    *)
LEMMA AreaOf ==
  ASSUME NEW s \in Segment
  PROVE  /\ Area(s) \in Nat /\ Len(s.opt) \in Nat
         /\ Fits(s) => Area(s) <= 40 /\ Area(s) <= Len(s.opt)
<1>1. s.opt \in Seq(0..255) /\ s.off \in 0..15
  BY SegmentAssumption DEF U8
<1>2. Len(s.opt) \in Nat
  BY <1>1
<1> DEFINE n == 4 * s.off - 20
<1>3. n \in -20..40 /\ (s.off >= 5 => n \in 0..40)
  <2>1. ASSUME NEW o \in 0..15
        PROVE  4 * o - 20 \in -20..40 /\ (o >= 5 => 4 * o - 20 \in 0..40)
    OBVIOUS
  <2> QED BY <1>1, <2>1, Zenon
<1>4. Area(s) = n % 65536
  BY DEF Area, U16
<1> HIDE DEF n
<1>5. n % 65536 \in Nat
  BY <1>3
<1>6. n \in 0..40 => n % 65536 = n /\ n <= 40
  OBVIOUS
<1>7. Fits(s) => s.off >= 5 /\ Area(s) <= Len(s.opt)
  BY DEF Fits
<1> QED BY <1>2, <1>3, <1>4, <1>5, <1>6, <1>7

LEMMA ByteInBuffer ==
  ASSUME seg \in Segment, NEW i \in Nat, InBuffer(i)
  PROVE  Byte(i) \in Nat /\ Byte(i) <= 255
<1>1. seg.opt \in Seq(0..255)
  BY SegmentAssumption DEF U8
<1>2. i + 1 \in 1..Len(seg.opt)
  BY <1>1 DEF InBuffer
<1>3. ASSUME NEW S, NEW q \in Seq(S), NEW j \in 1..Len(q) PROVE q[j] \in S
  OBVIOUS
<1>4. seg.opt[i + 1] \in 0..255
  BY <1>1, <1>2, <1>3, Zenon
<1> QED BY <1>4 DEF Byte

LEMMA SliceByte ==
  ASSUME seg \in Segment, NEW i \in Nat
  PROVE  Slice(i) \in Nat /\ Slice(i) <= 255
BY ByteInBuffer DEF Slice

(* Byte2uint16 reads two bytes in the order of the host, and Ntohs makes   *)
(* of them the number the peer wrote in network order.                     *)
LEMMA NetworkOrder ==
  ASSUME NEW hi \in Nat, hi <= 255, NEW lo \in Nat, lo <= 255
  PROVE  /\ Ntohs(Byte2uint16(hi, lo)) = hi * 256 + lo
         /\ Ntohs(Byte2uint16(hi, lo)) \in Nat
         /\ Ntohs(Byte2uint16(hi, lo)) < U16
<1>1. (lo * 256 + hi) % 256 = hi
  OBVIOUS
<1>2. (lo * 256 + hi) \div 256 = lo
  OBVIOUS
<1>3. hi * 256 + lo \in Nat /\ hi * 256 + lo < 65536
  OBVIOUS
<1>4. Ntohs(Byte2uint16(hi, lo)) = hi * 256 + lo
  BY <1>1, <1>2 DEF Ntohs, Byte2uint16, U8
<1> QED BY <1>3, <1>4 DEF U16

-----------------------------------------------------------------------------
(* A round of the loop *)

(* In a round the kind is in the area.  The byte after it is read only for *)
(* a kind that has a length.                                               *)
LEMMA RoundFacts ==
  ASSUME IInv, Round
  PROVE  /\ index \in Nat /\ length \in Nat /\ length > 0
         /\ index + length = Area(seg) /\ index < Area(seg)
         /\ Area(seg) \in Nat
         /\ Len(seg.opt) \in Nat
         /\ Fits(seg) => Area(seg) <= 40 /\ Area(seg) <= Len(seg.opt)
                         /\ InBuffer(index)
         /\ pc = "loop" /\ furthest < Area(seg)
<1>1. seg \in Segment /\ index \in Nat /\ length \in Nat
  BY DEF IInv, TypeOK
<1>2. length > 0 /\ pc = "loop"
  BY DEF Round
<1>3. /\ Area(seg) \in Nat /\ Len(seg.opt) \in Nat
      /\ Fits(seg) => Area(seg) <= 40 /\ Area(seg) <= Len(seg.opt)
  BY <1>1, AreaOf
<1>4. index + length = Area(seg)
  BY DEF IInv, StaysInArea
<1>5. furthest < Area(seg)
  BY <1>2 DEF IInv, StaysInArea
<1>6. Fits(seg) => InBuffer(index)
  BY <1>1, <1>2, <1>3, <1>4 DEF InBuffer
<1> QED BY <1>1, <1>2, <1>3, <1>4, <1>5, <1>6

LEMMA OptionFacts ==
  ASSUME IInv, HasOption
  PROVE  /\ Round /\ opcode \notin {TCPOPT_EOL, TCPOPT_NOP}
         /\ InBuffer(index) /\ InBuffer(index + 1)
         /\ opsize \in Nat /\ opsize <= 255
<1>1. Round /\ InBuffer(LengthByte) /\ LengthByte = index + 1
  BY DEF HasOption
<1>2. index \in Nat /\ Len(seg.opt) \in Nat
  BY <1>1, RoundFacts
<1>3. InBuffer(index + 1)
  BY <1>1
<1>4. InBuffer(index)
  BY <1>2, <1>3 DEF InBuffer
<1>5. opcode \notin {TCPOPT_EOL, TCPOPT_NOP}
  BY <1>1, <1>2, <1>4 DEF LengthByte
<1>6. opsize \in Nat /\ opsize <= 255
  BY <1>2, <1>3, ByteInBuffer DEF opsize, IInv
<1> QED BY <1>1, <1>3, <1>4, <1>5, <1>6

(* An option that is neither silly nor partial is wholly in the area, so   *)
(* the bytes of its value are in the buffer if the header fits it.         *)
LEMMA WholeOption ==
  ASSUME IInv, HasOption, ~Silly, ~Partial
  PROVE  /\ opsize >= 2 /\ opsize <= length
         /\ Fits(seg) => \A i \in Nat : i < opsize => InBuffer(index + i)
         /\ Fits(seg) => ~ScaleMissing
<1>1. opsize \in Nat /\ Round
  BY OptionFacts
<1>2. opsize >= 2 /\ opsize <= length
  BY <1>1, RoundFacts DEF Silly, Partial
<1>3. ASSUME Fits(seg), NEW i \in Nat, i < opsize PROVE InBuffer(index + i)
  BY <1>1, <1>2, <1>3, RoundFacts DEF InBuffer
<1>4. ASSUME Fits(seg), ScaleMissing PROVE FALSE
  BY <1>3, <1>4 DEF ScaleMissing, TCPOLEN_WINDOW
<1> QED BY <1>2, <1>3, <1>4

LEMMA MssType ==
  ASSUME IInv, HasOption, ~Silly, ~Partial
  PROVE  Mss(opt_rx) \in OptRx
<1>1. opt_rx \in OptRx
  BY DEF IInv, TypeOK, OptRx
<1> DEFINE m == Uint16At(index + 2)
<1>2. CASE opcode = TCPOPT_MSS /\ opsize = TCPOLEN_MSS /\ m > 0
  <2>1. index \in Nat /\ seg \in Segment
    BY OptionFacts, RoundFacts DEF IInv
  <2>2. index + 2 \in Nat /\ index + 3 \in Nat
    BY <2>1
  <2>3. /\ Slice(index + 2) \in Nat /\ Slice(index + 2) <= 255
        /\ Slice(index + 3) \in Nat /\ Slice(index + 3) <= 255
    BY <2>1, <2>2, SliceByte
  <2>4. m \in Nat /\ m < U16
    <3>1. (index + 2) + 1 = index + 3
      BY <2>1
    <3> QED BY <2>3, <3>1, NetworkOrder DEF Uint16At
  <2>5. m \in 1..(U16 - 1)
    <3>1. ASSUME NEW n \in Nat, NEW u \in Nat, n < u, n > 0
          PROVE  n \in 1..(u - 1)
      BY <3>1
    <3>2. U16 \in Nat
      BY DEF U16
    <3> QED BY <1>2, <2>4, <3>1, <3>2
  <2> HIDE DEF m
  <2>6. Clamp(opt_rx, m) = m
    <3>1. opt_rx.user_mss = 0
      BY <1>1 DEF OptRx
    <3> QED BY <3>1 DEF Clamp
  <2>7. Mss(opt_rx) = [opt_rx EXCEPT !.mss_clamp = m]
    BY <1>2, <2>6 DEF Mss, m
  <2>8. ASSUME NEW r \in OptRx, NEW n \in 1..(U16 - 1)
        PROVE  [r EXCEPT !.mss_clamp = n] \in OptRx
    BY DEF OptRx
  <2> QED BY <1>1, <2>5, <2>7, <2>8, Zenon
<1>3. CASE ~(opcode = TCPOPT_MSS /\ opsize = TCPOLEN_MSS /\ m > 0)
  BY <1>1, <1>3 DEF Mss
<1> QED BY <1>2, <1>3

LEMMA WindowType ==
  ASSUME IInv, HasOption, ~Silly, ~Partial, ~ScaleMissing, NEW r \in OptRx
  PROVE  Window(r) \in OptRx
<1> DEFINE w == LegalScale(Byte(index + 2))
<1>1. CASE opcode = TCPOPT_WINDOW /\ opsize = TCPOLEN_WINDOW
  <2>1. index + 2 \in Nat /\ seg \in Segment
    BY OptionFacts, RoundFacts DEF IInv
  <2>2. Byte(index + 2) \in Nat
    BY <1>1, <2>1, ByteInBuffer DEF ScaleMissing
  <2>3. w \in 0..14
    BY <2>2 DEF LegalScale
  <2> HIDE DEF w
  <2>4. Window(r) = [r EXCEPT !.wscale_ok = TRUE, !.snd_wscale = w]
    BY <1>1 DEF Window, w
  <2> QED BY <2>3, <2>4 DEF OptRx
<1>2. CASE ~(opcode = TCPOPT_WINDOW /\ opsize = TCPOLEN_WINDOW)
  BY <1>2 DEF Window
<1> QED BY <1>1, <1>2

(* Nothing sets tstamp_ok, so no time stamp is ever taken.                 *)
LEMMA RestType ==
  ASSUME NEW r \in OptRx
  PROVE  SackPerm(Timestamp(r)) \in OptRx
<1>1. Timestamp(r) = r
  BY DEF OptRx, Timestamp
<1>2. SackPerm(r) \in OptRx
  <2>1. ASSUME NEW n \in 0..1 PROVE [r EXCEPT !.sack_ok = n] \in OptRx
    BY DEF OptRx
  <2>2. 1 \in 0..1
    OBVIOUS
  <2> QED BY <2>1, <2>2, Zenon DEF SackPerm
<1> QED BY <1>1, <1>2

LEMMA SackedType ==
  ASSUME IInv, Round
  PROVE  /\ SackedAt \in 0..(U8 - 1)
         /\ Fits(seg) => SackedAt = 20 + index
<1>1. index \in Nat
  BY RoundFacts
<1>2. SackedAt = (20 + (index % 256)) % 256
  BY DEF SackedAt, U8
<1>3. index % 256 \in 0..255
  BY <1>1
<1>4. (20 + (index % 256)) % 256 \in 0..255
  BY <1>3
<1>5. ASSUME Fits(seg) PROVE SackedAt = 20 + index
  <2> DEFINE area == Area(seg)
  <2>0. area \in Nat /\ area <= 40 /\ index < area
    BY <1>5, RoundFacts
  <2> HIDE DEF area
  <2>1. index \in 0..40
    BY <1>1, <2>0
  <2>2. index % 256 = index /\ (20 + index) % 256 = 20 + index
    BY <2>1
  <2> QED BY <1>2, <2>2
<1>6. U8 - 1 = 255
  BY DEF U8
<1> QED BY <1>2, <1>4, <1>5, <1>6

-----------------------------------------------------------------------------
(* The steps *)

LEMMA InitIInv == Init => IInv
<1> SUFFICES ASSUME Init PROVE IInv
  OBVIOUS
<1>1. /\ seg \in Segment /\ pc = "loop" /\ index = 0 /\ length = Area(seg)
      /\ opt_rx = Cleared /\ sacked = 0 /\ furthest = -1
  BY DEF Init
<1>2. Area(seg) \in Nat
  BY <1>1, AreaOf
<1>3. opt_rx \in OptRx
  BY <1>1 DEF Cleared, OptRx, U16
<1>4. TypeOK
  <2>1. pc \in {"loop", "done", "panic"}
    BY <1>1
  <2>2. index \in Nat /\ sacked \in 0..(U8 - 1)
    BY <1>1 DEF U8
  <2>3. length \in Nat
    BY <1>1, <1>2
  <2>4. furthest \in Nat \cup {-1}
    BY <1>1
  <2> QED BY <2>1, <2>2, <2>3, <2>4, <1>3, Zenon DEF TypeOK, OptRx
<1>5. StaysInArea
  BY <1>1, <1>2 DEF StaysInArea
<1> QED BY <1>1, <1>4, <1>5 DEF IInv

(* The steps that end the loop move neither index nor length.              *)
LEMMA EndSteps ==
  ASSUME IInv, LoopEnd \/ IndexOutOfRange \/ EndOfOptions \/ GiveUp
  PROVE  IInv'
<1>1. /\ seg \in Segment /\ pc = "loop" /\ index \in Nat
      /\ length \in Nat /\ furthest \in Nat \cup {-1}
      /\ opt_rx \in OptRx /\ sacked \in 0..(U8 - 1)
      /\ index + length = Area(seg) /\ furthest < Area(seg)
  <2>1. pc = "loop"
    BY DEF LoopEnd, IndexOutOfRange, EndOfOptions, GiveUp, HasOption, Round
  <2>2. seg \in Segment /\ TypeOK
    BY DEF IInv
  <2>3. index + length = Area(seg) /\ furthest < Area(seg)
    BY <2>1 DEF IInv, StaysInArea
  <2> QED BY <2>1, <2>2, <2>3 DEF TypeOK, OptRx
<1>2. /\ Area(seg) \in Nat /\ Len(seg.opt) \in Nat
      /\ Fits(seg) => Area(seg) <= Len(seg.opt)
  BY <1>1, AreaOf
<1>3. UNCHANGED <<seg, index, length, opt_rx, sacked>>
  BY DEF LoopEnd, IndexOutOfRange, EndOfOptions, GiveUp
<1>4. Area(seg)' = Area(seg) /\ opcode' = opcode /\ Fits(seg)' = Fits(seg)
  BY <1>3 DEF Area, opcode, Byte, Fits
<1> DEFINE NoLength == /\ index = Area(seg) - 1
                       /\ opcode \notin {TCPOPT_EOL, TCPOPT_NOP}
<1>5. /\ pc' \in {"done", "panic"} /\ furthest' \in Nat \cup {-1}
      /\ furthest' < Area(seg) \/ (pc' = "done" /\ NoLength)
      /\ pc' = "panic" /\ Fits(seg) => NoLength /\ Len(seg.opt) = Area(seg)
  <2>1. CASE LoopEnd
    BY <2>1, <1>1 DEF LoopEnd
  <2>2. CASE IndexOutOfRange
    <3>1. pc' = "panic" /\ furthest' = furthest /\ Round
      BY <2>2 DEF IndexOutOfRange
    <3>2. ASSUME Fits(seg) PROVE NoLength /\ Len(seg.opt) = Area(seg)
      <4>1. InBuffer(index) /\ index < Area(seg)
        BY <3>1, <3>2, RoundFacts
      <4>2. ~InBuffer(LengthByte)
        BY <2>2, <3>2, WholeOption DEF IndexOutOfRange
      <4>3. LengthByte = index + 1 /\ opcode \notin {TCPOPT_EOL, TCPOPT_NOP}
        BY <4>1, <4>2 DEF LengthByte
      <4>4. ~(index + 1 < Len(seg.opt))
        BY <4>2, <4>3 DEF InBuffer
      <4>5. index = Area(seg) - 1 /\ Len(seg.opt) = Area(seg)
        <5> DEFINE area == Area(seg)
                   end == Len(seg.opt)
        <5>1. /\ index \in Nat /\ area \in Nat /\ end \in Nat
              /\ index < area /\ area <= end /\ ~(index + 1 < end)
          BY <3>2, <4>1, <4>4, <1>1, <1>2
        <5> HIDE DEF area, end
        <5>2. index = area - 1 /\ end = area
          BY <5>1
        <5> QED BY <5>2 DEF area, end
      <4> QED BY <4>3, <4>5
    <3> QED BY <3>1, <3>2, <1>1
  <2>3. CASE EndOfOptions
    <3>1. pc' = "done" /\ furthest' = index /\ Round
      BY <2>3 DEF EndOfOptions
    <3>2. index < Area(seg)
      BY <3>1, RoundFacts
    <3> QED BY <3>1, <3>2, <1>1
  <2>4. CASE GiveUp
    <3>1. pc' = "done" /\ furthest' = index + 1 /\ HasOption
      BY <2>4 DEF GiveUp
    <3>2. index < Area(seg) /\ opcode \notin {TCPOPT_EOL, TCPOPT_NOP}
      BY <3>1, OptionFacts, RoundFacts
    <3>3. furthest' \in Nat \cup {-1}
      BY <3>1, <3>2, <1>1, <1>2
    <3>4. furthest' < Area(seg) \/ index = Area(seg) - 1
      BY <3>1, <3>2, <1>1, <1>2
    <3> QED BY <3>1, <3>2, <3>3, <3>4
  <2> QED BY <2>1, <2>2, <2>3, <2>4
<1>6. StaysInArea'
  BY <1>1, <1>3, <1>4, <1>5 DEF StaysInArea
<1>7. /\ pc' \in {"loop", "done", "panic"} /\ index' \in Nat
      /\ length' \in Nat /\ furthest' \in Nat \cup {-1}
      /\ opt_rx' \in OptRx /\ sacked' \in 0..(U8 - 1)
  BY <1>1, <1>3, <1>5
<1>8. TypeOK'
  <2>1. OptRx' = OptRx
    BY DEF OptRx
  <2> QED BY <1>7, <2>1, Zenon DEF TypeOK, OptRx
<1> QED BY <1>1, <1>3, <1>6, <1>8 DEF IInv

(* The steps that go on move the end of index and the start of what is     *)
(* left together, by the bytes they took.                                  *)
LEMMA GoOnSteps ==
  ASSUME IInv, Nop \/ Option
  PROVE  IInv'
<1>1. Round
  BY DEF Nop, Option, HasOption
<1>2. /\ index \in Nat /\ length \in Nat /\ length > 0
      /\ index + length = Area(seg) /\ index < Area(seg)
      /\ Area(seg) \in Nat
      /\ pc = "loop"
  BY <1>1, RoundFacts
<1>3. seg \in Segment /\ opt_rx \in OptRx /\ sacked \in 0..(U8 - 1)
  BY DEF IInv, TypeOK, OptRx
<1>4. UNCHANGED <<seg, pc>>
  BY DEF Nop, Option
<1>5. Area(seg)' = Area(seg)
  BY <1>4 DEF Area
<1>6. PICK n \in 1..length : /\ index' = index + n /\ length' = length - n
                             /\ furthest' >= index /\ furthest' < index + n
                             /\ furthest' \in Nat
  <2>1. CASE Nop
    <3>1. index' = index + 1 /\ length' = length - 1 /\ furthest' = index
      BY <2>1 DEF Nop
    <3>2. 1 \in 1..length
      BY <1>2
    <3> QED BY <3>1, <3>2, <1>2
  <2>2. CASE Option
    <3>1. HasOption /\ ~Silly /\ ~Partial
      BY <2>2 DEF Option
    <3>2. opsize \in Nat /\ opsize >= 2 /\ opsize <= length
      BY <3>1, OptionFacts, WholeOption
    <3>3. index' = index + opsize /\ length' = length - opsize
      BY <2>2 DEF Option
    <3>4. furthest' \in {index + opsize - 1, index + 1}
      BY <2>2 DEF Option
    <3>5. opsize \in 1..length
      BY <3>2, <1>2
    <3> QED BY <3>2, <3>3, <3>4, <3>5, <1>2
  <2> QED BY <2>1, <2>2
<1>7. opt_rx' \in OptRx /\ sacked' \in 0..(U8 - 1)
  <2>1. CASE Nop
    BY <2>1, <1>3 DEF Nop
  <2>2. CASE Option
    <3>1. HasOption /\ ~Silly /\ ~Partial /\ ~ScaleMissing
      BY <2>2 DEF Option
    <3>2. opt_rx' = SackPerm(Timestamp(Window(Mss(opt_rx))))
      BY <2>2 DEF Option
    <3>3. opt_rx' \in OptRx
      BY <3>1, <3>2, MssType, WindowType, RestType
    <3>4. sacked' \in 0..(U8 - 1)
      BY <2>2, <1>1, <1>3, SackedType, Zenon DEF Option
    <3> QED BY <3>3, <3>4
  <2> QED BY <2>1, <2>2
<1>8. /\ index' \in Nat /\ length' \in Nat /\ furthest' \in Nat \cup {-1}
      /\ index' + length' = Area(seg) /\ furthest' < Area(seg)
  BY <1>2, <1>6
<1>9. StaysInArea'
  BY <1>2, <1>4, <1>5, <1>8 DEF StaysInArea
<1>10. pc' \in {"loop", "done", "panic"}
  BY <1>2, <1>4
<1>11. TypeOK'
  <2>1. OptRx' = OptRx
    BY DEF OptRx
  <2> QED BY <1>7, <1>8, <1>10, <2>1, Zenon DEF TypeOK, OptRx
<1> QED BY <1>3, <1>4, <1>9, <1>11 DEF IInv

LEMMA StepIInv == IInv /\ [Next]_vars => IInv'
<1> SUFFICES ASSUME IInv, [Next]_vars PROVE IInv'
  OBVIOUS
<1>1. CASE LoopEnd \/ IndexOutOfRange \/ EndOfOptions \/ GiveUp
  BY <1>1, EndSteps
<1>2. CASE Nop \/ Option
  BY <1>2, GoOnSteps
<1>3. CASE UNCHANGED vars
  BY <1>3 DEF vars, IInv, TypeOK, StaysInArea, Area, opcode, Byte
<1> QED BY <1>1, <1>2, <1>3 DEF Next

LEMMA AlwaysIInv == Spec => []IInv
BY InitIInv, StepIInv, PTL DEF Spec

(* Whatever the options say, the numbers tcpParseOpt works with keep to    *)
(* their ranges: the clamp stays a positive 16-bit number, the scale stays *)
(* within 14, sacked is a byte, and no option takes more than is left.     *)
THEOREM TypeCorrect == Spec => []TypeOK
<1>1. IInv => TypeOK
  BY DEF IInv
<1> QED BY <1>1, AlwaysIInv, PTL

(* For every content of the buffer and every data offset the loop of       *)
(* tcpParseOpt keeps to the area it computed, but for the one byte that    *)
(* line 218 reads after an area that ends with a kind and no length.       *)
THEOREM KeepsToArea == Spec => []StaysInArea
<1>1. IInv => StaysInArea
  BY DEF IInv
<1> QED BY <1>1, AlwaysIInv, PTL

-----------------------------------------------------------------------------
(* The values *)

(* The places in wrote, before place i, of the options that count, and the *)
(* last one of them.                                                       *)
Those(i, kind, size) == {j \in 1..(i - 1) : Valid(seg.wrote[j], kind, size)}
IsLast(j, i, kind, size) ==
  j \in Those(i, kind, size) /\ \A h \in Those(i, kind, size) : h <= j

(* What tcpParseOpt has made of the options before place i.                *)
MssRead(i) ==
  IF Those(i, TCPOPT_MSS, TCPOLEN_MSS) = {} THEN opt_rx.mss_clamp = 536
  ELSE \E j \in 1..(i - 1) :
         /\ IsLast(j, i, TCPOPT_MSS, TCPOLEN_MSS)
         /\ opt_rx.mss_clamp = seg.wrote[j][3] * U8 + seg.wrote[j][4]
ScaleRead(i) ==
  IF Those(i, TCPOPT_WINDOW, TCPOLEN_WINDOW) = {} THEN opt_rx.wscale_ok = FALSE
  ELSE \E j \in 1..(i - 1) :
         /\ IsLast(j, i, TCPOPT_WINDOW, TCPOLEN_WINDOW)
         /\ opt_rx.wscale_ok = TRUE
         /\ opt_rx.snd_wscale = LegalScale(seg.wrote[j][3])
PermRead(i) ==
  opt_rx.sack_ok = IF Those(i, TCPOPT_SACK_PERM, TCPOLEN_SACK_PERM) = {} THEN 0 ELSE 1

(* The loop is at the start of an option of the peer's, or behind the last *)
(* one, and has read those before it; it ends behind the last one.         *)
ReadUpTo(i) == MssRead(i) /\ ScaleRead(i) /\ PermRead(i)
AtOption ==
  \E i \in 1..(Len(seg.wrote) + 1) :
    /\ index = seg.at[i] /\ ReadUpTo(i)
    /\ pc = "done" => i = Len(seg.wrote) + 1
SackedRight == sacked # 0 => Byte(sacked - 20) = TCPOPT_SACK
VInv == IInv /\ (Fits(seg) => AtOption /\ SackedRight)

LEMMA WroteFacts ==
  ASSUME seg \in Segment, Fits(seg)
  PROVE  /\ Len(seg.wrote) \in Nat
         /\ \A i \in 1..(Len(seg.wrote) + 1) : seg.at[i] \in Nat /\ seg.at[i] <= Area(seg)
         /\ seg.at[1] = 0 /\ IsEnd(seg, seg.at[Len(seg.wrote) + 1])
<1> DEFINE n == Len(seg.wrote)
<1>1. /\ seg.wrote \in Seq(Seq(0..(U8 - 1)))
      /\ seg.at \in [1..(n + 1) -> 0..Area(seg)]
      /\ seg.at[1] = 0 /\ IsEnd(seg, seg.at[n + 1])
  BY WroteAssumption, Zenon
<1>2. n \in Nat
  BY <1>1
<1>3. ASSUME NEW i \in 1..(n + 1) PROVE seg.at[i] \in Nat /\ seg.at[i] <= Area(seg)
  <2>1. seg.at[i] \in 0..Area(seg)
    BY <1>1, Zenon
  <2>2. Area(seg) \in Nat
    BY AreaOf
  <2> QED BY <2>1, <2>2
<1> QED BY <1>1, <1>2, <1>3

LEMMA StateFacts ==
  ASSUME IInv
  PROVE  /\ seg \in Segment /\ index \in Nat /\ length \in Nat
         /\ index + length = Area(seg)
         /\ Fits(seg) => Len(seg.wrote) \in Nat
<1>1. seg \in Segment /\ index \in Nat /\ length \in Nat
  BY DEF IInv, TypeOK
<1>2. index + length = Area(seg)
  BY DEF IInv, StaysInArea
<1> QED BY <1>1, <1>2, WroteFacts

(* An option of the peer's that the loop is at the start of.               *)
LEMMA OptionAt ==
  ASSUME IInv, Fits(seg), NEW i \in 1..Len(seg.wrote), index = seg.at[i]
  PROVE  LET o == seg.wrote[i]
         IN /\ o \in Seq(0..255) /\ Len(o) \in Nat /\ Len(o) >= 1 /\ IsOption(o)
            /\ seg.at[i + 1] = index + Len(o) /\ Len(o) <= length
            /\ \A j \in 1..Len(o) : Byte(index + j - 1) = o[j]
<1> DEFINE o == seg.wrote[i]
<1>1. seg \in Segment /\ index \in Nat /\ length \in Nat /\ index + length = Area(seg)
  BY StateFacts
<1>2. Len(seg.wrote) \in Nat
  BY <1>1, WroteFacts
<1>3. /\ IsOption(o) /\ seg.at[i + 1] = seg.at[i] + Len(o)
      /\ \A j \in 1..Len(o) : seg.opt[seg.at[i] + j] = o[j]
  BY <1>1, WroteAssumption, Zenon
<1>4. o \in Seq(0..255)
  <2>1. seg.wrote \in Seq(Seq(0..255))
    BY <1>1, WroteAssumption DEF U8
  <2>2. ASSUME NEW S, NEW q \in Seq(S), NEW j \in 1..Len(q) PROVE q[j] \in S
    OBVIOUS
  <2> QED BY <2>1, <2>2, Zenon
<1>5. Len(o) \in Nat
  <2>1. ASSUME NEW S, NEW q \in Seq(S) PROVE Len(q) \in Nat
    OBVIOUS
  <2> QED BY <1>4, <2>1, Zenon
<1>6. Len(o) >= 1
  <2>1. o = <<TCPOPT_NOP>> => Len(o) = 1
    OBVIOUS
  <2>2. o = <<TCPOPT_NOP>> \/ Len(o) >= 2
    BY <1>3, Zenon DEF IsOption
  <2>3. ASSUME NEW n \in Nat, n = 1 \/ n >= 2 PROVE n >= 1
    BY ONLY <2>3
  <2> QED BY <1>5, <2>1, <2>2, <2>3, Zenon
<1>7. Len(o) <= length
  <2>1. i + 1 \in 1..(Len(seg.wrote) + 1)
    BY <1>2
  <2>2. seg.at[i + 1] \in Nat /\ seg.at[i + 1] <= Area(seg)
    BY <1>1, <2>1, WroteFacts
  <2> HIDE DEF o
  <2> QED BY <1>1, <1>3, <1>5, <2>2
<1>8. ASSUME NEW j \in 1..Len(o) PROVE Byte(index + j - 1) = o[j]
  <2>1. (index + j - 1) + 1 = index + j
    BY <1>1, <1>5
  <2> QED BY <1>3, <2>1 DEF Byte
<1> QED BY <1>3, <1>4, <1>5, <1>6, <1>7, <1>8

(* Behind the last option of the peer's there is none to read.             *)
LEMMA NoneBehind ==
  ASSUME IInv, Fits(seg), index = seg.at[Len(seg.wrote) + 1], Round
  PROVE  /\ opcode # TCPOPT_NOP
         /\ HasOption => Silly \/ Partial
<1>1. /\ index \in Nat /\ length \in Nat /\ index + length = Area(seg) /\ seg \in Segment
      /\ length > 0
  BY StateFacts DEF Round
<1>2. IsEnd(seg, index)
  BY <1>1, WroteFacts
<1>3. opcode = seg.opt[index + 1] /\ opsize = seg.opt[index + 2]
  <2>1. (index + 1) + 1 = index + 2
    BY <1>1
  <2> QED BY <2>1 DEF opcode, opsize, Byte
<1>4. opcode = TCPOPT_EOL \/ (opcode # TCPOPT_NOP /\
        (index + 1 = Area(seg) \/ opsize \notin 2..(Area(seg) - index)))
  BY <1>1, <1>2, <1>3 DEF IsEnd
<1>5. opcode # TCPOPT_NOP
  BY <1>4 DEF TCPOPT_EOL, TCPOPT_NOP
<1>6. ASSUME HasOption, ~Silly, ~Partial PROVE FALSE
  <2>1. /\ opcode # TCPOPT_EOL /\ opsize \in Nat /\ opsize >= 2 /\ opsize <= length
    BY <1>6, OptionFacts, WholeOption
  <2>2. opsize \in 2..(Area(seg) - index) /\ index + 1 # Area(seg)
    BY <1>1, <2>1
  <2> QED BY <1>4, <2>1, <2>2, Zenon
<1> QED BY <1>5, <1>6

(* A round that goes on takes one option of the peer's.                    *)
LEMMA TakesOption ==
  ASSUME IInv, Fits(seg), NEW i \in 1..(Len(seg.wrote) + 1), index = seg.at[i], Nop \/ Option
  PROVE  /\ i \in 1..Len(seg.wrote) /\ index' = seg.at[i + 1]
         /\ opcode = seg.wrote[i][1]
         /\ Nop => seg.wrote[i] = <<TCPOPT_NOP>>
         /\ Option => opsize = Len(seg.wrote[i]) /\ seg.wrote[i][1] # TCPOPT_NOP
<1> DEFINE n == Len(seg.wrote)
           o == seg.wrote[i]
<1>1. n \in Nat /\ index \in Nat
  BY StateFacts
<1>2. Round /\ (Nop => opcode = TCPOPT_NOP)
      /\ (Option => HasOption /\ ~Silly /\ ~Partial)
  BY DEF Nop, Option, HasOption
<1>3. i # n + 1
  BY <1>2, NoneBehind
<1>4. i \in 1..n
  BY <1>1, <1>3
<1>5. /\ Len(o) \in Nat /\ Len(o) >= 1 /\ IsOption(o)
      /\ seg.at[i + 1] = index + Len(o)
      /\ \A j \in 1..Len(o) : Byte(index + j - 1) = o[j]
  BY <1>4, OptionAt
<1> HIDE DEF o
<1>6. opcode = o[1]
  <2>1. 1 \in 1..Len(o) /\ index + 1 - 1 = index
    BY <1>1, <1>5
  <2> QED BY <1>5, <2>1 DEF opcode
<1>7. CASE Nop
  <2>1. o = <<TCPOPT_NOP>>
    BY <1>2, <1>5, <1>6, <1>7, Zenon DEF IsOption
  <2>2. Len(o) = 1
    BY <2>1
  <2>3. index' = index + 1 /\ ~Option
    BY <1>7, <1>2, OptionFacts DEF Nop
  <2> QED BY <1>4, <1>5, <1>6, <2>1, <2>2, <2>3 DEF o
<1>8. CASE Option
  <2>1. opcode \notin {TCPOPT_EOL, TCPOPT_NOP} /\ index' = index + opsize
    BY <1>2, <1>8, OptionFacts DEF Option
  <2>2. Len(o) >= 2 /\ o[2] = Len(o)
    <3>1. o # <<TCPOPT_NOP>>
      BY <1>6, <2>1
    <3> QED BY <3>1, <1>5, Zenon DEF IsOption
  <2>3. opsize = o[2]
    <3>1. 2 \in 1..Len(o) /\ index + 2 - 1 = index + 1
      BY <1>1, <1>5, <2>2
    <3> QED BY <1>5, <3>1 DEF opsize
  <2>4. ~Nop
    BY <2>1 DEF Nop
  <2> QED BY <1>4, <1>5, <1>6, <2>1, <2>2, <2>3, <2>4, Zenon DEF o
<1> QED BY <1>7, <1>8

(* The loop ends only behind the last option of the peer's.                *)
LEMMA EndsBehind ==
  ASSUME IInv, Fits(seg), NEW i \in 1..(Len(seg.wrote) + 1), index = seg.at[i],
         LoopEnd \/ EndOfOptions \/ GiveUp
  PROVE  i = Len(seg.wrote) + 1
<1> SUFFICES ASSUME i # Len(seg.wrote) + 1 PROVE FALSE
  OBVIOUS
<1> DEFINE o == seg.wrote[i]
<1>1. index \in Nat /\ length \in Nat /\ Len(seg.wrote) \in Nat
  BY StateFacts
<1>2. i \in 1..Len(seg.wrote)
  BY <1>1
<1>3. /\ Len(o) \in Nat /\ Len(o) >= 1 /\ IsOption(o) /\ Len(o) <= length
      /\ \A j \in 1..Len(o) : Byte(index + j - 1) = o[j]
  BY <1>2, OptionAt
<1> HIDE DEF o
<1>4. opcode = o[1]
  <2>1. 1 \in 1..Len(o) /\ index + 1 - 1 = index
    BY <1>1, <1>3
  <2> QED BY <1>3, <2>1 DEF opcode
<1>5. o = <<TCPOPT_NOP>> => o[1] = TCPOPT_NOP
  OBVIOUS
<1>6. CASE LoopEnd
  BY <1>1, <1>3, <1>6 DEF LoopEnd
<1>7. CASE EndOfOptions
  <2>1. opcode = TCPOPT_EOL /\ TCPOPT_EOL # TCPOPT_NOP
    BY <1>7 DEF EndOfOptions, TCPOPT_EOL, TCPOPT_NOP
  <2> QED BY <1>3, <1>4, <1>5, <2>1, Zenon DEF IsOption
<1>8. CASE GiveUp
  <2>1. HasOption /\ (Silly \/ Partial)
    BY <1>8 DEF GiveUp
  <2>2. opcode # TCPOPT_NOP
    BY <2>1, OptionFacts
  <2>3. Len(o) >= 2 /\ o[2] = Len(o)
    BY <1>3, <1>4, <1>5, <2>2, Zenon DEF IsOption
  <2>4. opsize = o[2]
    <3>1. 2 \in 1..Len(o) /\ index + 2 - 1 = index + 1
      BY <1>1, <1>3, <2>3
    <3> QED BY <1>3, <3>1 DEF opsize
  <2> QED BY <1>1, <1>3, <2>1, <2>3, <2>4 DEF Silly, Partial
<1> QED BY <1>6, <1>7, <1>8

(* What such a round makes of the option.                                  *)
OptMss(o) == Valid(o, TCPOPT_MSS, TCPOLEN_MSS)
OptScale(o) == Valid(o, TCPOPT_WINDOW, TCPOLEN_WINDOW)
OptPerm(o) == Valid(o, TCPOPT_SACK_PERM, TCPOLEN_SACK_PERM)
Effect(o) ==
  /\ opt_rx'.mss_clamp = IF OptMss(o) THEN o[3] * U8 + o[4] ELSE opt_rx.mss_clamp
  /\ opt_rx'.wscale_ok = IF OptScale(o) THEN TRUE ELSE opt_rx.wscale_ok
  /\ opt_rx'.snd_wscale = IF OptScale(o) THEN LegalScale(o[3]) ELSE opt_rx.snd_wscale
  /\ opt_rx'.sack_ok = IF OptPerm(o) THEN 1 ELSE opt_rx.sack_ok

LEMMA ByteOf ==
  ASSUME NEW q \in Seq(0..255), NEW j \in 1..Len(q)
  PROVE  q[j] \in Nat /\ q[j] <= 255
<1>1. ASSUME NEW S, NEW r \in Seq(S), NEW h \in 1..Len(r) PROVE r[h] \in S
  OBVIOUS
<1>2. q[j] \in 0..255
  BY <1>1, Zenon
<1> DEFINE b == q[j]
<1>3. b \in 0..255
  BY <1>2
<1> HIDE DEF b
<1>4. b \in Nat /\ b <= 255
  BY <1>3
<1> QED BY <1>4, Zenon DEF b

LEMMA MssEffect ==
  ASSUME IInv, Fits(seg), NEW i \in 1..(Len(seg.wrote) + 1), index = seg.at[i], Option
  PROVE  Mss(opt_rx).mss_clamp = IF OptMss(seg.wrote[i])
                                 THEN seg.wrote[i][3] * U8 + seg.wrote[i][4]
                                 ELSE opt_rx.mss_clamp
<1> DEFINE o == seg.wrote[i]
           m == Uint16At(index + 2)
<1>1. i \in 1..Len(seg.wrote) /\ opcode = o[1] /\ opsize = Len(o)
  BY TakesOption
<1>2. CASE opcode = TCPOPT_MSS /\ opsize = TCPOLEN_MSS
  <2>1. index \in Nat /\ Len(o) = 4
    BY <1>1, <1>2, StateFacts DEF TCPOLEN_MSS
  <2>2. o \in Seq(0..255) /\ \A j \in 1..Len(o) : Byte(index + j - 1) = o[j]
    BY <1>1, OptionAt
  <2> HIDE DEF o
  <2>3. Byte(index + 2) = o[3] /\ Byte(index + 3) = o[4]
    <3>1. 3 \in 1..Len(o) /\ 4 \in 1..Len(o) /\ index + 3 - 1 = index + 2
          /\ index + 4 - 1 = index + 3
      BY <2>1
    <3> QED BY <2>2, <3>1
  <2>4. o[3] \in Nat /\ o[3] <= 255 /\ o[4] \in Nat /\ o[4] <= 255
    <3>1. 3 \in 1..Len(o) /\ 4 \in 1..Len(o)
      BY <2>1
    <3> QED BY <2>2, <3>1, ByteOf
  <2>5. m = o[3] * 256 + o[4]
    <3>1. (index + 2) + 1 = index + 3
      BY <2>1
    <3>2. InBuffer(index + 2) /\ InBuffer(index + 3)
      <4>1. HasOption /\ ~Silly /\ ~Partial /\ opsize = 4
        BY <1>2 DEF Option, TCPOLEN_MSS
      <4> QED BY <4>1, WholeOption
    <3>3. m = Ntohs(Byte2uint16(o[3], o[4]))
      BY <2>3, <3>1, <3>2 DEF Uint16At, Slice
    <3> QED BY <2>4, <3>3, NetworkOrder
  <2>6. m > 0 <=> <<o[3], o[4]>> # <<0, 0>>
    BY <2>4, <2>5
  <2>7. OptMss(o) <=> m > 0
    BY <1>1, <1>2, <2>6, Zenon DEF OptMss, Valid, o
  <2>8. opt_rx \in OptRx
    BY DEF IInv, TypeOK, OptRx
  <2>9. opt_rx.user_mss = 0
    BY <2>8 DEF OptRx
  <2> HIDE DEF m
  <2>10. CASE m > 0
    <3>1. Mss(opt_rx) = [opt_rx EXCEPT !.mss_clamp = Clamp(opt_rx, m)]
      BY <1>2, <2>10 DEF Mss, m
    <3>2. Clamp(opt_rx, m) = m
      BY <2>9 DEF Clamp
    <3>3. Mss(opt_rx).mss_clamp = m
      BY <2>8, <3>1, <3>2 DEF OptRx
    <3> QED BY <2>5, <2>7, <2>10, <3>3 DEF o, U8
  <2>11. CASE ~(m > 0)
    <3>1. Mss(opt_rx) = opt_rx
      BY <1>2, <2>11 DEF Mss, m
    <3> QED BY <2>7, <2>11, <3>1 DEF o
  <2> QED BY <2>10, <2>11
<1>3. CASE ~(opcode = TCPOPT_MSS /\ opsize = TCPOLEN_MSS)
  <2>1. Mss(opt_rx) = opt_rx
    BY <1>3 DEF Mss
  <2>2. ~OptMss(o)
    BY <1>1, <1>3, Zenon DEF OptMss, Valid
  <2> QED BY <2>1, <2>2
<1> QED BY <1>2, <1>3

LEMMA RoundEffect ==
  ASSUME IInv, Fits(seg), NEW i \in 1..(Len(seg.wrote) + 1), index = seg.at[i], Nop \/ Option
  PROVE  Effect(seg.wrote[i])
<1> DEFINE o == seg.wrote[i]
<1>1. CASE Nop
  <2>1. o = <<TCPOPT_NOP>> /\ opt_rx' = opt_rx
    BY <1>1, TakesOption DEF Nop
  <2>2. o[1] # TCPOPT_MSS /\ o[1] # TCPOPT_WINDOW /\ o[1] # TCPOPT_SACK_PERM
    BY <2>1 DEF TCPOPT_NOP, TCPOPT_MSS, TCPOPT_WINDOW, TCPOPT_SACK_PERM
  <2>3. ~OptMss(o) /\ ~OptScale(o) /\ ~OptPerm(o)
    BY <2>2, Zenon DEF OptMss, OptScale, OptPerm, Valid
  <2> QED BY <2>1, <2>3, Zenon DEF Effect
<1>2. CASE Option
  <2>1. i \in 1..Len(seg.wrote) /\ opcode = o[1] /\ opsize = Len(o)
    BY <1>2, TakesOption
  <2>2. HasOption /\ ~Silly /\ ~Partial /\ ~ScaleMissing
        /\ opt_rx' = SackPerm(Timestamp(Window(Mss(opt_rx))))
    BY <1>2 DEF Option
  <2> DEFINE a == Mss(opt_rx)
             b == Window(a)
  <2>3. opt_rx \in OptRx /\ a \in OptRx /\ b \in OptRx
    BY <2>2, MssType, WindowType DEF IInv, TypeOK, OptRx
  <2>4. a.mss_clamp = IF OptMss(o) THEN o[3] * U8 + o[4] ELSE opt_rx.mss_clamp
    BY <1>2, MssEffect
  <2>5. a.wscale_ok = opt_rx.wscale_ok /\ a.snd_wscale = opt_rx.snd_wscale
        /\ a.sack_ok = opt_rx.sack_ok
    <3>1. ASSUME NEW v PROVE LET e == [opt_rx EXCEPT !.mss_clamp = v]
                             IN e.wscale_ok = opt_rx.wscale_ok /\ e.snd_wscale = opt_rx.snd_wscale
                                /\ e.sack_ok = opt_rx.sack_ok
      BY <2>3 DEF OptRx
    <3> QED BY <3>1, Zenon DEF Mss
  <2> HIDE DEF a
  <2>6. Byte(index + 2) = o[3] \/ ~OptScale(o)
    <3>1. ASSUME OptScale(o) PROVE Byte(index + 2) = o[3]
      <4>1. Len(o) = 3 /\ index \in Nat
        BY <3>1, StateFacts DEF OptScale, Valid, TCPOLEN_WINDOW
      <4>2. \A j \in 1..Len(o) : Byte(index + j - 1) = o[j]
        BY <2>1, OptionAt
      <4>3. 3 \in 1..Len(o) /\ index + 3 - 1 = index + 2
        BY <4>1
      <4> QED BY <4>2, <4>3
    <3> QED BY <3>1
  <2>7. OptScale(o) <=> opcode = TCPOPT_WINDOW /\ opsize = TCPOLEN_WINDOW
    BY <2>1 DEF OptScale, Valid, TCPOPT_WINDOW, TCPOPT_MSS
  <2>8. b = IF OptScale(o) THEN [a EXCEPT !.wscale_ok = TRUE, !.snd_wscale = LegalScale(o[3])]
            ELSE a
    BY <2>6, <2>7, Zenon DEF Window
  <2>9. /\ b.mss_clamp = a.mss_clamp /\ b.sack_ok = a.sack_ok
        /\ b.wscale_ok = (IF OptScale(o) THEN TRUE ELSE a.wscale_ok)
        /\ b.snd_wscale = (IF OptScale(o) THEN LegalScale(o[3]) ELSE a.snd_wscale)
    <3> HIDE DEF b, o
    <3> QED BY <2>3, <2>8 DEF OptRx
  <2> HIDE DEF b
  <2>10. Timestamp(b) = b
    BY <2>3 DEF OptRx, Timestamp
  <2>11. OptPerm(o) <=> opcode = TCPOPT_SACK_PERM /\ opsize = TCPOLEN_SACK_PERM
    BY <2>1 DEF OptPerm, Valid, TCPOPT_SACK_PERM, TCPOPT_MSS
  <2>12. opt_rx' = IF OptPerm(o) THEN [b EXCEPT !.sack_ok = 1] ELSE b
    BY <2>2, <2>10, <2>11, Zenon DEF SackPerm, a, b
  <2>13. /\ opt_rx'.mss_clamp = b.mss_clamp /\ opt_rx'.wscale_ok = b.wscale_ok
         /\ opt_rx'.snd_wscale = b.snd_wscale
         /\ opt_rx'.sack_ok = (IF OptPerm(o) THEN 1 ELSE b.sack_ok)
    <3> HIDE DEF o
    <3> QED BY <2>3, <2>12 DEF OptRx
  <2> QED BY <2>4, <2>5, <2>9, <2>13, Zenon DEF Effect
<1> QED BY <1>1, <1>2

(* A set of natural numbers that is not empty has a least one.             *)
LEMMA Least ==
  ASSUME NEW T \in SUBSET Nat, T # {}
  PROVE  \E x \in T : \A y \in T : x <= y
<1> DEFINE R == OpToRel(<, Nat)
<1>1. PICK x \in T : \A y \in T : ~(<<y, x>> \in R)
  <2>1. IsWellFoundedOn(R, Nat)
    BY NatLessThanWellFounded
  <2> HIDE DEF R
  <2> QED BY <2>1, WFMin
<1>2. ASSUME NEW y \in T PROVE x <= y
  <2>1. ~(y < x)
    BY <1>1 DEF OpToRel
  <2> QED BY <2>1
<1> QED BY <1>2

(* One more option: it is the last one that counts, if it counts.          *)
LEMMA OneMore ==
  ASSUME NEW i \in Nat, i >= 1, NEW kind, NEW size
  PROVE  /\ Those(i + 1, kind, size) =
              IF Valid(seg.wrote[i], kind, size)
              THEN Those(i, kind, size) \cup {i} ELSE Those(i, kind, size)
         /\ Valid(seg.wrote[i], kind, size) => IsLast(i, i + 1, kind, size)
         /\ \A j \in 1..(i - 1) :
              ~Valid(seg.wrote[i], kind, size) /\ IsLast(j, i, kind, size)
                => IsLast(j, i + 1, kind, size)
<1>1. ASSUME NEW j PROVE j \in 1..(i + 1 - 1) <=> j \in 1..(i - 1) \/ j = i
  OBVIOUS
<1>2. Those(i + 1, kind, size) =
        IF Valid(seg.wrote[i], kind, size)
        THEN Those(i, kind, size) \cup {i} ELSE Those(i, kind, size)
  BY <1>1 DEF Those
<1>3. \A h \in Those(i, kind, size) \cup {i} : h <= i
  BY DEF Those
<1>4. Valid(seg.wrote[i], kind, size) => IsLast(i, i + 1, kind, size)
  BY <1>2, <1>3, Zenon DEF IsLast
<1>5. ASSUME NEW j \in 1..(i - 1), ~Valid(seg.wrote[i], kind, size),
             IsLast(j, i, kind, size)
      PROVE  IsLast(j, i + 1, kind, size)
  BY <1>2, <1>5, Zenon DEF IsLast
<1> QED BY <1>2, <1>4, <1>5

LEMMA ReadSame ==
  ASSUME NEW i, ReadUpTo(i), seg' = seg, opt_rx' = opt_rx
  PROVE  ReadUpTo(i)'
<1>1. \A h, kind, size : Those(h, kind, size)' = Those(h, kind, size)
  BY DEF Those, Valid
<1>2. \A j, h, kind, size : IsLast(j, h, kind, size)' <=> IsLast(j, h, kind, size)
  BY <1>1 DEF IsLast
<1>3. MssRead(i)'
  BY <1>1, <1>2 DEF ReadUpTo, MssRead
<1>4. ScaleRead(i)'
  BY <1>1, <1>2 DEF ReadUpTo, ScaleRead
<1>5. PermRead(i)'
  BY <1>1 DEF ReadUpTo, PermRead
<1> QED BY <1>3, <1>4, <1>5 DEF ReadUpTo

LEMMA ReadOneMore ==
  ASSUME NEW i \in Nat, i >= 1, ReadUpTo(i), Effect(seg.wrote[i]), seg' = seg
  PROVE  ReadUpTo(i + 1)'
<1> DEFINE o == seg.wrote[i]
<1>1. \A h, kind, size : Those(h, kind, size)' = Those(h, kind, size)
  BY DEF Those, Valid
<1>2. \A j, h, kind, size : IsLast(j, h, kind, size)' <=> IsLast(j, h, kind, size)
  BY <1>1 DEF IsLast
<1>3. i \in 1..(i + 1 - 1) /\ \A j \in 1..(i - 1) : j \in 1..(i + 1 - 1)
  OBVIOUS
<1>4. MssRead(i + 1)'
  <2> DEFINE A == Those(i, TCPOPT_MSS, TCPOLEN_MSS)
             Z == Those(i + 1, TCPOPT_MSS, TCPOLEN_MSS)
  <2>1. Z' = Z
    BY <1>1, Zenon
  <2>2. CASE OptMss(o)
    <3>1. Z # {} /\ IsLast(i, i + 1, TCPOPT_MSS, TCPOLEN_MSS)
      BY <2>2, OneMore, Zenon DEF OptMss
    <3>2. opt_rx'.mss_clamp = o[3] * U8 + o[4]
      BY <2>2, Zenon DEF Effect
    <3> QED BY <1>2, <1>3, <2>1, <3>1, <3>2 DEF MssRead
  <2>3. CASE ~OptMss(o)
    <3>1. Z = A /\ \A j \in 1..(i - 1) : IsLast(j, i, TCPOPT_MSS, TCPOLEN_MSS)
                      => IsLast(j, i + 1, TCPOPT_MSS, TCPOLEN_MSS)
      BY <2>3, OneMore, Zenon DEF OptMss
    <3>2. opt_rx'.mss_clamp = opt_rx.mss_clamp
      BY <2>3, Zenon DEF Effect
    <3>3. MssRead(i)
      BY DEF ReadUpTo
    <3> QED BY <1>2, <1>3, <2>1, <3>1, <3>2, <3>3 DEF MssRead
  <2> QED BY <2>2, <2>3
<1>5. ScaleRead(i + 1)'
  <2> DEFINE A == Those(i, TCPOPT_WINDOW, TCPOLEN_WINDOW)
             Z == Those(i + 1, TCPOPT_WINDOW, TCPOLEN_WINDOW)
  <2>1. Z' = Z
    BY <1>1, Zenon
  <2>2. CASE OptScale(o)
    <3>1. Z # {} /\ IsLast(i, i + 1, TCPOPT_WINDOW, TCPOLEN_WINDOW)
      BY <2>2, OneMore, Zenon DEF OptScale
    <3>2. opt_rx'.wscale_ok = TRUE /\ opt_rx'.snd_wscale = LegalScale(o[3])
      BY <2>2, Zenon DEF Effect
    <3> QED BY <1>2, <1>3, <2>1, <3>1, <3>2 DEF ScaleRead
  <2>3. CASE ~OptScale(o)
    <3>1. Z = A /\ \A j \in 1..(i - 1) : IsLast(j, i, TCPOPT_WINDOW, TCPOLEN_WINDOW)
                      => IsLast(j, i + 1, TCPOPT_WINDOW, TCPOLEN_WINDOW)
      BY <2>3, OneMore, Zenon DEF OptScale
    <3>2. opt_rx'.wscale_ok = opt_rx.wscale_ok /\ opt_rx'.snd_wscale = opt_rx.snd_wscale
      BY <2>3, Zenon DEF Effect
    <3>3. ScaleRead(i)
      BY DEF ReadUpTo
    <3> QED BY <1>2, <1>3, <2>1, <3>1, <3>2, <3>3 DEF ScaleRead
  <2> QED BY <2>2, <2>3
<1>6. PermRead(i + 1)'
  <2> DEFINE A == Those(i, TCPOPT_SACK_PERM, TCPOLEN_SACK_PERM)
             Z == Those(i + 1, TCPOPT_SACK_PERM, TCPOLEN_SACK_PERM)
  <2>1. Z' = Z
    BY <1>1, Zenon
  <2>2. Z = IF OptPerm(o) THEN A \cup {i} ELSE A
    BY OneMore, Zenon DEF OptPerm
  <2>3. opt_rx'.sack_ok = IF OptPerm(o) THEN 1 ELSE opt_rx.sack_ok
    BY Zenon DEF Effect
  <2>4. opt_rx.sack_ok = IF A = {} THEN 0 ELSE 1
    BY Zenon DEF ReadUpTo, PermRead
  <2>5. A \cup {i} # {}
    BY Zenon
  <2> QED BY <2>1, <2>2, <2>3, <2>4, <2>5, Zenon DEF PermRead
<1> QED BY <1>4, <1>5, <1>6 DEF ReadUpTo

LEMMA InitVInv == Init => VInv
<1> SUFFICES ASSUME Init PROVE VInv
  OBVIOUS
<1>0. SUFFICES ASSUME Fits(seg) PROVE AtOption /\ SackedRight
  BY InitIInv DEF VInv
<1>1. seg \in Segment /\ index = 0 /\ pc = "loop" /\ sacked = 0 /\ opt_rx = Cleared
  BY DEF Init
<1>2. Len(seg.wrote) \in Nat /\ seg.at[1] = 0
  BY <1>0, <1>1, WroteFacts
<1>3. \A kind, size : Those(1, kind, size) = {}
  BY DEF Those
<1>4. ReadUpTo(1)
  BY <1>1, <1>3 DEF ReadUpTo, MssRead, ScaleRead, PermRead, Cleared
<1>5. 1 \in 1..(Len(seg.wrote) + 1)
  BY <1>2
<1>6. pc # "done"
  BY <1>1
<1>7. AtOption
  BY <1>1, <1>2, <1>4, <1>5, <1>6, Zenon DEF AtOption
<1> QED BY <1>1, <1>7 DEF SackedRight

LEMMA StepVInv == VInv /\ [Next]_vars => VInv'
<1> SUFFICES ASSUME VInv, [Next]_vars PROVE VInv'
  OBVIOUS
<1>0. IInv /\ IInv' /\ seg' = seg /\ Fits(seg)' = Fits(seg)
  <2>1. IInv /\ IInv'
    BY StepIInv DEF VInv
  <2>2. seg' = seg
    BY DEF Next, vars, LoopEnd, IndexOutOfRange, EndOfOptions, Nop, GiveUp, Option
  <2> QED BY <2>1, <2>2 DEF Fits, Area
<1> SUFFICES ASSUME Fits(seg) PROVE AtOption' /\ SackedRight'
  BY <1>0 DEF VInv
<1>1. IInv /\ AtOption /\ SackedRight
  BY <1>0 DEF VInv
<1>2. PICK i \in 1..(Len(seg.wrote) + 1) :
        /\ index = seg.at[i] /\ ReadUpTo(i)
        /\ pc = "done" => i = Len(seg.wrote) + 1
  BY <1>1 DEF AtOption
<1>3. Len(seg.wrote) \in Nat
  BY <1>1, StateFacts
<1>4. CASE \/ LoopEnd \/ EndOfOptions \/ GiveUp
           \/ IndexOutOfRange \/ UNCHANGED vars
  <2>1. UNCHANGED <<seg, index, opt_rx, sacked>>
    BY <1>4 DEF LoopEnd, EndOfOptions, GiveUp, IndexOutOfRange, vars
  <2>2. pc' = "done" => i = Len(seg.wrote) + 1
    <3>1. CASE LoopEnd \/ EndOfOptions \/ GiveUp
      BY <1>1, <1>2, <3>1, EndsBehind
    <3>2. CASE IndexOutOfRange
      BY <3>2 DEF IndexOutOfRange
    <3>3. CASE UNCHANGED vars
      BY <1>2, <3>3 DEF vars
    <3> QED BY <1>4, <3>1, <3>2, <3>3
  <2>3. ReadUpTo(i)'
    BY <1>2, <2>1, ReadSame
  <2>4. AtOption'
    BY <1>2, <2>1, <2>2, <2>3 DEF AtOption
  <2>5. SackedRight'
    BY <1>1, <2>1 DEF SackedRight, Byte
  <2> QED BY <2>4, <2>5
<1>5. CASE Nop \/ Option
  <2>1. UNCHANGED <<seg, pc>> /\ Round
    BY <1>5 DEF Nop, Option, HasOption
  <2>2. i \in 1..Len(seg.wrote) /\ index' = seg.at[i + 1]
    BY <1>1, <1>2, <1>5, TakesOption
  <2>3. i \in Nat /\ i >= 1 /\ i + 1 \in 1..(Len(seg.wrote) + 1)
    BY <1>3, <2>2
  <2>4. Effect(seg.wrote[i])
    BY <1>1, <1>2, <1>5, RoundEffect
  <2>5. ReadUpTo(i + 1)'
    BY <1>2, <2>1, <2>3, <2>4, ReadOneMore
  <2>6. pc' # "done"
    BY <2>1 DEF Round
  <2>7. AtOption'
    BY <2>1, <2>2, <2>3, <2>5, <2>6 DEF AtOption
  <2>8. SackedRight'
    <3>1. CASE sacked' = sacked
      BY <1>1, <2>1, <3>1 DEF SackedRight, Byte
    <3>2. CASE sacked' # sacked
      <4>1. HasBlocks /\ sacked' = SackedAt
        BY <1>5, <3>2 DEF Nop, Option
      <4>2. index \in Nat /\ SackedAt = 20 + index
        BY <1>1, <2>1, StateFacts, SackedType
      <4>3. sacked' - 20 = index
        BY <4>1, <4>2
      <4>4. Byte(index) = TCPOPT_SACK
        BY <4>1 DEF HasBlocks, opcode
      <4> QED BY <2>1, <4>3, <4>4 DEF SackedRight, Byte
    <3> QED BY <3>1, <3>2
  <2> QED BY <2>7, <2>8
<1> QED BY <1>4, <1>5 DEF Next

LEMMA LastOfIs ==
  ASSUME seg \in Segment, Fits(seg), NEW kind, NEW size
  PROVE  LET n == Len(seg.wrote)
         IN /\ Those(n + 1, kind, size) = {} => LastOf(kind, size) = <<>>
            /\ \A j \in 1..n : IsLast(j, n + 1, kind, size)
                                 => LastOf(kind, size) = seg.wrote[j]
<1> DEFINE n == Len(seg.wrote)
           T == Those(n + 1, kind, size)
<1>1. n \in Nat /\ DOMAIN seg.wrote = 1..n
  <2>1. seg.wrote \in Seq(Seq(0..(U8 - 1)))
    BY WroteAssumption, Zenon
  <2>2. ASSUME NEW S, NEW q \in Seq(S) PROVE Len(q) \in Nat /\ DOMAIN q = 1..Len(q)
    OBVIOUS
  <2> QED BY <2>1, <2>2, Zenon
<1>2. n + 1 - 1 = n
  BY <1>1
<1> DEFINE E == {i \in DOMAIN seg.wrote : Valid(seg.wrote[i], kind, size)}
<1>3. E = T
  BY <1>1, <1>2 DEF Those
<1>4. T \subseteq Nat
  BY <1>1 DEF Those
<1>5. ASSUME NEW j \in 1..n, IsLast(j, n + 1, kind, size)
      PROVE  LastOf(kind, size) = seg.wrote[j]
  <2> DEFINE c == CHOOSE i \in E : \A h \in E : h <= i
  <2>1. j \in T /\ \A h \in T : h <= j
    BY <1>5 DEF IsLast
  <2>2. c \in T /\ \A h \in T : h <= c
    <3> HIDE DEF T, E
    <3>1. j \in E /\ \A h \in E : h <= j
      BY <1>3, <2>1
    <3>2. c \in E /\ \A h \in E : h <= c
      BY <3>1, Zenon
    <3> QED BY <1>3, <3>2
  <2>3. c = j
    <3> HIDE DEF T, c
    <3> QED BY <1>4, <2>1, <2>2
  <2>4. LastOf(kind, size) = IF E = {} THEN <<>> ELSE seg.wrote[c]
    BY Zenon DEF LastOf
  <2> HIDE DEF T, E, c
  <2> QED BY <1>3, <2>1, <2>3, <2>4
<1>6. T = {} => LastOf(kind, size) = <<>>
  BY <1>3 DEF LastOf
<1> QED BY <1>5, <1>6

(* Of the options that count one is the last, if there are any.            *)
LEMMA HasLast ==
  ASSUME NEW n \in Nat, NEW kind, NEW size, Those(n + 1, kind, size) # {}
  PROVE  \E j \in 1..n : IsLast(j, n + 1, kind, size)
<1> DEFINE T == Those(n + 1, kind, size)
           U == {n - h : h \in T}
<1>1. T \subseteq 1..n
  BY DEF Those
<1> HIDE DEF T
<1>2. U \in SUBSET Nat /\ U # {}
  BY <1>1 DEF T
<1>3. PICK x \in U : \A y \in U : x <= y
  BY <1>2, Least
<1>4. PICK j \in T : x = n - j
  BY <1>3
<1>5. ASSUME NEW h \in T PROVE h <= j
  <2>1. x <= n - h
    BY <1>3
  <2> QED BY <1>1, <1>4, <2>1
<1> QED BY <1>1, <1>4, <1>5, Zenon DEF IsLast, T

LEMMA EmptyLen == ASSUME NEW q, q = <<>> PROVE Len(q) = 0
OBVIOUS

(* Whatever options a header that fits its frame has, of whatever number,  *)
(* kinds, lengths and order, tcpParseOpt ends with what the last one of    *)
(* each kind says: it finds each option where the one before it ends       *)
(* (tcpconn.go:205-278).                                                   *)
THEOREM ReadsTheOptions == Spec => []ReadsWhatWasWritten
<1>1. VInv => ReadsWhatWasWritten
  <2> SUFFICES ASSUME VInv, Fits(seg), pc = "done" PROVE ReadsWhatWasWritten
    BY DEF ReadsWhatWasWritten
  <2> DEFINE n == Len(seg.wrote)
             mss == LastOf(TCPOPT_MSS, TCPOLEN_MSS)
             scale == LastOf(TCPOPT_WINDOW, TCPOLEN_WINDOW)
             perm == LastOf(TCPOPT_SACK_PERM, TCPOLEN_SACK_PERM)
  <2>1. IInv /\ seg \in Segment /\ n \in Nat
    BY StateFacts DEF VInv
  <2>2. ReadUpTo(n + 1)
    BY DEF VInv, AtOption
  <2>3. n + 1 - 1 = n
    BY <2>1
  <2>4. \A j, kind, size : IsLast(j, n + 1, kind, size)
                             => Len(seg.wrote[j]) = size /\ seg.wrote[j][1] = kind
    BY DEF IsLast, Those, Valid
  <2>5. \A j, kind, size : Len(seg.wrote[j]) = size /\ size # 0 => seg.wrote[j] # <<>>
    BY Zenon, EmptyLen
  <2>6. opt_rx.mss_clamp = IF mss = <<>> THEN 536 ELSE mss[3] * U8 + mss[4]
    <3>1. CASE Those(n + 1, TCPOPT_MSS, TCPOLEN_MSS) = {}
      BY <2>1, <2>2, <3>1, LastOfIs DEF ReadUpTo, MssRead
    <3>2. CASE Those(n + 1, TCPOPT_MSS, TCPOLEN_MSS) # {}
      <4>1. PICK j \in 1..n : /\ IsLast(j, n + 1, TCPOPT_MSS, TCPOLEN_MSS)
                              /\ opt_rx.mss_clamp = seg.wrote[j][3] * U8 + seg.wrote[j][4]
        BY <2>2, <2>3, <3>2 DEF ReadUpTo, MssRead
      <4>2. mss = seg.wrote[j]
        BY <2>1, <4>1, LastOfIs, Zenon
      <4>3. TCPOLEN_MSS # 0
        BY DEF TCPOLEN_MSS
      <4>4. mss # <<>>
        BY <2>4, <2>5, <4>1, <4>2, <4>3, Zenon
      <4> QED BY <4>1, <4>2, <4>4, Zenon
    <3> QED BY <3>1, <3>2
  <2>7. /\ opt_rx.wscale_ok = (scale # <<>>)
        /\ scale # <<>> => opt_rx.snd_wscale = (IF scale[3] < 14 THEN scale[3] ELSE 14)
    <3>1. CASE Those(n + 1, TCPOPT_WINDOW, TCPOLEN_WINDOW) = {}
      BY <2>1, <2>2, <3>1, LastOfIs, Zenon DEF ReadUpTo, ScaleRead
    <3>2. CASE Those(n + 1, TCPOPT_WINDOW, TCPOLEN_WINDOW) # {}
      <4>1. PICK j \in 1..n : /\ IsLast(j, n + 1, TCPOPT_WINDOW, TCPOLEN_WINDOW)
                              /\ opt_rx.wscale_ok = TRUE
                              /\ opt_rx.snd_wscale = LegalScale(seg.wrote[j][3])
        BY <2>2, <2>3, <3>2 DEF ReadUpTo, ScaleRead
      <4>2. scale = seg.wrote[j]
        BY <2>1, <4>1, LastOfIs, Zenon
      <4>3. TCPOLEN_WINDOW # 0
        BY DEF TCPOLEN_WINDOW
      <4>4. scale # <<>>
        BY <2>4, <2>5, <4>1, <4>2, <4>3, Zenon
      <4>5. scale[3] \in Nat
        <5>1. Len(seg.wrote[j]) = 3
          BY <2>4, <4>1, Zenon DEF TCPOLEN_WINDOW
        <5>2. seg.wrote[j] \in Seq(0..255)
          <6>1. seg.wrote \in Seq(Seq(0..255))
            BY <2>1, WroteAssumption DEF U8
          <6>2. ASSUME NEW S, NEW q \in Seq(S), NEW h \in 1..Len(q) PROVE q[h] \in S
            OBVIOUS
          <6> QED BY <6>1, <6>2, Zenon
        <5>3. 3 \in 1..Len(seg.wrote[j])
          BY <5>1
        <5>4. seg.wrote[j][3] \in Nat
          BY <5>2, <5>3, ByteOf, Zenon
        <5> QED BY <4>2, <5>4, Zenon
      <4>6. LegalScale(scale[3]) = IF scale[3] < 14 THEN scale[3] ELSE 14
        <5>1. ASSUME NEW w \in Nat PROVE LegalScale(w) = IF w < 14 THEN w ELSE 14
          BY DEF LegalScale
        <5> QED BY <4>5, <5>1, Zenon
      <4> QED BY <4>1, <4>2, <4>4, <4>6, Zenon
    <3> QED BY <3>1, <3>2
  <2>8. opt_rx.sack_ok = 1 <=> perm # <<>>
    <3> DEFINE T == Those(n + 1, TCPOPT_SACK_PERM, TCPOLEN_SACK_PERM)
    <3>1. opt_rx.sack_ok = IF T = {} THEN 0 ELSE 1
      BY <2>2, Zenon DEF ReadUpTo, PermRead
    <3>2. CASE T = {}
      <4>1. perm = <<>>
        BY <2>1, <3>2, LastOfIs, Zenon
      <4>2. opt_rx.sack_ok = 0
        BY <3>1, <3>2, Zenon
      <4> QED BY <4>1, <4>2
    <3>3. CASE T # {}
      <4>1. PICK j \in 1..n : IsLast(j, n + 1, TCPOPT_SACK_PERM, TCPOLEN_SACK_PERM)
        BY <2>1, <3>3, HasLast
      <4>2. perm = seg.wrote[j]
        BY <2>1, <4>1, LastOfIs, Zenon
      <4>3. TCPOLEN_SACK_PERM # 0
        BY DEF TCPOLEN_SACK_PERM
      <4>4. perm # <<>>
        BY <2>4, <2>5, <4>1, <4>2, <4>3, Zenon
      <4> QED BY <3>1, <3>3, <4>4, Zenon
    <3> QED BY <3>2, <3>3
  <2>9. sacked # 0 => Byte(sacked - 20) = TCPOPT_SACK
    BY DEF VInv, SackedRight
  <2> QED BY <2>6, <2>7, <2>8, <2>9, Zenon DEF ReadsWhatWasWritten
<1>2. Spec => []VInv
  BY InitVInv, StepVInv, PTL DEF Spec
<1> QED BY <1>1, <1>2, PTL
=============================================================================
