---------------------------- MODULE IPSendProofs ----------------------------
(***************************************************************************)
(* Theorems of IPSend: for all addresses, ports, sequence numbers, windows *)
(* and numbers of segments, which segments the stack kills itself with and *)
(* that the others verify.  The argument is arithmetic on one sum (lemma   *)
(* OneFold) and an invariant that remembers, at each pc, which sums the    *)
(* checksum fields were computed from and which verified.                  *)
(***************************************************************************)
EXTENDS IPSend, TLAPS

LEMMA WordSize == W = 65536
BY DEF W

LEMMA WordRange == \A x : x \in Word <=> x \in Nat /\ x < W
<1>1. W \in Nat
  BY WordSize
<1> QED
  BY <1>1 DEF Word

LEMMA DivMod ==
  ASSUME NEW s \in Nat
  PROVE  /\ s \div W \in Nat /\ s % W \in Nat /\ s % W < W
         /\ s = (W * (s \div W)) + (s % W)
BY DEF W

LEMMA DivModUnique ==
  ASSUME NEW q \in Nat, NEW r \in Nat, r < W, NEW s \in Nat, s = (W * q) + r
  PROVE  s \div W = q /\ s % W = r
BY Z3T(60) DEF W

LEMMA FoldOf ==
  ASSUME NEW q \in Nat, NEW r \in Nat, r < W, NEW s \in Nat, s = (W * q) + r
  PROVE  Fold(s) = q + r
BY DivModUnique DEF Fold

LEMMA ChecksumIsWord == ASSUME NEW s \in Nat PROVE Checksum(s) \in Word
<1>1. Fold(s) \in Nat
  BY DivMod DEF Fold
<1>2. Fold(s) % W \in Nat /\ Fold(s) % W < W
  BY <1>1, DivMod
<1> QED
  BY <1>2, WordSize, WordRange DEF Checksum

(* Adding a checksum to the sum it was computed from: it verifies unless   *)
(* adding the carries in made another carry, and then it is valid.         *)
LEMMA OneFold ==
  ASSUME NEW s \in Nat, s <= 20 * (W - 1)
  PROVE  /\ VerifyChecksum(s + Checksum(s)) <=> ~SecondCarry(s)
         /\ ~SecondCarry(s) => Valid(s + Checksum(s))
<1> DEFINE hi == s \div W
           lo == s % W
<1>1. /\ s = (W * hi) + lo /\ hi \in Nat /\ lo \in Nat /\ lo < W
  BY DivMod
<1>2. hi <= 20
  <2> HIDE DEF hi, lo
  <2> QED
    BY <1>1, WordSize
<1>3. Fold(s) = hi + lo
  BY DEF Fold
<1> HIDE DEF hi, lo
<1>4. CASE hi + lo < W
  <2>1. Fold(s) % W = hi + lo
    BY <1>1, <1>3, <1>4, DivModUnique, WordSize
  <2>2. s + Checksum(s) = (W * hi) + ((W - 1) - hi)
    BY <1>1, <2>1, WordSize DEF Checksum
  <2>3. Fold(s + Checksum(s)) = W - 1
    <3>1. /\ (W - 1) - hi \in Nat /\ (W - 1) - hi < W
          /\ s + Checksum(s) \in Nat
      BY <1>1, <1>2, <2>2, WordSize
    <3>2. Fold(s + Checksum(s)) = hi + ((W - 1) - hi)
      BY <1>1, <2>2, <3>1, FoldOf
    <3> QED
      BY <1>1, <3>2, WordSize
  <2>4. VerifyChecksum(s + Checksum(s))
    <3>1. (W - 1) % W = W - 1
      BY DEF W
    <3> QED
      BY <2>3, <3>1, WordSize DEF VerifyChecksum, Checksum
  <2>5. s + Checksum(s) = (W - 1) * (hi + 1)
    BY <1>1, <2>2, WordSize
  <2>6. Valid(s + Checksum(s))
    BY <1>1, <2>5, WordSize DEF Valid
  <2> QED
    BY <1>1, <1>3, <1>4, <2>4, <2>6, WordSize DEF SecondCarry
<1>5. CASE hi + lo >= W
  <2>1. Fold(s) % W = (hi + lo) - W
    <3>1. /\ (hi + lo) - W \in Nat /\ (hi + lo) - W < W
          /\ hi + lo = (W * 1) + ((hi + lo) - W)
      BY <1>1, <1>2, <1>5, WordSize
    <3> QED
      BY <1>1, <1>3, <3>1, DivModUnique
  <2>2. s + Checksum(s) = (W * (hi + 1)) + ((W - 1) - hi)
    BY <1>1, <2>1, WordSize DEF Checksum
  <2>3. Fold(s + Checksum(s)) = W
    <3>1. /\ (W - 1) - hi \in Nat /\ (W - 1) - hi < W
          /\ s + Checksum(s) \in Nat /\ hi + 1 \in Nat
      BY <1>1, <1>2, <2>2, WordSize
    <3>2. Fold(s + Checksum(s)) = (hi + 1) + ((W - 1) - hi)
      BY <2>2, <3>1, FoldOf
    <3> QED
      BY <1>1, <3>2, WordSize
  <2>4. ~VerifyChecksum(s + Checksum(s))
    <3>1. W % W = 0
      BY DEF W
    <3> QED
      BY <2>3, <3>1, WordSize DEF VerifyChecksum, Checksum
  <2> QED
    BY <1>3, <1>5, <2>4 DEF SecondCarry
<1> QED
  BY <1>1, <1>4, <1>5, WordSize

LEMMA HeaderWords ==
  ASSUME NEW h \in Header, NEW i \in 1..10
  PROVE  h[i] \in Nat /\ h[i] <= W - 1
BY WordRange, WordSize DEF Header

LEMMA SumBounds ==
  ASSUME NEW h \in Header
  PROVE  Sum(h) \in Nat /\ Sum(h) <= 10 * (W - 1)
<1>1. /\ h[1] \in Nat /\ h[2] \in Nat /\ h[3] \in Nat /\ h[4] \in Nat
      /\ h[5] \in Nat /\ h[6] \in Nat /\ h[7] \in Nat /\ h[8] \in Nat
      /\ h[9] \in Nat /\ h[10] \in Nat
  BY HeaderWords
<1>2. /\ h[1] <= W - 1 /\ h[2] <= W - 1 /\ h[3] <= W - 1 /\ h[4] <= W - 1
      /\ h[5] <= W - 1 /\ h[6] <= W - 1 /\ h[7] <= W - 1 /\ h[8] <= W - 1
      /\ h[9] <= W - 1 /\ h[10] <= W - 1
  BY HeaderWords
<1> QED
  BY <1>1, <1>2, WordSize DEF Sum

-----------------------------------------------------------------------------
(* The headers are words *)

LEMMA Double2 ==
  ASSUME NEW d \in Double
  PROVE  d[1] \in Word /\ d[2] \in Word
BY DEF Double

LEMMA FixedWords ==
  /\ 17664 \in Word /\ 40 \in Word /\ 0 \in Word /\ 16384 \in Word
  /\ 16390 \in Word /\ ACK \in Word /\ SYNACK \in Word
BY WordRange, WordSize DEF ACK, SYNACK

LEMMA IPHeaderType == ASSUME NEW c \in Conn PROVE IPHeader(c) \in Header
<1>1. c.src \in Double /\ c.dst \in Double
  BY ConnAssumption
<1>2. /\ c.src[1] \in Word /\ c.src[2] \in Word
      /\ c.dst[1] \in Word /\ c.dst[2] \in Word
  BY <1>1, Double2
<1> QED
  BY <1>2, FixedWords DEF IPHeader, Header

LEMMA TCPHeaderType ==
  ASSUME NEW c \in Conn, NEW flags \in Word, NEW seq \in Double,
         NEW a \in Answer
  PROVE  TCPHeader(c, flags, seq, a) \in Header
<1>1. c.sport \in Word /\ c.dport \in Word
  BY ConnAssumption
<1>2. a.ack \in Double /\ a.win \in Word
  BY AnswerAssumption, WindowAssumption
<1>3. a.ack[1] \in Word /\ a.ack[2] \in Word /\ seq[1] \in Word
      /\ seq[2] \in Word
  BY <1>2, Double2
<1> QED
  BY <1>1, <1>2, <1>3, FixedWords DEF TCPHeader, Header

LEMMA Plus1Type == ASSUME NEW d \in Double PROVE Plus1(d) \in Double
<1>1. /\ d[1] \in Nat /\ d[1] < W /\ d[2] \in Nat /\ d[2] < W
  BY Double2, WordRange
<1>2. (d[1] + 1) % W \in Word
  BY <1>1, DivMod, WordRange
<1>3. d[2] # W - 1 => d[2] + 1 \in Word
  BY <1>1, WordRange, WordSize
<1>4. 0 \in Word /\ d[1] \in Word
  BY FixedWords, Double2
<1> QED
  BY <1>2, <1>3, <1>4 DEF Plus1, Double

(* Replacing one word of a header moves its sum by the difference. *)
LEMMA SumExcept6 ==
  ASSUME NEW h \in Header, NEW w \in Word
  PROVE  /\ [h EXCEPT ![6] = w] \in Header
         /\ [h EXCEPT ![6] = w][6] = w
         /\ Sum([h EXCEPT ![6] = w]) = (Sum(h) - h[6]) + w
<1>1. /\ h[1] \in Nat /\ h[2] \in Nat /\ h[3] \in Nat /\ h[4] \in Nat
      /\ h[5] \in Nat /\ h[6] \in Nat /\ h[7] \in Nat /\ h[8] \in Nat
      /\ h[9] \in Nat /\ h[10] \in Nat /\ w \in Nat
  BY HeaderWords, WordRange
<1> QED
  BY <1>1 DEF Header, Sum

LEMMA SumExcept9 ==
  ASSUME NEW h \in Header, NEW w \in Word
  PROVE  /\ [h EXCEPT ![9] = w] \in Header
         /\ [h EXCEPT ![9] = w][9] = w
         /\ Sum([h EXCEPT ![9] = w]) = (Sum(h) - h[9]) + w
<1>1. /\ h[1] \in Nat /\ h[2] \in Nat /\ h[3] \in Nat /\ h[4] \in Nat
      /\ h[5] \in Nat /\ h[6] \in Nat /\ h[7] \in Nat /\ h[8] \in Nat
      /\ h[9] \in Nat /\ h[10] \in Nat /\ w \in Nat
  BY HeaderWords, WordRange
<1> QED
  BY <1>1 DEF Header, Sum

-----------------------------------------------------------------------------
(* The inductive invariant *)

Sums ==
  /\ pc = "fill" => tcp[9] = 0
  /\ Filled => /\ Sum(ip) = IPSum + ip[6] /\ ip[6] = Checksum(IPSum)
               /\ tcp[9] = Checksum(TCPSum)
  /\ pc \in {"verifyTCP", "write", "badTCP"} => VerifyChecksum(Sum(ip))
  /\ pc = "badIP" => ~VerifyChecksum(Sum(ip))
  /\ pc = "write" => VerifyChecksum(Sum(ip) + Sum(tcp))
  /\ pc = "badTCP" => ~VerifyChecksum(Sum(ip) + Sum(tcp))

IInv == TypeOK /\ Sums

LEMMA InitIInv == Init => IInv
<1> SUFFICES ASSUME Init PROVE IInv
  OBVIOUS
<1>1. Blank \in Header /\ <<0, 0>> \in Double
  BY FixedWords DEF Blank, Header, Double
<1>2. TypeOK
  BY <1>1, BoundAssumption DEF Init, TypeOK
<1> QED
  BY <1>2 DEF Init, IInv, Sums, Filled

LEMMA BuildIInv ==
  ASSUME IInv, NEW flags \in Word, NEW seq \in Double, NEW a \in Answer,
         Build(flags, seq, a)
  PROVE  IInv'
<1>1. Blank \in Header
  BY FixedWords DEF Blank, Header
<1>2. TCPHeader(conn, flags, seq, a) \in Header /\ Plus1(seq) \in Double
  BY TCPHeaderType, Plus1Type DEF IInv, TypeOK
<1>3. TypeOK'
  BY <1>1, <1>2, BoundAssumption DEF Build, IInv, TypeOK
<1>4. tcp'[9] = 0 /\ pc' = "fill"
  BY DEF Build, TCPHeader
<1> QED
  BY <1>3, <1>4 DEF IInv, Sums, Filled

LEMMA FillIInv == ASSUME IInv, Fill PROVE IInv'
<1> DEFINE h == IPHeader(conn)
           check == Checksum(Sum(h))
           tcheck == Checksum(Sum(h) + check + Sum(tcp))
<1>1. /\ ip' = [h EXCEPT ![6] = check] /\ tcp' = [tcp EXCEPT ![9] = tcheck]
      /\ pc = "fill" /\ pc' = "verifyIP" /\ UNCHANGED <<conn, next, sends>>
  BY DEF Fill
<1>2. h \in Header /\ h[6] = 0 /\ tcp \in Header /\ tcp[9] = 0
  BY <1>1, IPHeaderType DEF IInv, TypeOK, Sums, IPHeader
<1>3. Sum(h) \in Nat /\ Sum(tcp) \in Nat
  BY <1>2, SumBounds
<1>4. check \in Word /\ check \in Nat
  BY <1>3, ChecksumIsWord, WordRange
<1>5. tcheck \in Word /\ tcheck \in Nat
  <2>1. Sum(h) + check + Sum(tcp) \in Nat
    BY <1>3, <1>4
  <2> QED
    BY <2>1, ChecksumIsWord, WordRange
<1>6. IPSum' = Sum(h)
  BY <1>1 DEF IPSum
<1> HIDE DEF h, check, tcheck
<1>7. ip' \in Header /\ ip'[6] = check /\ Sum(ip') = Sum(h) + check
  <2>1. LET g == [h EXCEPT ![6] = check]
        IN  g \in Header /\ g[6] = check /\ Sum(g) = (Sum(h) - h[6]) + check
    BY <1>2, <1>4, SumExcept6
  <2>2. (Sum(h) - h[6]) + check = Sum(h) + check
    BY <1>2, <1>3, <1>4
  <2> QED
    BY <1>1, <2>1, <2>2
<1>8. tcp' \in Header /\ tcp'[9] = tcheck /\ Sum(tcp') = Sum(tcp) + tcheck
  <2>1. LET g == [tcp EXCEPT ![9] = tcheck]
        IN  /\ g \in Header /\ g[9] = tcheck
            /\ Sum(g) = (Sum(tcp) - tcp[9]) + tcheck
    BY <1>2, <1>5, SumExcept9
  <2>2. (Sum(tcp) - tcp[9]) + tcheck = Sum(tcp) + tcheck
    BY <1>2, <1>3, <1>5
  <2> QED
    BY <1>1, <2>1, <2>2
<1>9. TCPSum' = Sum(h) + check + Sum(tcp)
  BY <1>3, <1>4, <1>5, <1>6, <1>7, <1>8 DEF TCPSum
<1>10. TypeOK'
  BY <1>1, <1>7, <1>8 DEF IInv, TypeOK
<1>11. /\ (Sum(ip) = IPSum + ip[6])' /\ (ip[6] = Checksum(IPSum))'
       /\ (tcp[9] = Checksum(TCPSum))'
  BY <1>6, <1>7, <1>8, <1>9 DEF check, tcheck
<1> QED
  BY <1>1, <1>10, <1>11 DEF IInv, Sums

LEMMA OtherIInv ==
  ASSUME IInv, VerifyIP \/ VerifyTCP \/ Write \/ UNCHANGED vars
  PROVE  IInv'
<1>1. conn' = conn /\ next' = next /\ ip' = ip /\ tcp' = tcp /\ sends' = sends
  BY DEF VerifyIP, VerifyTCP, Write, vars
<1>2. /\ Sum(ip') = Sum(ip) /\ Sum(tcp') = Sum(tcp)
      /\ ip'[6] = ip[6] /\ tcp'[9] = tcp[9]
      /\ IPHeader(conn') = IPHeader(conn)
  BY <1>1
<1>3. IPSum' = IPSum
  BY <1>2 DEF IPSum
<1>4. TCPSum' = TCPSum
  BY <1>2, <1>3 DEF TCPSum
<1>5. /\ Checksum(IPSum') = Checksum(IPSum)
      /\ Checksum(TCPSum') = Checksum(TCPSum)
      /\ Checksum(Sum(ip')) = Checksum(Sum(ip))
      /\ Checksum(Sum(ip') + Sum(tcp')) = Checksum(Sum(ip) + Sum(tcp))
  BY <1>2, <1>3, <1>4
<1>6. TypeOK'
  BY <1>1 DEF VerifyIP, VerifyTCP, Write, vars, IInv, TypeOK
<1>7. pc' = "fill" => tcp'[9] = 0
  BY <1>2 DEF VerifyIP, VerifyTCP, Write, vars, IInv, Sums
<1>8. Filled' => Filled
  BY DEF VerifyIP, VerifyTCP, Write, vars, Filled
<1>9. Filled' => /\ Sum(ip') = IPSum' + ip'[6] /\ ip'[6] = Checksum(IPSum')
                 /\ tcp'[9] = Checksum(TCPSum')
  BY <1>2, <1>3, <1>5, <1>8 DEF IInv, Sums
<1>10. pc' \in {"verifyTCP", "write", "badTCP"} => VerifyChecksum(Sum(ip'))
  BY <1>5 DEF VerifyIP, VerifyTCP, Write, vars, IInv, Sums, VerifyChecksum
<1>11. pc' = "badIP" => ~VerifyChecksum(Sum(ip'))
  BY <1>5 DEF VerifyIP, VerifyTCP, Write, vars, IInv, Sums, VerifyChecksum
<1>12. pc' = "write" => VerifyChecksum(Sum(ip') + Sum(tcp'))
  BY <1>5 DEF VerifyIP, VerifyTCP, Write, vars, IInv, Sums, VerifyChecksum
<1>13. pc' = "badTCP" => ~VerifyChecksum(Sum(ip') + Sum(tcp'))
  BY <1>5 DEF VerifyIP, VerifyTCP, Write, vars, IInv, Sums, VerifyChecksum
<1> QED
  BY <1>6, <1>7, <1>9, <1>10, <1>11, <1>12, <1>13 DEF IInv, Sums

LEMMA NextIInv == ASSUME IInv, [Next]_vars PROVE IInv'
<1>1. ASSUME NEW isn \in ISN, NEW a \in Answer, SendSynAck(isn, a)
      PROVE  IInv'
  BY <1>1, BuildIInv, FixedWords, SeqAssumption DEF SendSynAck
<1>2. ASSUME NEW a \in Answer, SendAck(a)
      PROVE  IInv'
  BY <1>2, BuildIInv, FixedWords DEF SendAck, IInv, TypeOK
<1> QED
  BY <1>1, <1>2, FillIInv, OtherIInv DEF Next

LEMMA SpecIInv == Spec => []IInv
BY InitIInv, NextIInv, PTL DEF Spec

-----------------------------------------------------------------------------
(* The theorems *)

(* The sum of the two headers is the sum its checksum was computed from    *)
(* plus that checksum.                                                     *)
LEMMA FilledSums ==
  ASSUME IInv, Filled
  PROVE  /\ IPSum \in Nat /\ IPSum <= 20 * (W - 1)
         /\ TCPSum \in Nat /\ TCPSum <= 20 * (W - 1)
         /\ Sum(ip) = IPSum + Checksum(IPSum)
         /\ Sum(ip) + Sum(tcp) = TCPSum + Checksum(TCPSum)
         /\ Sum(ip) \in Nat /\ Sum(tcp) \in Nat
<1>1. IPSum \in Nat /\ IPSum <= 10 * (W - 1)
  BY IPHeaderType, SumBounds DEF IInv, TypeOK, IPSum
<1>2. /\ Sum(ip) \in Nat /\ Sum(ip) <= 10 * (W - 1)
      /\ Sum(tcp) \in Nat /\ Sum(tcp) <= 10 * (W - 1)
  BY SumBounds DEF IInv, TypeOK
<1>3. /\ Sum(ip) = IPSum + ip[6] /\ ip[6] = Checksum(IPSum)
      /\ tcp[9] = Checksum(TCPSum)
  BY DEF IInv, Sums
<1>4. tcp[9] \in Nat /\ ip[6] \in Nat
  BY HeaderWords DEF IInv, TypeOK
<1>5. TCPSum = (Sum(ip) + Sum(tcp)) - tcp[9]
  BY <1>3 DEF TCPSum
<1>6. tcp[9] <= Sum(tcp)
  <2>1. /\ tcp[1] \in Nat /\ tcp[2] \in Nat /\ tcp[3] \in Nat
        /\ tcp[4] \in Nat /\ tcp[5] \in Nat /\ tcp[6] \in Nat
        /\ tcp[7] \in Nat /\ tcp[8] \in Nat /\ tcp[9] \in Nat
        /\ tcp[10] \in Nat
    BY HeaderWords DEF IInv, TypeOK
  <2> QED
    BY <2>1 DEF Sum
<1> QED
  BY <1>1, <1>2, <1>3, <1>4, <1>5, <1>6, WordSize

(* The four fields keep their widths, the sequence number its 32 bits.     *)
THEOREM TypeCorrect == Spec => []TypeOK
<1>1. IInv => TypeOK
  BY DEF IInv
<1> QED
  BY <1>1, SpecIInv, PTL

(* For every header a connection can produce, the process ends at          *)
(* ipconn.go:50 or 55 exactly when the sum needs a second carry.           *)
THEOREM FatalExactly == Spec => []FatalIsSecondCarry
<1>1. ASSUME IInv PROVE FatalIsSecondCarry
  <2>1. CASE Filled
    <3>1. /\ VerifyChecksum(Sum(ip)) <=> ~SecondCarry(IPSum)
          /\ VerifyChecksum(Sum(ip) + Sum(tcp)) <=> ~SecondCarry(TCPSum)
      BY <1>1, <2>1, FilledSums, OneFold
    <3> QED
      BY <1>1, <3>1 DEF IInv, Sums, FatalIsSecondCarry
  <2>2. CASE ~Filled
    BY <2>2 DEF Filled, FatalIsSecondCarry
  <2> QED
    BY <2>1, <2>2
<1> QED
  BY <1>1, SpecIInv, PTL

(* The IP header of whatever is handed to the device is accepted by its    *)
(* receiver: ipconn.go:48 lets no header pass that is not valid.           *)
THEOREM WrittenVerifies == Spec => []WrittenIPVerifies
<1>1. ASSUME IInv, pc = "write" PROVE Valid(Sum(ip))
  <2>1. Filled
    BY <1>1 DEF Filled
  <2>2. VerifyChecksum(Sum(ip))
    BY <1>1 DEF IInv, Sums
  <2> QED
    BY <1>1, <2>1, <2>2, FilledSums, OneFold
<1>2. IInv => WrittenIPVerifies
  BY <1>1 DEF WrittenIPVerifies
<1> QED
  BY <1>2, SpecIInv, PTL
=============================================================================
