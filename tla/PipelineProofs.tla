--------------------------- MODULE PipelineProofs ---------------------------
(***************************************************************************)
(* What the way in of a packet does for any capacity of the channels, any  *)
(* snapshot length that holds the headers, any lengths of the headers and  *)
(* of the stream, and any network that loses frames.                       *)
(***************************************************************************)
EXTENDS Pipeline, SequenceTheorems, TLAPS

-----------------------------------------------------------------------------
(* Bytes in frames that wait in a queue *)

FramesOf(q) == [i \in 1..Len(q) |-> q[i].frame]
Bytes(fs) == {b \in Nat : \E j \in 1..Len(fs) : b \in Carried(fs[j])}

(* Every byte before the first one of a frame in fs is in S or in a frame  *)
(* further ahead in fs.                                                    *)
Behind(S, fs) ==
  \A i \in 1..Len(fs) : \A b \in Nat :
    b < fs[i].seq => b \in S \/ \E j \in 1..(i - 1) : b \in Carried(fs[j])

LEMMA FrameFields ==
  ASSUME NEW f \in Frame
  PROVE  /\ f.seq \in Nat /\ f.seq <= StreamLen /\ f.len \in Nat /\ f.err \in Int
         /\ f.ihl \in Nat /\ f.ihl <= 15 /\ f.off \in Nat /\ f.off <= 15
         /\ Carried(f) \subseteq Nat
         /\ \A b \in Nat : b \in Carried(f) <=> f.seq <= b /\ b < f.seq + f.len
<1>1. /\ f.seq \in 0..StreamLen /\ f.len \in Size /\ f.err \in Wrong
      /\ f.ihl \in HdrWords /\ f.off \in OffWords
  BY DEF Frame
<1>2. f.seq \in Nat /\ f.seq <= StreamLen
  BY <1>1, StreamAssumption
<1>3. f.len \in Nat /\ f.err \in Int
  <2>1. Size \subseteq Nat /\ Wrong \subseteq Int
    BY StreamAssumption
  <2> QED BY <1>1, <2>1, Zenon
<1>4. f.ihl \in 5..15 /\ f.off \in 5..15
  BY <1>1, HeaderAssumption, Zenon
<1>5. f.ihl \in Nat /\ f.ihl <= 15 /\ f.off \in Nat /\ f.off <= 15
  BY <1>4
<1> QED BY <1>2, <1>3, <1>5 DEF Carried, Span

LEMMA FramesType ==
  ASSUME NEW q \in Seq(SkBuff)
  PROVE  FramesOf(q) \in Seq(Frame) /\ Len(FramesOf(q)) = Len(q)
<1>1. \A i \in 1..Len(q) : q[i] \in SkBuff
  BY ElementOfSeq
<1>2. \A i \in 1..Len(q) : q[i].frame \in Frame
  BY <1>1 DEF SkBuff
<1> QED BY <1>2 DEF FramesOf

LEMMA FramesAppend ==
  ASSUME NEW q \in Seq(SkBuff), NEW s \in SkBuff
  PROVE  FramesOf(Append(q, s)) = Append(FramesOf(q), s.frame)
<1>1. FramesOf(q) \in Seq(Frame) /\ Len(FramesOf(q)) = Len(q)
  BY FramesType
<1>2. Append(q, s) \in Seq(SkBuff) /\ Len(Append(q, s)) = Len(q) + 1
  OBVIOUS
<1>3. FramesOf(Append(q, s)) \in Seq(Frame)
  BY <1>2, FramesType
<1>4. \A i \in 1..(Len(q) + 1) :
        FramesOf(Append(q, s))[i] = Append(FramesOf(q), s.frame)[i]
  BY <1>1, <1>2 DEF FramesOf
<1>5. s.frame \in Frame
  BY DEF SkBuff
<1>6. Append(FramesOf(q), s.frame) \in Seq(Frame)
  BY <1>1, <1>5
<1>7. Len(FramesOf(Append(q, s))) = Len(q) + 1
  BY <1>2, FramesType
<1>8. Len(Append(FramesOf(q), s.frame)) = Len(q) + 1
  BY <1>1, <1>5
<1> QED BY <1>3, <1>4, <1>6, <1>7, <1>8, SeqEqual

LEMMA FramesTail ==
  ASSUME NEW q \in Seq(SkBuff), q # <<>>
  PROVE  /\ FramesOf(q) # <<>>
         /\ Head(FramesOf(q)) = Head(q).frame
         /\ FramesOf(Tail(q)) = Tail(FramesOf(q))
<1>1. FramesOf(q) \in Seq(Frame) /\ Len(FramesOf(q)) = Len(q) /\ Len(q) > 0
  BY FramesType, EmptySeq
<1>2. Tail(q) \in Seq(SkBuff) /\ Len(Tail(q)) = Len(q) - 1
  BY HeadTailProperties
<1>3. FramesOf(q) # <<>>
  BY <1>1
<1>4. Tail(FramesOf(q)) \in Seq(Frame) /\ Len(Tail(FramesOf(q))) = Len(q) - 1
  BY <1>1, <1>3
<1>5. FramesOf(Tail(q)) \in Seq(Frame) /\ Len(FramesOf(Tail(q))) = Len(q) - 1
  BY <1>2, FramesType
<1>6. \A i \in 1..(Len(q) - 1) : FramesOf(Tail(q))[i] = Tail(FramesOf(q))[i]
  BY <1>1, <1>2, <1>3 DEF FramesOf
<1>7. FramesOf(Tail(q)) = Tail(FramesOf(q))
  BY <1>4, <1>5, <1>6, SeqEqual
<1> QED BY <1>1, <1>3, <1>7 DEF FramesOf

LEMMA BehindMore ==
  ASSUME NEW S, NEW T, S \subseteq T, NEW fs \in Seq(Frame), Behind(S, fs)
  PROVE  Behind(T, fs)
BY DEF Behind

LEMMA BytesAppend ==
  ASSUME NEW fs \in Seq(Frame), NEW f \in Frame
  PROVE  Bytes(Append(fs, f)) = Bytes(fs) \cup Carried(f)
<1> DEFINE n == Len(fs)
           g == Append(fs, f)
<1>1. /\ n \in Nat /\ Len(g) = n + 1 /\ g[n + 1] = f
      /\ \A j \in 1..n : g[j] = fs[j]
  OBVIOUS
<1>2. Carried(f) \subseteq Nat
  BY FrameFields
<1> HIDE DEF n, g
<1>3. \A j \in 1..(n + 1) : j \in 1..n \/ j = n + 1
  BY <1>1
<1>4. 1..n \subseteq 1..(n + 1) /\ n + 1 \in 1..(n + 1)
  BY <1>1
<1> QED BY <1>1, <1>2, <1>3, <1>4 DEF Bytes, n, g

LEMMA BytesTail ==
  ASSUME NEW fs \in Seq(Frame), fs # <<>>
  PROVE  /\ Head(fs) \in Frame /\ Tail(fs) \in Seq(Frame)
         /\ Bytes(fs) = Carried(Head(fs)) \cup Bytes(Tail(fs))
<1> DEFINE n == Len(fs)
           t == Tail(fs)
<1>1. /\ n \in Nat /\ n > 0 /\ Len(t) = n - 1 /\ t \in Seq(Frame)
      /\ Head(fs) = fs[1] /\ fs[1] \in Frame
      /\ \A j \in 1..(n - 1) : t[j] = fs[j + 1]
  OBVIOUS
<1>2. Carried(fs[1]) \subseteq Nat
  BY <1>1, FrameFields
<1> HIDE DEF n, t
<1>3. \A j \in 1..n : j = 1 \/ (j - 1 \in 1..(n - 1) /\ fs[j] = t[j - 1])
  BY <1>1
<1>4. 1 \in 1..n /\ \A j \in 1..(n - 1) : j + 1 \in 1..n
  BY <1>1
<1>5. Bytes(fs) \subseteq Carried(fs[1]) \cup Bytes(t)
  <2> SUFFICES ASSUME NEW b \in Bytes(fs) PROVE b \in Carried(fs[1]) \cup Bytes(t)
    OBVIOUS
  <2>1. b \in Nat /\ \E j \in 1..n : b \in Carried(fs[j])
    BY DEF Bytes, n
  <2>2. PICK j \in 1..n : b \in Carried(fs[j])
    BY <2>1
  <2> QED BY <1>1, <1>3, <2>1, <2>2 DEF Bytes
<1>6. Carried(fs[1]) \cup Bytes(t) \subseteq Bytes(fs)
  BY <1>1, <1>2, <1>4 DEF Bytes, n
<1> QED BY <1>1, <1>5, <1>6 DEF t

LEMMA BehindAppend ==
  ASSUME NEW S, NEW fs \in Seq(Frame), NEW f \in Frame, Behind(S, fs),
         \A b \in Nat : b < f.seq => b \in S \cup Bytes(fs)
  PROVE  Behind(S, Append(fs, f))
<1> DEFINE n == Len(fs)
           g == Append(fs, f)
<1>1. /\ n \in Nat /\ Len(g) = n + 1 /\ g[n + 1] = f
      /\ \A j \in 1..n : g[j] = fs[j]
  OBVIOUS
<1> HIDE DEF n, g
<1> SUFFICES ASSUME NEW i \in 1..(n + 1), NEW b \in Nat, b < g[i].seq
             PROVE  b \in S \/ \E j \in 1..(i - 1) : b \in Carried(g[j])
  BY <1>1 DEF Behind, g
<1>2. CASE i = n + 1
  <2>1. b \in S \/ b \in Bytes(fs)
    BY <1>1, <1>2
  <2>2. b \in Bytes(fs) => \E j \in 1..n : b \in Carried(fs[j])
    BY DEF Bytes, n
  <2>3. i - 1 = n
    BY <1>1, <1>2
  <2> QED BY <1>1, <2>1, <2>2, <2>3
<1>3. CASE i \in 1..n
  <2>1. b \in S \/ \E j \in 1..(i - 1) : b \in Carried(fs[j])
    BY <1>1, <1>3 DEF Behind, n
  <2>2. 1..(i - 1) \subseteq 1..n
    BY <1>1, <1>3
  <2> QED BY <1>1, <2>1, <2>2
<1> QED BY <1>1, <1>2, <1>3

LEMMA BehindTail ==
  ASSUME NEW S, NEW fs \in Seq(Frame), fs # <<>>, Behind(S, fs)
  PROVE  /\ \A b \in Nat : b < Head(fs).seq => b \in S
         /\ Behind(S \cup Carried(Head(fs)), Tail(fs))
<1> DEFINE n == Len(fs)
           t == Tail(fs)
<1>1. /\ n \in Nat /\ n > 0 /\ Len(t) = n - 1
      /\ Head(fs) = fs[1]
      /\ \A j \in 1..(n - 1) : t[j] = fs[j + 1]
  OBVIOUS
<1> HIDE DEF n, t
<1>2. \A b \in Nat : b < fs[1].seq => b \in S
  <2>1. 1 \in 1..n /\ ~ \E j \in 1..(1 - 1) : TRUE
    BY <1>1
  <2> QED BY <2>1 DEF Behind, n
<1>3. ASSUME NEW i \in 1..(n - 1), NEW b \in Nat, b < t[i].seq
      PROVE  b \in S \cup Carried(fs[1]) \/ \E j \in 1..(i - 1) : b \in Carried(t[j])
  <2>1. i + 1 \in 1..n /\ t[i] = fs[i + 1] /\ (i + 1) - 1 = i
    BY <1>1
  <2>2. b \in S \/ \E j \in 1..i : b \in Carried(fs[j])
    BY <1>3, <2>1 DEF Behind, n
  <2>3. CASE b \in S
    BY <2>3
  <2>4. CASE \E j \in 1..i : b \in Carried(fs[j])
    <3>1. PICK j \in 1..i : b \in Carried(fs[j])
      BY <2>4
    <3>2. j = 1 \/ (j - 1 \in 1..(i - 1) /\ t[j - 1] = fs[j])
      BY <1>1
    <3> QED BY <3>1, <3>2
  <2> QED BY <2>2, <2>3, <2>4
<1> QED BY <1>1, <1>2, <1>3 DEF Behind, t

-----------------------------------------------------------------------------
(* What each stage has written in the skbufs it has passed on *)

Sent(f, n) == f.seq + f.len <= n
EthGood(s, n, lost) ==
  /\ s \in SkBuff
  /\ s.blen = Captured(s.frame) /\ s.NetworkIndex = LEN_ETHHDR
  /\ Sent(s.frame, n) /\ Missing(s.frame) \subseteq lost
IPGood(s, n, lost) ==
  /\ EthGood(s, n, lost)
  /\ s.PayloadLen = (4 * s.frame.off + s.frame.len + s.frame.err) % LenMod
  /\ s.TransportIndex = LEN_ETHHDR + 4 * s.frame.ihl
CurGood(s, n) ==
  /\ s \in SkBuff /\ s.blen = Captured(s.frame) /\ Sent(s.frame, n)
  /\ s.PayloadLen = Claimed(s.frame)
  /\ s.AppIndex = LEN_ETHHDR + Headers(s.frame)

Goods ==
  /\ \A i \in 1..Len(wire) : Sent(wire[i], next)
  /\ ethSkb # None => EthGood(ethSkb, next, gone)
  /\ \A i \in 1..Len(ethQueue) : EthGood(ethQueue[i], next, gone)
  /\ ipSkb # None => IPGood(ipSkb, next, gone)
  /\ \A i \in 1..Len(ipQueue) : IPGood(ipQueue[i], next, gone)
  /\ cur # None => CurGood(cur, next) /\ todo <= InBuffer(cur)
  /\ cur = None \/ loop = "recv" => todo = 0

TInv == TypeOK /\ Goods

LEMMA StreamNat == StreamLen \in Nat
BY StreamAssumption

LEMMA LenModNat == LenMod \in Nat /\ LenMod > 0
BY StreamAssumption

(* Arithmetic modulo 2^16, or whatever the width of a length is.           *)
LEMMA ModUnique ==
  ASSUME NEW m \in Nat, m > 0, NEW p \in Int, NEW q \in Int,
         NEW r \in 0..(m - 1), NEW t \in 0..(m - 1), m * p + r = m * q + t
  PROVE  r = t
<1>1. m * (p - q) = t - r
  BY Z3T(30)
<1>2. CASE p - q >= 1
  <2>1. m * (p - q) >= m
    BY <1>2, Z3T(30)
  <2> QED BY <1>1, <2>1
<1>3. CASE p - q <= -1
  <2>1. m * (p - q) <= -m
    BY <1>3, Z3T(30)
  <2> QED BY <1>1, <2>1
<1>4. CASE p - q = 0
  BY <1>1, <1>4
<1> QED BY <1>2, <1>3, <1>4

LEMMA ModRange == \A a \in Int : a % LenMod \in 0..(LenMod - 1)
BY LenModNat

LEMMA Low16 ==
  \A n \in Nat : n < LenMod => n % LenMod = n /\ n \in 0..(LenMod - 1)
BY LenModNat

LEMMA ModParts ==
  ASSUME NEW a \in Int
  PROVE  /\ a \div LenMod \in Int /\ a % LenMod \in 0..(LenMod - 1)
         /\ a = LenMod * (a \div LenMod) + (a % LenMod)
BY LenModNat

LEMMA ModMinus ==
  ASSUME NEW a \in Int, NEW b \in Int
  PROVE  ((a % LenMod) - b) % LenMod = (a - b) % LenMod
<1> DEFINE m == LenMod
           p == a \div m
           e == a % m
           d == e - b
           c == a - b
           q == d \div m
           r == d % m
           s == c \div m
           t == c % m
<1>1. m \in Nat /\ m > 0
  BY LenModNat
<1>2. p \in Int /\ e \in Int /\ a = m * p + e
  <2>1. e \in 0..(m - 1)
    BY ModParts
  <2> QED BY <1>1, <2>1, ModParts
<1>3. d \in Int /\ c \in Int
  BY <1>2
<1> HIDE DEF d, c
<1>4. q \in Int /\ r \in 0..(m - 1) /\ d = m * q + r
  BY <1>3, ModParts
<1>5. s \in Int /\ t \in 0..(m - 1) /\ c = m * s + t
  BY <1>3, ModParts
<1> HIDE DEF m, p, e, q, r, s, t
<1>6. m * (p + q) + r = m * s + t
  <2>1. m * (p + q) = m * p + m * q
    BY <1>1, <1>2, <1>4, Z3T(30)
  <2>2. m * p \in Int /\ m * q \in Int /\ m * s \in Int /\ r \in Int /\ t \in Int
    BY <1>1, <1>2, <1>4, <1>5
  <2>3. c = m * p + d
    BY <1>2, <2>2 DEF c, d
  <2> QED BY <1>4, <1>5, <2>1, <2>2, <2>3
<1>7. p + q \in Int
  BY <1>2, <1>4
<1>8. r = t
  BY <1>1, <1>4, <1>5, <1>6, <1>7, ModUnique
<1> QED BY <1>8 DEF r, t, m, d, c, e

(* A header counted in a length goes out of it again.                      *)
LEMMA TakeOff ==
  ASSUME NEW a \in Int, NEW b \in Int
  PROVE  (((a + b) % LenMod) - a) % LenMod = b % LenMod
<1>1. a + b \in Int /\ (a + b) - a = b
  OBVIOUS
<1> QED BY <1>1, ModMinus

LEMMA TInvInit == Init => TInv
<1> SUFFICES ASSUME Init PROVE TInv
  OBVIOUS
<1>1. next \in 0..StreamLen /\ una \in 0..next /\ fill \in 0..ChanCap
  BY StreamNat, ChannelAssumption DEF Init
<1>2. sends \in 0..MaxSends
  BY StreamAssumption DEF Init
<1>3. Len(ethQueue) <= QueueCap /\ Len(ipQueue) <= QueueCap
  BY ChannelAssumption DEF Init
<1>4. TypeOK
  BY <1>1, <1>2, <1>3 DEF Init, TypeOK
<1>5. Goods
  BY DEF Init, Goods
<1> QED BY <1>4, <1>5 DEF TInv

(* The peer sends, the network loses and the capture cuts: all of it only  *)
(* adds to next and to gone, which disturbs no skbuf.                      *)
LEMMA GoodStays ==
  ASSUME NEW n \in Nat, NEW m \in Nat, n <= m, NEW S, NEW T, S \subseteq T
  PROVE  /\ \A f \in Frame : Sent(f, n) => Sent(f, m)
         /\ \A s : EthGood(s, n, S) => EthGood(s, m, T)
         /\ \A s : IPGood(s, n, S) => IPGood(s, m, T)
         /\ \A s : CurGood(s, n) => CurGood(s, m)
<1>1. \A f \in Frame : Sent(f, n) => Sent(f, m)
  BY FrameFields DEF Sent
<1>2. \A s : EthGood(s, n, S) => EthGood(s, m, T)
  <2> SUFFICES ASSUME NEW s, EthGood(s, n, S) PROVE EthGood(s, m, T)
    OBVIOUS
  <2>1. s.frame \in Frame
    BY DEF EthGood, SkBuff
  <2> QED BY <1>1, <2>1 DEF EthGood
<1>3. \A s : CurGood(s, n) => CurGood(s, m)
  <2> SUFFICES ASSUME NEW s, CurGood(s, n) PROVE CurGood(s, m)
    OBVIOUS
  <2>1. s.frame \in Frame
    BY DEF CurGood, SkBuff
  <2> QED BY <1>1, <2>1 DEF CurGood
<1> QED BY <1>1, <1>2, <1>3 DEF IPGood

(* So a step that moves no skbuf leaves them good.                         *)
LEMMA GoodsStay ==
  ASSUME TInv, TypeOK', next <= next', gone \subseteq gone',
         \A i \in 1..Len(wire') : Sent(wire'[i], next'),
         UNCHANGED <<ethSkb, ethQueue, ipSkb, ipQueue, loopVars>>
  PROVE  TInv'
<1>1. next \in Nat /\ next' \in Nat
  BY StreamNat DEF TInv, TypeOK
<1>2. /\ \A f \in Frame : Sent(f, next) => Sent(f, next')
      /\ \A s : EthGood(s, next, gone) => EthGood(s, next', gone')
      /\ \A s : IPGood(s, next, gone) => IPGood(s, next', gone')
      /\ \A s : CurGood(s, next) => CurGood(s, next')
  BY <1>1, GoodStays
<1>3. Goods'
  BY <1>2 DEF TInv, Goods, loopVars
<1> QED BY <1>3 DEF TInv

LEMMA TransmitType ==
  ASSUME TInv, NEW f \in Frame, Transmit(f), next' \in 0..StreamLen, next <= next',
         f.seq + f.len <= next'
  PROVE  TInv'
<1>0. next \in Nat /\ next' \in Nat
  BY StreamNat DEF TInv, TypeOK
<1>1. wire' \in Seq(Frame) /\ Len(wire') = Len(wire) + 1 /\ wire'[Len(wire) + 1] = f
      /\ \A i \in 1..Len(wire) : wire'[i] = wire[i] /\ wire[i] \in Frame
  BY DEF TInv, TypeOK, Transmit
<1>2. TypeOK'
  <2>1. una' \in 0..next'
    BY <1>0 DEF TInv, TypeOK, Transmit
  <2>2. sends' \in 0..MaxSends
    <3>1. MaxSends \in Nat
      BY StreamAssumption
    <3>2. sends \in 0..MaxSends /\ sends < MaxSends /\ sends' = sends + 1
      BY DEF TInv, TypeOK, Transmit
    <3> QED BY <3>1, <3>2
  <2> QED BY <1>1, <2>1, <2>2 DEF TInv, TypeOK, Transmit, tcpVars, loopVars
<1>3. \A i \in 1..Len(wire') : Sent(wire'[i], next')
  <2>1. \A i \in 1..Len(wire) : Sent(wire[i], next')
    BY <1>0, <1>1, GoodStays DEF TInv, Goods
  <2>2. \A i \in 1..Len(wire') : i \in 1..Len(wire) \/ i = Len(wire) + 1
    BY <1>1 DEF TInv, TypeOK
  <2>3. Sent(f, next')
    BY DEF Sent
  <2> QED BY <1>1, <2>1, <2>2, <2>3
<1> QED BY <1>2, <1>3, GoodsStay DEF Transmit, tcpVars

LEMMA PeerSendType == ASSUME TInv, NEW f \in Frame, PeerSend(f) PROVE TInv'
<1>1. next \in Nat /\ f.len \in Nat
  BY StreamNat, FrameFields DEF TInv, TypeOK
<1>2. next' \in 0..StreamLen /\ next <= next' /\ f.seq + f.len <= next'
  BY <1>1, StreamNat DEF PeerSend
<1> QED BY <1>2, TransmitType DEF PeerSend

LEMMA PeerResendType == ASSUME TInv, NEW f \in Frame, PeerResend(f) PROVE TInv'
<1>1. next \in 0..StreamLen /\ next \in Nat
  BY StreamNat DEF TInv, TypeOK
<1>2. next' \in 0..StreamLen /\ next <= next' /\ f.seq + f.len <= next'
  BY <1>1 DEF PeerResend
<1> QED BY <1>2, TransmitType DEF PeerResend

LEMMA PeerAckedType == ASSUME TInv, NEW a \in acks, PeerAcked(a) PROVE TInv'
<1>1. next \in 0..StreamLen /\ next \in Nat /\ a \in Nat /\ a <= next
  BY StreamNat DEF TInv, TypeOK, PeerAcked
<1>2. una' \in 0..next' /\ next <= next'
  BY <1>1 DEF PeerAcked
<1>3. TypeOK'
  BY <1>2 DEF TInv, TypeOK, PeerAcked, tcpVars, loopVars
<1> QED
  BY <1>2, <1>3, GoodsStay DEF TInv, Goods, PeerAcked, tcpVars

(* The frame at the head of the wire, and those after it.                  *)
LEMMA WireHead ==
  ASSUME TInv, wire # <<>>
  PROVE  /\ Head(wire) \in Frame /\ Sent(Head(wire), next)
         /\ Tail(wire) \in Seq(Frame)
         /\ \A i \in 1..Len(Tail(wire)) : Sent(Tail(wire)[i], next)
         /\ Carried(Head(wire)) \subseteq Nat
<1> DEFINE h == Head(wire)
<1>1. wire \in Seq(Frame) /\ \A i \in 1..Len(wire) : Sent(wire[i], next)
  BY DEF TInv, TypeOK, Goods
<1>2. h \in Frame /\ Tail(wire) \in Seq(Frame) /\ h = wire[1] /\ 1 \in 1..Len(wire)
  BY <1>1
<1>3. \A i \in 1..Len(Tail(wire)) : i + 1 \in 1..Len(wire) /\ Tail(wire)[i] = wire[i + 1]
  BY <1>1
<1>4. Sent(h, next)
  BY <1>1, <1>2
<1>5. \A i \in 1..Len(Tail(wire)) : Sent(Tail(wire)[i], next)
  BY <1>1, <1>3
<1>6. Carried(h) \subseteq Nat
  BY <1>2, FrameFields
<1> QED BY <1>2, <1>4, <1>5, <1>6

LEMMA LoseType == ASSUME TInv, Lose PROVE TInv'
<1>1. /\ Tail(wire) \in Seq(Frame)
      /\ \A i \in 1..Len(Tail(wire)) : Sent(Tail(wire)[i], next)
      /\ Carried(Head(wire)) \subseteq Nat
  BY WireHead DEF Lose
<1>2. TypeOK'
  <2>1. gone' \subseteq Nat
    BY <1>1 DEF Lose, TInv, TypeOK
  <2> QED BY <1>1, <2>1 DEF Lose, TInv, TypeOK, tcpVars, loopVars, peerVars
<1>3. next \in Nat
  BY StreamNat DEF TInv, TypeOK
<1> QED BY <1>1, <1>2, <1>3, GoodsStay DEF Lose, tcpVars, peerVars

LEMMA HeadersNat ==
  ASSUME NEW f \in Frame
  PROVE  /\ Headers(f) \in Nat /\ Headers(f) = 4 * f.ihl + 4 * f.off
         /\ LEN_ETHHDR + Headers(f) <= SnapLen
<1>1. f.ihl \in Nat /\ f.off \in Nat
  BY FrameFields
<1>2. f.ihl \in HdrWords /\ f.off \in OffWords
  BY DEF Frame
<1>3. LEN_ETHHDR + 4 * f.ihl + 4 * f.off <= SnapLen
  BY <1>2, CaptureAssumption
<1>4. SnapLen \in Nat
  BY CaptureAssumption, LenModNat
<1> QED BY <1>1, <1>3, <1>4 DEF Headers, LEN_ETHHDR

LEMMA CapturedNat ==
  ASSUME NEW f \in Frame
  PROVE  /\ Captured(f) \in Nat
         /\ LEN_ETHHDR + Headers(f) <= Captured(f)
         /\ Captured(f) <= SnapLen
         /\ \/ /\ Captured(f) = SnapLen
               /\ SnapLen <= LEN_ETHHDR + Headers(f) + f.len
            \/ /\ Captured(f) = MinFrame
               /\ LEN_ETHHDR + Headers(f) + f.len < MinFrame
            \/ /\ Captured(f) = LEN_ETHHDR + Headers(f) + f.len
               /\ MinFrame <= LEN_ETHHDR + Headers(f) + f.len
               /\ LEN_ETHHDR + Headers(f) + f.len <= SnapLen
<1> DEFINE h == Headers(f)
<1>1. f.len \in Nat /\ h \in Nat /\ LEN_ETHHDR + h <= SnapLen
  BY FrameFields, HeadersNat
<1>2. SnapLen \in Nat /\ MinFrame \in Nat /\ MinFrame <= SnapLen
  BY CaptureAssumption, LenModNat
<1> HIDE DEF h
<1> QED
  BY <1>1, <1>2 DEF Captured, WireLen, Larger, Smaller, LEN_ETHHDR, h

LEMMA MissingNat == ASSUME NEW f \in Frame PROVE Missing(f) \subseteq Nat
<1>1. f.seq \in Nat /\ Carried(f) \subseteq Nat
  BY FrameFields
<1>2. Span(f, Claimed(f)) \subseteq Nat
  BY <1>1 DEF Span
<1> QED BY <1>1, <1>2 DEF Missing

LEMMA EthReceiveType == ASSUME TInv, EthReceive PROVE TInv'
<1> DEFINE f == Head(wire)
           t == Tail(wire)
<1>1. /\ f \in Frame /\ Sent(f, next) /\ t \in Seq(Frame)
      /\ \A i \in 1..Len(t) : Sent(t[i], next)
  BY WireHead DEF EthReceive
<1>2. /\ wire' = t /\ gone' = gone \cup Missing(f)
      /\ ethSkb' = [frame |-> f, blen |-> Captured(f), PayloadLen |-> 0,
                    NetworkIndex |-> LEN_ETHHDR, TransportIndex |-> 0,
                    AppIndex |-> 0]
      /\ UNCHANGED <<peerVars, ethQueue, ipSkb, ipQueue, tcpVars>>
  BY DEF EthReceive
<1> HIDE DEF f, t
<1>3. ethSkb' \in SkBuff
  <2>1. 0 \in 0..(LenMod - 1) /\ LEN_ETHHDR \in Nat
    BY LenModNat DEF LEN_ETHHDR
  <2> QED BY <1>1, <1>2, <2>1, CapturedNat DEF SkBuff
<1>4. gone' \subseteq Nat
  BY <1>1, <1>2, MissingNat DEF TInv, TypeOK
<1>5. TypeOK'
  BY <1>1, <1>2, <1>3, <1>4 DEF TInv, TypeOK, peerVars, tcpVars, loopVars
<1>6. next \in Nat /\ next' = next
  BY <1>2, StreamNat DEF TInv, TypeOK, peerVars
<1>7. /\ \A s : EthGood(s, next, gone) => EthGood(s, next', gone')
      /\ \A s : IPGood(s, next, gone) => IPGood(s, next', gone')
  BY <1>2, <1>6, GoodStays
<1>8. EthGood(ethSkb', next', gone')
  BY <1>1, <1>2, <1>3, <1>6 DEF EthGood
<1>9. Goods'
  BY <1>1, <1>2, <1>6, <1>7, <1>8 DEF TInv, Goods, tcpVars, loopVars
<1> QED BY <1>5, <1>9 DEF TInv

(* What is in a channel after an element is put in or taken out.           *)
LEMMA QueueAppend ==
  ASSUME NEW q \in Seq(SkBuff), NEW s \in SkBuff
  PROVE  /\ Append(q, s) \in Seq(SkBuff) /\ Len(Append(q, s)) = Len(q) + 1
         /\ \A i \in 1..Len(Append(q, s)) :
              Append(q, s)[i] = s \/ \E j \in 1..Len(q) : Append(q, s)[i] = q[j]
<1>1. /\ Append(q, s) \in Seq(SkBuff) /\ Len(Append(q, s)) = Len(q) + 1
      /\ Append(q, s)[Len(q) + 1] = s
      /\ \A i \in 1..Len(q) : Append(q, s)[i] = q[i]
  OBVIOUS
<1>2. \A i \in 1..(Len(q) + 1) : i \in 1..Len(q) \/ i = Len(q) + 1
  OBVIOUS
<1> QED BY <1>1, <1>2

LEMMA QueueTail ==
  ASSUME NEW q \in Seq(SkBuff), q # <<>>
  PROVE  /\ Head(q) \in SkBuff /\ 1 \in 1..Len(q) /\ Head(q) = q[1]
         /\ Tail(q) \in Seq(SkBuff) /\ Len(Tail(q)) = Len(q) - 1
         /\ \A i \in 1..Len(Tail(q)) : \E j \in 1..Len(q) : Tail(q)[i] = q[j]
<1>1. /\ Head(q) \in SkBuff /\ 1 \in 1..Len(q) /\ Head(q) = q[1]
      /\ Tail(q) \in Seq(SkBuff) /\ Len(Tail(q)) = Len(q) - 1
      /\ Len(q) \in Nat
      /\ \A i \in 1..(Len(q) - 1) : Tail(q)[i] = q[i + 1]
  OBVIOUS
<1>2. \A i \in 1..(Len(q) - 1) : i + 1 \in 1..Len(q)
  BY <1>1
<1> QED BY <1>1, <1>2

LEMMA EthSendType == ASSUME TInv, EthSend PROVE TInv'
<1>1. /\ ethSkb \in SkBuff /\ ethQueue \in Seq(SkBuff) /\ Len(ethQueue) < QueueCap
      /\ EthGood(ethSkb, next, gone)
  BY DEF TInv, TypeOK, Goods, EthSend
<1>2. ethQueue' = Append(ethQueue, ethSkb) /\ ethSkb' = None
      /\ UNCHANGED <<peerVars, wire, ipSkb, ipQueue, tcpVars, gone>>
  BY DEF EthSend
<1>3. /\ ethQueue' \in Seq(SkBuff) /\ Len(ethQueue') = Len(ethQueue) + 1
      /\ \A i \in 1..Len(ethQueue') : ethQueue'[i] = ethSkb
                         \/ \E j \in 1..Len(ethQueue) : ethQueue'[i] = ethQueue[j]
  BY <1>1, <1>2, QueueAppend
<1>4. Len(ethQueue') <= QueueCap
  <2>1. Len(ethQueue) \in Nat /\ QueueCap \in Nat
    BY <1>1, ChannelAssumption
  <2> QED BY <1>1, <1>3, <2>1
<1>5. TypeOK'
  BY <1>2, <1>3, <1>4 DEF TInv, TypeOK, peerVars, tcpVars, loopVars
<1>6. Goods'
  BY <1>1, <1>2, <1>3 DEF TInv, Goods, peerVars, tcpVars, loopVars
<1> QED BY <1>5, <1>6 DEF TInv

LEMMA IPSendOutType == ASSUME TInv, IPSendOut PROVE TInv'
<1>1. /\ ipSkb \in SkBuff /\ ipQueue \in Seq(SkBuff) /\ Len(ipQueue) < QueueCap
      /\ IPGood(ipSkb, next, gone)
  BY DEF TInv, TypeOK, Goods, IPSendOut
<1>2. ipQueue' = Append(ipQueue, ipSkb) /\ ipSkb' = None
      /\ UNCHANGED <<peerVars, wire, ethSkb, ethQueue, tcpVars, gone>>
  BY DEF IPSendOut
<1>3. /\ ipQueue' \in Seq(SkBuff) /\ Len(ipQueue') = Len(ipQueue) + 1
      /\ \A i \in 1..Len(ipQueue') : ipQueue'[i] = ipSkb
                         \/ \E j \in 1..Len(ipQueue) : ipQueue'[i] = ipQueue[j]
  BY <1>1, <1>2, QueueAppend
<1>4. Len(ipQueue') <= QueueCap
  <2>1. Len(ipQueue) \in Nat /\ QueueCap \in Nat
    BY <1>1, ChannelAssumption
  <2> QED BY <1>1, <1>3, <2>1
<1>5. TypeOK'
  BY <1>2, <1>3, <1>4 DEF TInv, TypeOK, peerVars, tcpVars, loopVars
<1>6. Goods'
  BY <1>1, <1>2, <1>3 DEF TInv, Goods, peerVars, tcpVars, loopVars
<1> QED BY <1>5, <1>6 DEF TInv

(* ip.receive takes the IP header off, also where the length field is      *)
(* smaller than the header and the difference wraps around.                *)
LEMMA IPCounts ==
  ASSUME TInv, ethQueue # <<>>, NEW s, s = Head(ethQueue)
  PROVE  /\ EthGood(s, next, gone)
         /\ PayloadOf(s) = (4 * s.frame.off + s.frame.len + s.frame.err) % LenMod
         /\ PayloadOf(s) \in 0..(LenMod - 1)
         /\ (4 * s.frame.ihl + s.NetworkIndex) % LenMod = LEN_ETHHDR + 4 * s.frame.ihl
         /\ (4 * s.frame.ihl + s.NetworkIndex) % LenMod \in Nat
<1>1. EthGood(s, next, gone)
  BY QueueTail DEF TInv, TypeOK, Goods
<1>2. s.frame \in Frame
  BY <1>1 DEF EthGood, SkBuff
<1> DEFINE f == s.frame
<1>3. f.len \in Nat /\ f.err \in Int /\ f.ihl \in Nat /\ f.off \in Nat
  BY <1>2, FrameFields
<1>4. LEN_ETHHDR + 4 * f.ihl + 4 * f.off <= SnapLen /\ SnapLen < LenMod
  <2>1. Headers(f) = 4 * f.ihl + 4 * f.off /\ LEN_ETHHDR + Headers(f) <= SnapLen
    BY <1>2, HeadersNat
  <2> QED BY <1>3, <2>1, CaptureAssumption, LenModNat DEF LEN_ETHHDR
<1>5. s.NetworkIndex = 14
  BY <1>1 DEF EthGood, LEN_ETHHDR
<1>6. PayloadOf(s) = (((Headers(f) + f.len + f.err) % LenMod) - 4 * f.ihl) % LenMod
  BY DEF PayloadOf, TotLength
<1> HIDE DEF f
<1>7. PayloadOf(s) = (4 * f.off + f.len + f.err) % LenMod
  <2> DEFINE a == 4 * f.ihl
             b == 4 * f.off + f.len + f.err
  <2>1. a \in Int /\ b \in Int
    BY <1>3
  <2>2. Headers(f) + f.len + f.err = a + b
    BY <1>3, SMTT(30) DEF Headers
  <2>3. PayloadOf(s) = (((a + b) % LenMod) - a) % LenMod
    BY <1>6, <2>2
  <2> HIDE DEF a, b
  <2>4. PayloadOf(s) = b % LenMod
    BY <2>1, <2>3, TakeOff
  <2> QED BY <2>4 DEF b
<1>8. PayloadOf(s) \in 0..(LenMod - 1)
  <2>1. 4 * f.off + f.len + f.err \in Int
    BY <1>3
  <2> QED BY <1>7, <2>1, ModRange
<1>9. (4 * f.ihl + s.NetworkIndex) % LenMod = 14 + 4 * f.ihl
  <2>0. 4 * f.ihl \in Nat /\ 4 * f.off \in Nat
    BY <1>3
  <2>1. /\ 4 * f.ihl + 14 \in Nat /\ 4 * f.ihl + 14 < LenMod
        /\ 4 * f.ihl + 14 = 14 + 4 * f.ihl
    BY <1>4, <2>0, LenModNat, CaptureAssumption DEF LEN_ETHHDR
  <2> QED BY <1>5, <2>1, Low16
<1>10. (4 * f.ihl + s.NetworkIndex) % LenMod \in Nat
  BY <1>3, <1>9
<1> QED BY <1>1, <1>7, <1>8, <1>9, <1>10 DEF LEN_ETHHDR, f

LEMMA IPReceiveType == ASSUME TInv, IPReceive PROVE TInv'
<1> DEFINE s == Head(ethQueue)
           r == [s EXCEPT !.PayloadLen = PayloadOf(s),
                          !.TransportIndex =
                            (4 * s.frame.ihl + s.NetworkIndex) % LenMod]
<1>1. /\ ethQueue \in Seq(SkBuff) /\ ethQueue # <<>>
      /\ ipSkb' = r /\ ethQueue' = Tail(ethQueue)
      /\ UNCHANGED <<peerVars, wire, ethSkb, ipQueue, tcpVars, gone>>
  BY DEF TInv, TypeOK, IPReceive
<1>2. /\ EthGood(s, next, gone)
      /\ PayloadOf(s) = (4 * s.frame.off + s.frame.len + s.frame.err) % LenMod
      /\ PayloadOf(s) \in 0..(LenMod - 1)
      /\ (4 * s.frame.ihl + s.NetworkIndex) % LenMod = LEN_ETHHDR + 4 * s.frame.ihl
      /\ (4 * s.frame.ihl + s.NetworkIndex) % LenMod \in Nat
  BY <1>1, IPCounts
<1>3. /\ Tail(ethQueue) \in Seq(SkBuff) /\ Len(Tail(ethQueue)) = Len(ethQueue) - 1
      /\ \A i \in 1..Len(Tail(ethQueue)) :
           \E j \in 1..Len(ethQueue) : Tail(ethQueue)[i] = ethQueue[j]
  BY <1>1, QueueTail
<1> HIDE DEF s
<1>4. /\ r \in SkBuff /\ r.frame = s.frame /\ r.blen = s.blen
      /\ r.NetworkIndex = s.NetworkIndex
      /\ r.PayloadLen = PayloadOf(s)
      /\ r.TransportIndex = (4 * s.frame.ihl + s.NetworkIndex) % LenMod
  <2> DEFINE P == PayloadOf(s)
             T == (4 * s.frame.ihl + s.NetworkIndex) % LenMod
  <2>1. s \in SkBuff /\ P \in 0..(LenMod - 1) /\ T \in Nat
    BY <1>2 DEF EthGood
  <2> HIDE DEF P, T
  <2>2. /\ [s EXCEPT !.PayloadLen = P, !.TransportIndex = T] \in SkBuff
        /\ [s EXCEPT !.PayloadLen = P, !.TransportIndex = T].frame = s.frame
        /\ [s EXCEPT !.PayloadLen = P, !.TransportIndex = T].blen = s.blen
        /\ [s EXCEPT !.PayloadLen = P, !.TransportIndex = T].NetworkIndex = s.NetworkIndex
        /\ [s EXCEPT !.PayloadLen = P, !.TransportIndex = T].PayloadLen = P
        /\ [s EXCEPT !.PayloadLen = P, !.TransportIndex = T].TransportIndex = T
    BY <2>1 DEF SkBuff
  <2> QED BY <2>2 DEF P, T
<1> HIDE DEF r
<1>5. IPGood(r, next, gone)
  BY <1>2, <1>4 DEF IPGood, EthGood
<1>6. Len(Tail(ethQueue)) <= QueueCap
  <2>1. Len(ethQueue) \in Nat /\ QueueCap \in Nat /\ Len(ethQueue) <= QueueCap
    BY <1>1, ChannelAssumption DEF TInv, TypeOK
  <2> QED BY <1>3, <2>1
<1>7. TypeOK'
  BY <1>1, <1>3, <1>4, <1>6 DEF TInv, TypeOK, peerVars, tcpVars, loopVars
<1>8. Goods'
  BY <1>1, <1>3, <1>5 DEF TInv, Goods, peerVars, tcpVars, loopVars
<1> QED BY <1>7, <1>8 DEF TInv

(* Parse takes the TCP header off, and wraps around in the same way.       *)
LEMMA ParseCounts ==
  ASSUME TInv, NEW s, IPGood(s, next, gone)
  PROVE  /\ CurGood(Parse(s), next) /\ Parse(s).frame = s.frame
         /\ s.frame \in Frame /\ Sent(s.frame, next)
         /\ AckFor(Parse(s)) = s.frame.seq + Claimed(s.frame)
         /\ AckFor(Parse(s)) \in Nat
<1>1. s \in SkBuff /\ s.frame \in Frame /\ Sent(s.frame, next)
  BY DEF IPGood, EthGood, SkBuff
<1> DEFINE f == s.frame
           P == (s.PayloadLen - 4 * f.off) % LenMod
           A == (s.TransportIndex + 4 * f.off) % LenMod
           r == [s EXCEPT !.PayloadLen = P, !.AppIndex = A]
<1>2. /\ f.seq \in Nat /\ f.len \in Nat /\ f.err \in Int
      /\ f.ihl \in Nat /\ f.off \in Nat
  BY <1>1, FrameFields
<1>3. Parse(s) = r
  <2>1. Parse(s) = [s EXCEPT !.PayloadLen = (s.PayloadLen - 4 * s.frame.off) % LenMod,
                             !.AppIndex = (s.TransportIndex + 4 * s.frame.off) % LenMod]
    BY <1>1 DEF Parse, SkBuff
  <2> QED BY <2>1
<1>4. LEN_ETHHDR + Headers(f) <= SnapLen /\ Headers(f) = 4 * f.ihl + 4 * f.off
  BY <1>1, HeadersNat
<1> HIDE DEF f
<1>5. P = Claimed(f) /\ P \in 0..(LenMod - 1)
  <2>1. s.PayloadLen = (4 * f.off + f.len + f.err) % LenMod
    BY DEF IPGood, f
  <2>2. 4 * f.off \in Int /\ f.len + f.err \in Int
    BY <1>2
  <2>3. 4 * f.off + f.len + f.err = 4 * f.off + (f.len + f.err)
    BY <1>2
  <2>4. P = (f.len + f.err) % LenMod
    <3> DEFINE a == 4 * f.off
               b == f.len + f.err
    <3>1. a \in Int /\ b \in Int /\ P = (((a + b) % LenMod) - a) % LenMod
      BY <2>1, <2>2, <2>3
    <3> HIDE DEF a, b, P
    <3>2. P = b % LenMod
      BY <3>1, TakeOff
    <3> QED BY <3>2 DEF b
  <2> QED BY <2>2, <2>4, ModRange DEF Claimed
<1>6. A = LEN_ETHHDR + Headers(f) /\ A \in Nat
  <2>1. s.TransportIndex = 14 + 4 * f.ihl
    BY DEF IPGood, f, LEN_ETHHDR
  <2>2. SnapLen < LenMod /\ SnapLen \in Nat
    BY CaptureAssumption, LenModNat
  <2>3. /\ s.TransportIndex + 4 * f.off = 14 + Headers(f)
        /\ 14 + Headers(f) \in Nat
        /\ 14 + Headers(f) < LenMod
    BY <1>2, <1>4, <2>1, <2>2, LenModNat DEF LEN_ETHHDR
  <2> QED BY <2>3, Low16 DEF LEN_ETHHDR
<1> HIDE DEF P, A
<1>7. /\ r \in SkBuff /\ r.frame = s.frame /\ r.blen = s.blen
      /\ r.PayloadLen = P /\ r.AppIndex = A
  BY <1>1, <1>5, <1>6 DEF SkBuff
<1> HIDE DEF r
<1>8. CurGood(r, next)
  BY <1>5, <1>6, <1>7 DEF CurGood, IPGood, EthGood, f
<1>9. AckFor(r) = f.seq + Claimed(f)
  BY <1>5, <1>7 DEF AckFor, f
<1>10. f.seq + Claimed(f) \in Nat
  BY <1>2, <1>5, LenModNat
<1> QED BY <1>1, <1>3, <1>7, <1>8, <1>9, <1>10 DEF f

(* What listenForPackets has to put in readChan.                           *)
LEMMA BufferBytes ==
  ASSUME NEW n, NEW s, CurGood(s, n)
  PROVE  /\ s.frame \in Frame /\ InBuffer(s) \in Nat
         /\ InBuffer(s) = Captured(s.frame) - (LEN_ETHHDR + Headers(s.frame))
<1>1. s.frame \in Frame
  BY DEF CurGood, SkBuff
<1>2. /\ Captured(s.frame) \in Nat /\ Headers(s.frame) \in Nat
      /\ LEN_ETHHDR + Headers(s.frame) <= Captured(s.frame)
  BY <1>1, CapturedNat, HeadersNat
<1>3. InBuffer(s) = Captured(s.frame) - (LEN_ETHHDR + Headers(s.frame))
  BY DEF InBuffer, CurGood
<1>4. InBuffer(s) \in Nat
  BY <1>2, <1>3 DEF LEN_ETHHDR
<1> QED BY <1>1, <1>3, <1>4

(* It is of the stream, one part or the other.                             *)
LEMMA StreamParts ==
  ASSUME NEW s, s.frame \in Frame, NEW i \in Nat, NEW j \in Nat, i <= j,
         NEW k \in Nat, j <= k
  PROVE  /\ OfStream(s, i, j) \subseteq Carried(s.frame)
         /\ OfStream(s, i, k) = OfStream(s, i, j) \cup OfStream(s, j, k)
<1> DEFINE q == s.frame.seq
           n == s.frame.len
<1>1. q \in Nat /\ n \in Nat
  BY FrameFields
<1>2. /\ OfStream(s, i, j) = (q + i)..(q + Smaller(j, n) - 1)
      /\ OfStream(s, i, k) = (q + i)..(q + Smaller(k, n) - 1)
      /\ OfStream(s, j, k) = (q + j)..(q + Smaller(k, n) - 1)
      /\ Carried(s.frame) = q..(q + n - 1)
  BY DEF OfStream, Carried, Span
<1> HIDE DEF q, n
<1>3. (q + i)..(q + Smaller(j, n) - 1) \subseteq q..(q + n - 1)
  BY <1>1 DEF Smaller
<1>4. ASSUME NEW b \in Int
      PROVE  b \in (q + i)..(q + Smaller(k, n) - 1)
               <=> \/ b \in (q + i)..(q + Smaller(j, n) - 1)
                   \/ b \in (q + j)..(q + Smaller(k, n) - 1)
  BY <1>1 DEF Smaller
<1> QED BY <1>2, <1>3, <1>4

(* With what the capture does not have it is all that the segment carried  *)
(* and all that its length field counts.                                   *)
LEMMA SegmentBytes ==
  ASSUME NEW n, NEW s, CurGood(s, n)
  PROVE  Carried(s.frame) \cup Span(s.frame, Claimed(s.frame))
           \subseteq OfStream(s, 0, InBuffer(s)) \cup Missing(s.frame)
<1> DEFINE f == s.frame
           b == InBuffer(s)
           h == LEN_ETHHDR + Headers(f)
           c == SnapLen - LEN_ETHHDR - Headers(f)
<1>1. f \in Frame /\ b \in Nat /\ b = Captured(f) - h
  BY BufferBytes
<1>2. f.seq \in Nat /\ f.len \in Nat /\ h \in Nat /\ h <= SnapLen /\ SnapLen \in Nat
      /\ c = SnapLen - h
  BY <1>1, FrameFields, HeadersNat, CaptureAssumption, LenModNat DEF LEN_ETHHDR
<1>3. Smaller(f.len, c) <= Smaller(b, f.len)
  <2>1. MinFrame \in Nat
    BY CaptureAssumption, LenModNat
  <2>2. \/ Captured(f) = SnapLen
        \/ Captured(f) = MinFrame /\ h + f.len < MinFrame
        \/ Captured(f) = h + f.len
    BY <1>1, CapturedNat
  <2> HIDE DEF f, b, h, c
  <2> QED BY <1>1, <1>2, <2>1, <2>2 DEF Smaller
<1>4. OfStream(s, 0, b) = f.seq..(f.seq + Smaller(b, f.len) - 1)
  BY <1>2 DEF OfStream
<1>5. Span(f, Smaller(f.len, c)) \subseteq OfStream(s, 0, b)
  <2>1. Smaller(f.len, c) \in Int /\ Smaller(b, f.len) \in Int
    BY <1>1, <1>2 DEF Smaller
  <2> HIDE DEF b, c, h
  <2> QED BY <1>2, <1>3, <1>4, <2>1 DEF Span
<1> QED BY <1>5 DEF Missing

LEMMA TCPAckType == ASSUME TInv, TCPAck PROVE TInv'
<1> DEFINE s == Head(ipQueue)
           r == Parse(s)
<1>1. /\ ipQueue \in Seq(SkBuff) /\ ipQueue # <<>> /\ loop = "recv"
      /\ cur' = r /\ recvNextSeq' = AckFor(r)
      /\ \/ loop' = "dead" /\ acks' = acks /\ todo' = todo
         \/ /\ loop' = "lock" /\ todo' = InBuffer(r)
            /\ acks' = acks \cup {AckFor(r)}
      /\ ipQueue' = Tail(ipQueue)
      /\ UNCHANGED <<peerVars, wire, ethSkb, ethQueue, ipSkb, fill, delivered, gone>>
  BY DEF TInv, TypeOK, TCPAck
<1>2. /\ Tail(ipQueue) \in Seq(SkBuff) /\ Len(Tail(ipQueue)) = Len(ipQueue) - 1
      /\ s = ipQueue[1] /\ 1 \in 1..Len(ipQueue)
      /\ \A i \in 1..Len(Tail(ipQueue)) :
           \E j \in 1..Len(ipQueue) : Tail(ipQueue)[i] = ipQueue[j]
  BY <1>1, QueueTail
<1>3. IPGood(s, next, gone)
  BY <1>2 DEF TInv, Goods
<1> HIDE DEF s
<1>4. CurGood(r, next) /\ AckFor(r) \in Nat
  BY <1>3, ParseCounts
<1> HIDE DEF r
<1>5. InBuffer(r) \in Nat /\ r \in SkBuff
  BY <1>4, BufferBytes DEF CurGood
<1>6. r # None
  BY <1>5, NoneAssumption
<1>7. Len(Tail(ipQueue)) <= QueueCap
  <2>1. Len(ipQueue) \in Nat /\ QueueCap \in Nat /\ Len(ipQueue) <= QueueCap
    BY <1>1, ChannelAssumption DEF TInv, TypeOK
  <2> QED BY <1>2, <2>1
<1>8. /\ acks' \subseteq Nat /\ todo' \in Nat /\ todo' <= InBuffer(r)
      /\ loop' \in {"dead", "lock"}
  <2>1. todo = 0 /\ acks \subseteq Nat
    BY <1>1 DEF TInv, TypeOK, Goods
  <2>2. CASE loop' = "dead" /\ acks' = acks /\ todo' = todo
    BY <1>5, <2>1, <2>2
  <2>3. CASE loop' = "lock" /\ todo' = InBuffer(r) /\ acks' = acks \cup {AckFor(r)}
    <3>1. InBuffer(r) <= InBuffer(r)
      BY <1>5
    <3>2. acks' \subseteq Nat
      BY <1>4, <2>1, <2>3
    <3> QED BY <1>5, <2>3, <3>1, <3>2
  <2> QED BY <1>1, <2>2, <2>3
<1>9. TypeOK'
  BY <1>1, <1>2, <1>4, <1>5, <1>7, <1>8 DEF TInv, TypeOK, peerVars
<1>10. Goods'
  BY <1>1, <1>2, <1>4, <1>6, <1>8 DEF TInv, Goods, peerVars
<1> QED BY <1>9, <1>10 DEF TInv

(* A batch of bytes, put in readChan.                                      *)
LEMMA Batch ==
  ASSUME TInv, LoopCopy
  PROVE  \E n \in Nat :
           /\ n > 0 /\ n <= todo /\ n <= ChanCap - fill
           /\ todo' = todo - n /\ fill' = fill + n
           /\ delivered' = delivered
                 \cup OfStream(cur, InBuffer(cur) - todo, InBuffer(cur) - todo + n)
<1> DEFINE n == Smaller(todo, ChanCap - fill)
<1>1. /\ todo \in Nat /\ fill \in Nat /\ ChanCap \in Nat /\ fill < ChanCap /\ todo > 0
  BY ChannelAssumption DEF TInv, TypeOK, LoopCopy
<1>2. n \in Nat /\ n > 0 /\ n <= todo /\ n <= ChanCap - fill
  BY <1>1 DEF Smaller
<1>3. /\ todo' = todo - n /\ fill' = fill + n
      /\ delivered' = delivered
            \cup OfStream(cur, InBuffer(cur) - todo, InBuffer(cur) - todo + n)
  BY DEF LoopCopy
<1> QED BY <1>2, <1>3

LEMMA LoopCopyType == ASSUME TInv, LoopCopy PROVE TInv'
<1>1. PICK n \in Nat :
        /\ n > 0 /\ n <= todo /\ n <= ChanCap - fill
        /\ todo' = todo - n /\ fill' = fill + n
        /\ delivered' = delivered
              \cup OfStream(cur, InBuffer(cur) - todo, InBuffer(cur) - todo + n)
  BY Batch
<1>2. /\ todo \in Nat /\ fill \in Nat /\ ChanCap \in Nat /\ loop = "copy"
      /\ cur # None /\ CurGood(cur, next) /\ todo <= InBuffer(cur)
  BY <1>1, ChannelAssumption DEF TInv, TypeOK, Goods, LoopCopy
<1>3. cur.frame \in Frame /\ InBuffer(cur) \in Nat
  BY <1>2, BufferBytes
<1>4. todo' \in Nat /\ fill' \in 0..ChanCap /\ todo' <= InBuffer(cur)
  BY <1>1, <1>2, <1>3
<1>5. Carried(cur.frame) \subseteq 0..(StreamLen - 1)
  <2>1. cur.frame.seq + cur.frame.len <= next /\ next \in Nat /\ next <= StreamLen
    BY <1>2, StreamNat DEF CurGood, Sent, TInv, TypeOK
  <2>2. cur.frame.seq \in Nat /\ cur.frame.len \in Nat
    BY <1>3, FrameFields
  <2> QED BY <2>1, <2>2, StreamNat DEF Carried, Span
<1>6. OfStream(cur, InBuffer(cur) - todo, InBuffer(cur) - todo + n)
        \subseteq Carried(cur.frame)
  <2>1. /\ InBuffer(cur) - todo \in Nat /\ InBuffer(cur) - todo + n \in Nat
        /\ InBuffer(cur) - todo <= InBuffer(cur) - todo + n
    BY <1>1, <1>2, <1>3
  <2> QED BY <1>3, <2>1, StreamParts
<1>7. delivered' \subseteq 0..(StreamLen - 1)
  BY <1>1, <1>5, <1>6 DEF TInv, TypeOK
<1>8. UNCHANGED <<peerVars, wire, ethSkb, ethQueue, ipSkb, ipQueue, cur, loop,
                  recvNextSeq, acks, gone>>
  BY DEF LoopCopy
<1>9. TypeOK'
  BY <1>4, <1>7, <1>8 DEF TInv, TypeOK, peerVars
<1>10. Goods'
  BY <1>2, <1>4, <1>8 DEF TInv, Goods, peerVars, InBuffer
<1> QED BY <1>9, <1>10 DEF TInv

LEMMA LoopLockType == ASSUME TInv, LoopLock \/ LoopUnlock PROVE TInv'
<1>1. /\ UNCHANGED <<peerVars, wire, ethSkb, ethQueue, ipSkb, ipQueue, cur, todo,
                     fill, recvNextSeq, acks, delivered, gone>>
      /\ loop' \in {"recv", "copy"}
      /\ loop' = "recv" => todo = 0
  BY DEF LoopLock, LoopUnlock
<1>2. TypeOK'
  BY <1>1 DEF TInv, TypeOK, peerVars
<1>3. Goods'
  BY <1>1 DEF TInv, Goods, peerVars
<1> QED BY <1>2, <1>3 DEF TInv

LEMMA ReadType == ASSUME TInv, NEW n \in 1..ChanCap, Read(n) PROVE TInv'
<1>1. fill' \in 0..ChanCap
  <2>1. fill \in 0..ChanCap /\ n <= fill /\ fill' = fill - n /\ ChanCap \in Nat
    BY ChannelAssumption DEF TInv, TypeOK, Read
  <2> QED BY <2>1
<1>2. TypeOK'
  BY <1>1 DEF TInv, TypeOK, Read, peerVars
<1>3. Goods'
  BY DEF TInv, Goods, Read, peerVars
<1> QED BY <1>2, <1>3 DEF TInv

LEMMA TInvNext == TInv /\ [Next]_vars => TInv'
<1> SUFFICES ASSUME TInv, [Next]_vars PROVE TInv'
  OBVIOUS
<1>1. CASE UNCHANGED vars
  BY <1>1 DEF vars, peerVars, tcpVars, loopVars, TInv, TypeOK, Goods
<1>2. CASE \E f \in Frame : PeerSend(f) \/ PeerResend(f)
  BY <1>2, PeerSendType, PeerResendType
<1>3. CASE \E a \in acks : PeerAcked(a)
  BY <1>3, PeerAckedType
<1> QED
  BY <1>1, <1>2, <1>3, LoseType, EthReceiveType, EthSendType, IPReceiveType,
     IPSendOutType, TCPAckType, LoopCopyType, LoopLockType, ReadType DEF Next

LEMMA SpecTInv == Spec => []TInv
BY TInvInit, TInvNext, PTL DEF Spec

(* The variables keep their types: in particular no channel ever holds     *)
(* more than its capacity, the lengths stay in 16 bits, and nothing is put *)
(* in readChan as a byte of the stream that is not in it (eth.go, ip.go,   *)
(* tcpconn.go).                                                            *)
THEOREM TypeCorrect == Spec => []TypeOK
<1>1. TInv => TypeOK
  BY DEF TInv
<1> QED BY <1>1, SpecTInv, PTL

(* The lengths and indices that ethernet.receive, ip.receive and Parse     *)
(* write in an skbuf, each in uint16 arithmetic, agree with what the       *)
(* length field of the peer says, wrong or right, and with what the        *)
(* capture kept, for all lengths of the headers.                           *)
THEOREM LengthsAgree == Spec => []ParsedExactly
<1>1. TInv => ParsedExactly
  <2> SUFFICES ASSUME TInv, cur # None
               PROVE  LET g == cur.frame
                          onWire == LEN_ETHHDR + Headers(g) + g.len
                      IN /\ cur.PayloadLen = Claimed(g)
                         /\ cur.AppIndex <= cur.blen
                         /\ InBuffer(cur) > g.len <=> onWire < MinFrame
                         /\ InBuffer(cur) < g.len <=> onWire > SnapLen
    BY DEF ParsedExactly
  <2>1. CurGood(cur, next) /\ cur.frame \in Frame
    BY DEF TInv, Goods, CurGood, SkBuff
  <2> DEFINE f == cur.frame
             h == LEN_ETHHDR + Headers(f)
             c == Captured(f)
  <2>2. cur.PayloadLen = Claimed(f) /\ cur.AppIndex = h /\ cur.blen = c
    BY <2>1 DEF CurGood
  <2>3. InBuffer(cur) = c - h
    BY <2>1, BufferBytes
  <2>4. /\ c \in Nat /\ h <= c /\ c <= SnapLen
        /\ \/ c = SnapLen /\ SnapLen <= h + f.len
           \/ c = MinFrame /\ h + f.len < MinFrame
           \/ c = h + f.len /\ MinFrame <= h + f.len /\ h + f.len <= SnapLen
    BY <2>1, CapturedNat
  <2>5. f.len \in Nat /\ h \in Nat
    BY <2>1, FrameFields, HeadersNat DEF LEN_ETHHDR
  <2>6. SnapLen \in Nat /\ MinFrame \in Nat /\ MinFrame <= SnapLen
    BY CaptureAssumption, LenModNat
  <2> HIDE DEF f, h, c
  <2>7. /\ c - h > f.len <=> h + f.len < MinFrame
        /\ c - h < f.len <=> h + f.len > SnapLen
    BY <2>4, <2>5, <2>6
  <2> QED BY <2>2, <2>3, <2>4, <2>7 DEF f, h
<1> QED BY <1>1, SpecTInv, PTL

-----------------------------------------------------------------------------
(* First in, first out: the bytes accounted for, and those carried up to   *)
(* each place on the way, from the connection back to the peer.  Nothing   *)
(* is at any place whose earlier bytes are not accounted for or ahead.     *)
(* It holds as long as the process does: log.Fatal leaves the segment that *)
(* it could not acknowledge nowhere.                                       *)

Done == delivered \cup InHand \cup gone
InSkb(s) == IF s = None THEN {} ELSE Carried(s.frame)
After(S, s) == s # None => \A b \in Nat : b < s.frame.seq => b \in S

ToIPQueue == Done \cup Bytes(FramesOf(ipQueue))
ToIPSkb == ToIPQueue \cup InSkb(ipSkb)
ToEthQueue == ToIPSkb \cup Bytes(FramesOf(ethQueue))
ToEthSkb == ToEthQueue \cup InSkb(ethSkb)
ToWire == ToEthSkb \cup Bytes(wire)

Order ==
  /\ Behind(Done, FramesOf(ipQueue))
  /\ After(ToIPQueue, ipSkb)
  /\ Behind(ToIPSkb, FramesOf(ethQueue))
  /\ After(ToEthQueue, ethSkb)
  /\ Behind(ToEthSkb, wire)
  /\ \A b \in Nat : b < next => b \in ToWire

IInv == TInv /\ (Up => Order) /\ AckedIsAccountedFor

LEMMA HandStays == UNCHANGED <<cur, todo>> => InHand' = InHand
BY DEF InHand, OfStream, InBuffer

LEMMA HandEmpty == ASSUME TInv, todo = 0 PROVE InHand = {}
<1>1. CASE cur = None
  BY <1>1 DEF InHand
<1>2. CASE cur # None
  <2>1. CurGood(cur, next)
    BY <1>2 DEF TInv, Goods
  <2>2. cur.frame \in Frame /\ InBuffer(cur) \in Nat
    BY <2>1, BufferBytes
  <2>3. cur.frame.seq \in Nat /\ cur.frame.len \in Nat
    BY <2>2, FrameFields
  <2>4. InHand = OfStream(cur, InBuffer(cur), InBuffer(cur))
    BY <1>2, <2>2 DEF InHand
  <2>5. OfStream(cur, InBuffer(cur), InBuffer(cur)) = {}
    BY <2>2, <2>3 DEF OfStream, Smaller
  <2> QED BY <2>4, <2>5
<1> QED BY <1>1, <1>2

LEMMA Types ==
  ASSUME TInv
  PROVE  /\ FramesOf(ipQueue) \in Seq(Frame) /\ FramesOf(ethQueue) \in Seq(Frame)
         /\ wire \in Seq(Frame) /\ next \in Nat
         /\ ethSkb # None => ethSkb \in SkBuff /\ ethSkb.frame \in Frame
         /\ ipSkb # None => ipSkb \in SkBuff /\ ipSkb.frame \in Frame
<1>1. ipQueue \in Seq(SkBuff) /\ ethQueue \in Seq(SkBuff) /\ wire \in Seq(Frame)
  BY DEF TInv, TypeOK
<1>2. next \in Nat
  BY StreamNat DEF TInv, TypeOK
<1> QED BY <1>1, <1>2, FramesType DEF TInv, TypeOK, SkBuff

LEMMA OrderInit == Init => Order /\ AckedIsAccountedFor
<1> SUFFICES ASSUME Init PROVE Order /\ AckedIsAccountedFor
  OBVIOUS
<1>1. /\ Len(FramesOf(<<>>)) = 0 /\ FramesOf(<<>>) \in Seq(Frame)
  <2>1. <<>> \in Seq(SkBuff)
    OBVIOUS
  <2> QED BY <2>1, FramesType
<1>2. \A S : Behind(S, FramesOf(<<>>)) /\ Behind(S, <<>>)
  BY <1>1 DEF Behind
<1> QED BY <1>2 DEF Init, Order, After, AckedIsAccountedFor

(* Steps that only add to what is accounted for.                           *)
LEMMA OrderMore ==
  ASSUME TInv, Order, Done \subseteq Done',
         UNCHANGED <<ethSkb, ethQueue, ipSkb, ipQueue>>,
         Behind(ToEthSkb', wire'), \A b \in Nat : b < next' => b \in ToWire'
  PROVE  Order'
<1>1. /\ ToIPQueue \subseteq ToIPQueue' /\ ToIPSkb \subseteq ToIPSkb'
      /\ ToEthQueue \subseteq ToEthQueue'
  BY DEF ToIPQueue, ToIPSkb, ToEthQueue
<1>2. Behind(Done', FramesOf(ipQueue'))
  BY Types, BehindMore DEF Order
<1>3. Behind(ToIPSkb', FramesOf(ethQueue'))
  BY <1>1, Types, BehindMore DEF Order
<1>4. After(ToIPQueue', ipSkb') /\ After(ToEthQueue', ethSkb')
  BY <1>1 DEF Order, After
<1> QED BY <1>2, <1>3, <1>4 DEF Order

LEMMA TransmitOrder ==
  ASSUME TInv, Order, NEW f \in Frame, Transmit(f),
         \A b \in Nat : b < f.seq => b < next,
         \A b \in Nat : b < next' => b < next \/ b \in Carried(f)
  PROVE  Order'
<1>1. /\ UNCHANGED <<ethSkb, ethQueue, ipSkb, ipQueue, delivered, gone>>
      /\ wire' = Append(wire, f) /\ InHand' = InHand
  BY HandStays DEF Transmit, tcpVars, loopVars
<1>2. Done' = Done /\ ToEthSkb' = ToEthSkb
  BY <1>1 DEF Done, ToEthSkb, ToEthQueue, ToIPSkb, ToIPQueue
<1>3. Behind(ToEthSkb, Append(wire, f))
  <2>1. \A b \in Nat : b < f.seq => b \in ToEthSkb \cup Bytes(wire)
    BY DEF Order, ToWire
  <2> QED BY <2>1, Types, BehindAppend DEF Order
<1>4. ToWire' = ToWire \cup Carried(f)
  BY <1>1, <1>2, Types, BytesAppend DEF ToWire
<1>5. \A b \in Nat : b < next' => b \in ToWire'
  BY <1>4 DEF Order
<1> QED BY <1>1, <1>2, <1>3, <1>5, OrderMore

LEMMA PeerSendOrder == ASSUME TInv, Order, NEW f \in Frame, PeerSend(f) PROVE Order'
<1>1. f.seq = next /\ next' = next + f.len /\ next \in Nat /\ f.len \in Nat
  BY Types, FrameFields DEF PeerSend
<1>2. \A b \in Nat : b < next' => b < next \/ b \in Carried(f)
  BY <1>1, FrameFields
<1> QED BY <1>1, <1>2, TransmitOrder DEF PeerSend

LEMMA PeerResendOrder == ASSUME TInv, Order, NEW f \in Frame, PeerResend(f) PROVE Order'
<1>1. next' = next /\ next \in Nat /\ f.seq < next /\ f.seq \in Nat
  BY Types, FrameFields DEF PeerResend
<1>2. \A b \in Nat : b < f.seq => b < next
  BY <1>1
<1> QED BY <1>1, <1>2, TransmitOrder DEF PeerResend

LEMMA LoseOrder == ASSUME TInv, Order, Lose PROVE Order'
<1> DEFINE f == Head(wire)
<1>1. /\ UNCHANGED <<ethSkb, ethQueue, ipSkb, ipQueue, delivered, next>>
      /\ wire' = Tail(wire) /\ gone' = gone \cup Carried(f) /\ wire # <<>>
      /\ InHand' = InHand
  BY HandStays DEF Lose, tcpVars, loopVars, peerVars
<1>2. Done' = Done \cup Carried(f) /\ ToEthSkb' = ToEthSkb \cup Carried(f)
  BY <1>1 DEF Done, ToEthSkb, ToEthQueue, ToIPSkb, ToIPQueue
<1>3. Behind(ToEthSkb \cup Carried(f), Tail(wire))
  BY <1>1, Types, BehindTail DEF Order
<1>4. Bytes(wire) = Carried(f) \cup Bytes(Tail(wire))
  BY <1>1, Types, BytesTail
<1>5. ToWire' = ToWire
  BY <1>1, <1>2, <1>4 DEF ToWire
<1>6. \A b \in Nat : b < next' => b \in ToWire'
  BY <1>1, <1>5 DEF Order
<1> QED BY <1>1, <1>2, <1>3, <1>6, OrderMore

LEMMA EthReceiveOrder == ASSUME TInv, Order, EthReceive PROVE Order'
<1> DEFINE f == Head(wire)
<1>1. /\ UNCHANGED <<ethQueue, ipSkb, ipQueue, delivered, next>>
      /\ wire' = Tail(wire) /\ gone \subseteq gone' /\ wire # <<>> /\ ethSkb = None
      /\ ethSkb' # None /\ ethSkb'.frame = f /\ InHand' = InHand
  <2>1. f \in Frame
    BY WireHead DEF EthReceive
  <2>2. ethSkb' = [frame |-> f, blen |-> Captured(f), PayloadLen |-> 0,
                   NetworkIndex |-> LEN_ETHHDR, TransportIndex |-> 0,
                   AppIndex |-> 0]
    BY DEF EthReceive
  <2> HIDE DEF f
  <2>3. ethSkb' \in SkBuff /\ ethSkb'.frame = f
    <3>1. 0 \in 0..(LenMod - 1) /\ LEN_ETHHDR \in Nat
      BY LenModNat DEF LEN_ETHHDR
    <3> QED BY <2>1, <2>2, <3>1, CapturedNat DEF SkBuff
  <2>4. InHand' = InHand /\ gone \subseteq gone'
    BY HandStays DEF EthReceive, tcpVars, loopVars
  <2> QED BY <2>3, <2>4, NoneAssumption DEF EthReceive, tcpVars, peerVars, f
<1>2. /\ Done \subseteq Done' /\ ToIPQueue \subseteq ToIPQueue'
      /\ ToIPSkb \subseteq ToIPSkb' /\ ToEthQueue \subseteq ToEthQueue'
  BY <1>1 DEF Done, ToEthQueue, ToIPSkb, ToIPQueue
<1>3. ToEthSkb = ToEthQueue
  BY <1>1 DEF ToEthSkb, InSkb
<1>4. ToEthSkb' = ToEthQueue' \cup Carried(f)
  BY <1>1 DEF ToEthSkb, InSkb
<1>5. /\ \A b \in Nat : b < f.seq => b \in ToEthSkb
      /\ Behind(ToEthSkb \cup Carried(f), Tail(wire))
  BY <1>1, Types, BehindTail DEF Order
<1>6. Behind(Done', FramesOf(ipQueue'))
  BY <1>1, <1>2, Types, BehindMore DEF Order
<1>7. Behind(ToIPSkb', FramesOf(ethQueue'))
  BY <1>1, <1>2, Types, BehindMore DEF Order
<1>8. Behind(ToEthSkb', wire')
  <2>1. ToEthSkb \cup Carried(f) \subseteq ToEthSkb'
    BY <1>2, <1>3, <1>4
  <2>2. Tail(wire) \in Seq(Frame)
    BY <1>1, Types, BytesTail
  <2> QED BY <1>1, <1>5, <2>1, <2>2, BehindMore
<1>9. After(ToIPQueue', ipSkb') /\ After(ToEthQueue', ethSkb')
  BY <1>1, <1>2, <1>3, <1>5 DEF Order, After
<1>10. ToWire \subseteq ToWire'
  <2>1. Bytes(wire) = Carried(f) \cup Bytes(Tail(wire))
    BY <1>1, Types, BytesTail
  <2> QED BY <1>1, <1>2, <1>3, <1>4, <2>1 DEF ToWire
<1>11. \A b \in Nat : b < next' => b \in ToWire'
  BY <1>1, <1>10 DEF Order
<1> QED BY <1>6, <1>7, <1>8, <1>9, <1>11 DEF Order

LEMMA EthSendOrder == ASSUME TInv, Order, EthSend PROVE Order'
<1> DEFINE f == ethSkb.frame
           q == FramesOf(ethQueue)
<1>1. /\ UNCHANGED <<ipSkb, ipQueue, delivered, gone, next, wire>>
      /\ ethSkb # None /\ ethSkb' = None /\ ethQueue' = Append(ethQueue, ethSkb)
      /\ InHand' = InHand
  BY HandStays DEF EthSend, tcpVars, loopVars, peerVars
<1>2. f \in Frame /\ q \in Seq(Frame) /\ FramesOf(ethQueue') = Append(q, f)
  BY <1>1, Types, FramesAppend DEF TInv, TypeOK
<1>3. /\ Done' = Done /\ ToIPQueue' = ToIPQueue /\ ToIPSkb' = ToIPSkb
  BY <1>1 DEF Done, ToIPSkb, ToIPQueue
<1>4. ToEthSkb = ToEthQueue \cup Carried(f) /\ ToEthSkb' = ToEthQueue'
  BY <1>1 DEF ToEthSkb, InSkb
<1>5. ToEthQueue' = ToEthSkb
  BY <1>2, <1>3, <1>4, BytesAppend DEF ToEthQueue
<1>6. Behind(ToIPSkb', FramesOf(ethQueue'))
  <2>1. \A b \in Nat : b < f.seq => b \in ToIPSkb \cup Bytes(q)
    BY <1>1 DEF Order, After, ToEthQueue
  <2> QED BY <1>2, <1>3, <2>1, BehindAppend DEF Order
<1>7. Behind(ToEthSkb', wire')
  BY <1>1, <1>4, <1>5 DEF Order
<1>8. \A b \in Nat : b < next' => b \in ToWire'
  BY <1>1, <1>4, <1>5 DEF Order, ToWire
<1>9. Behind(Done', FramesOf(ipQueue')) /\ After(ToIPQueue', ipSkb')
  BY <1>1, <1>3 DEF Order
<1>10. After(ToEthQueue', ethSkb')
  BY <1>1 DEF After
<1> QED BY <1>6, <1>7, <1>8, <1>9, <1>10 DEF Order

LEMMA IPSendOutOrder == ASSUME TInv, Order, IPSendOut PROVE Order'
<1> DEFINE f == ipSkb.frame
           q == FramesOf(ipQueue)
<1>1. /\ UNCHANGED <<ethSkb, ethQueue, delivered, gone, next, wire>>
      /\ ipSkb # None /\ ipSkb' = None /\ ipQueue' = Append(ipQueue, ipSkb)
      /\ InHand' = InHand
  BY HandStays DEF IPSendOut, tcpVars, loopVars, peerVars
<1>2. f \in Frame /\ q \in Seq(Frame) /\ FramesOf(ipQueue') = Append(q, f)
  BY <1>1, Types, FramesAppend DEF TInv, TypeOK
<1>3. Done' = Done
  BY <1>1 DEF Done
<1>4. ToIPSkb = ToIPQueue \cup Carried(f) /\ ToIPSkb' = ToIPQueue'
  BY <1>1 DEF ToIPSkb, InSkb
<1>5. ToIPQueue' = ToIPSkb
  BY <1>2, <1>3, <1>4, BytesAppend DEF ToIPQueue
<1>6. ToEthQueue' = ToEthQueue /\ ToEthSkb' = ToEthSkb /\ ToWire' = ToWire
  BY <1>1, <1>4, <1>5 DEF ToEthQueue, ToEthSkb, ToWire
<1>7. Behind(Done', FramesOf(ipQueue'))
  <2>1. \A b \in Nat : b < f.seq => b \in Done \cup Bytes(q)
    BY <1>1 DEF Order, After, ToIPQueue
  <2> QED BY <1>2, <1>3, <2>1, BehindAppend DEF Order
<1>8. After(ToIPQueue', ipSkb')
  BY <1>1 DEF After
<1> QED BY <1>1, <1>4, <1>5, <1>6, <1>7, <1>8 DEF Order

LEMMA IPReceiveOrder == ASSUME TInv, Order, IPReceive PROVE Order'
<1> DEFINE s == Head(ethQueue)
           q == FramesOf(ethQueue)
<1>1. /\ UNCHANGED <<ethSkb, ipQueue, delivered, gone, next, wire>>
      /\ ipSkb = None /\ ethQueue # <<>> /\ ethQueue' = Tail(ethQueue)
      /\ ethQueue \in Seq(SkBuff)
      /\ ipSkb' = [s EXCEPT !.PayloadLen = PayloadOf(s),
                            !.TransportIndex = (4 * s.frame.ihl + s.NetworkIndex) % LenMod]
      /\ InHand' = InHand
  BY HandStays DEF IPReceive, tcpVars, loopVars, peerVars, TInv, TypeOK
<1>2. /\ q \in Seq(Frame) /\ q # <<>> /\ Head(q) = s.frame
      /\ FramesOf(ethQueue') = Tail(q)
  BY <1>1, Types, FramesTail
<1>3. ipSkb' # None /\ ipSkb'.frame = s.frame
  <2>1. s \in SkBuff
    BY <1>1, QueueTail
  <2>2. /\ PayloadOf(s) \in 0..(LenMod - 1)
        /\ (4 * s.frame.ihl + s.NetworkIndex) % LenMod \in Nat
    BY <1>1, IPCounts
  <2> DEFINE P == PayloadOf(s)
             T == (4 * s.frame.ihl + s.NetworkIndex) % LenMod
  <2> HIDE DEF P, T, s
  <2>3. ipSkb' = [s EXCEPT !.PayloadLen = P, !.TransportIndex = T]
    BY <1>1 DEF P, T
  <2>4. P \in 0..(LenMod - 1) /\ T \in Nat
    BY <2>2 DEF P, T
  <2>5. ipSkb' \in SkBuff /\ ipSkb'.frame = s.frame
    BY <2>1, <2>3, <2>4 DEF SkBuff
  <2> QED BY <2>5, NoneAssumption
<1> HIDE DEF s
<1>4. Done' = Done /\ ToIPQueue' = ToIPQueue
  BY <1>1 DEF Done, ToIPQueue
<1>5. ToIPSkb = ToIPQueue /\ ToIPSkb' = ToIPQueue \cup Carried(s.frame)
  BY <1>1, <1>3, <1>4 DEF ToIPSkb, InSkb
<1>6. Bytes(q) = Carried(s.frame) \cup Bytes(FramesOf(ethQueue'))
  BY <1>2, BytesTail
<1>7. ToEthQueue' = ToEthQueue
  BY <1>5, <1>6 DEF ToEthQueue
<1>8. ToEthSkb' = ToEthSkb /\ ToWire' = ToWire
  BY <1>1, <1>7 DEF ToEthSkb, ToWire
<1>9. /\ \A b \in Nat : b < s.frame.seq => b \in ToIPSkb
      /\ Behind(ToIPSkb \cup Carried(s.frame), Tail(q))
  BY <1>2, BehindTail DEF Order
<1>10. After(ToIPQueue', ipSkb')
  BY <1>3, <1>4, <1>5, <1>9 DEF After
<1>11. Behind(ToIPSkb', FramesOf(ethQueue'))
  BY <1>2, <1>5, <1>9
<1> QED BY <1>1, <1>4, <1>7, <1>8, <1>10, <1>11 DEF Order

(* The frame at the head of outQueue leaves nothing behind it without      *)
(* account: what it carried is delivered or was cut off, and all before it *)
(* already was.                                                            *)
LEMMA TCPAckOrder ==
  ASSUME TInv, Order, AckedIsAccountedFor, TCPAck
  PROVE  (Up' => Order') /\ AckedIsAccountedFor'
<1> DEFINE s == Head(ipQueue)
           r == Parse(s)
           q == FramesOf(ipQueue)
<1>1. /\ UNCHANGED <<ethSkb, ethQueue, ipSkb, gone, next, wire, delivered>>
      /\ ipQueue # <<>> /\ ipQueue' = Tail(ipQueue) /\ ipQueue \in Seq(SkBuff)
      /\ todo = 0 /\ cur' = r
      /\ \/ ~Up' /\ acks' = acks
         \/ todo' = InBuffer(r) /\ acks' = acks \cup {AckFor(r)}
  BY DEF TCPAck, peerVars, TInv, TypeOK, Goods, Up
<1>2. /\ q \in Seq(Frame) /\ q # <<>> /\ Head(q) = s.frame
      /\ FramesOf(ipQueue') = Tail(q) /\ Tail(q) \in Seq(Frame)
  BY <1>1, Types, FramesTail, BytesTail
<1>3. IPGood(s, next, gone)
  BY <1>1, QueueTail DEF TInv, Goods
<1> HIDE DEF s
<1>4. /\ CurGood(r, next) /\ r.frame = s.frame /\ s.frame \in Frame
      /\ AckFor(r) = s.frame.seq + Claimed(s.frame)
  BY <1>3, ParseCounts
<1> HIDE DEF r
<1>5. CASE ~Up' /\ acks' = acks
  <2>1. InHand = {}
    BY <1>1, HandEmpty
  <2> QED BY <1>1, <1>5, <2>1 DEF AckedIsAccountedFor
<1>6. CASE todo' = InBuffer(r) /\ acks' = acks \cup {AckFor(r)}
  <2>1. Done' = Done \cup OfStream(r, 0, InBuffer(r))
    <3>1. InHand = {}
      BY <1>1, HandEmpty
    <3>2. r # None /\ InBuffer(r) \in Nat
      BY <1>4, BufferBytes, NoneAssumption DEF CurGood
    <3>3. InHand' = OfStream(r, InBuffer(r) - InBuffer(r), InBuffer(r))
      BY <1>1, <1>6, <3>2 DEF InHand, OfStream, InBuffer
    <3>4. InBuffer(r) - InBuffer(r) = 0
      BY <3>2
    <3> QED BY <1>1, <3>1, <3>3, <3>4 DEF Done
  <2>2. Carried(s.frame) \cup Span(s.frame, Claimed(s.frame)) \subseteq Done'
    <3>1. Missing(s.frame) \subseteq gone
      BY <1>3 DEF IPGood, EthGood
    <3>2. Carried(s.frame) \cup Span(s.frame, Claimed(s.frame))
            \subseteq OfStream(r, 0, InBuffer(r)) \cup Missing(s.frame)
      BY <1>4, SegmentBytes
    <3> QED BY <2>1, <3>1, <3>2 DEF Done
  <2>3. /\ \A b \in Nat : b < s.frame.seq => b \in Done
        /\ Behind(Done \cup Carried(s.frame), Tail(q))
    BY <1>2, BehindTail DEF Order
  <2>4. Bytes(q) = Carried(s.frame) \cup Bytes(FramesOf(ipQueue'))
    BY <1>2, BytesTail
  <2>5. ToIPQueue \subseteq ToIPQueue'
    BY <2>1, <2>2, <2>4 DEF ToIPQueue
  <2>6. /\ ToIPSkb \subseteq ToIPSkb' /\ ToEthQueue \subseteq ToEthQueue'
         /\ ToEthSkb \subseteq ToEthSkb' /\ ToWire \subseteq ToWire'
    BY <1>1, <2>5 DEF ToIPSkb, ToEthQueue, ToEthSkb, ToWire
  <2>7. Behind(Done', FramesOf(ipQueue'))
    <3>1. Done \cup Carried(s.frame) \subseteq Done'
      BY <2>1, <2>2
    <3> QED BY <1>2, <2>3, <3>1, BehindMore
  <2>8. After(ToIPQueue', ipSkb') /\ After(ToEthQueue', ethSkb')
    BY <1>1, <2>5, <2>6 DEF Order, After
  <2>9. Behind(ToIPSkb', FramesOf(ethQueue')) /\ Behind(ToEthSkb', wire')
    BY <1>1, <2>6, Types, BehindMore DEF Order
  <2>10. \A b \in Nat : b < next' => b \in ToWire'
    BY <1>1, <2>6 DEF Order
  <2>11. Order'
    BY <2>7, <2>8, <2>9, <2>10 DEF Order
  <2>12. AckedIsAccountedFor'
    <3>1. ASSUME NEW a \in acks', NEW b \in 0..(a - 1) PROVE b \in Done'
      <4>1. CASE a \in acks
        BY <2>1, <4>1 DEF AckedIsAccountedFor, Done
      <4>2. CASE a = s.frame.seq + Claimed(s.frame)
        <5>1. s.frame.seq \in Nat /\ s.frame.len + s.frame.err \in Int
          BY <1>4, FrameFields
        <5>2. Claimed(s.frame) \in Nat
          BY <5>1, ModRange, LenModNat DEF Claimed
        <5>3. b \in Nat /\ (b < s.frame.seq \/ b \in Span(s.frame, Claimed(s.frame)))
          BY <4>2, <5>1, <5>2 DEF Span
        <5> QED BY <2>1, <2>2, <2>3, <5>3
      <4> QED BY <1>6, <1>4, <4>1, <4>2
    <3> QED BY <3>1 DEF AckedIsAccountedFor, Done
  <2> QED BY <2>11, <2>12
<1> QED BY <1>1, <1>5, <1>6

(* Bytes pass from the hand of listenForPackets into readChan.             *)
LEMMA LoopCopyDone == ASSUME TInv, LoopCopy PROVE Done' = Done
<1>1. PICK n \in Nat :
        /\ n > 0 /\ n <= todo /\ n <= ChanCap - fill
        /\ todo' = todo - n /\ fill' = fill + n
        /\ delivered' = delivered
              \cup OfStream(cur, InBuffer(cur) - todo, InBuffer(cur) - todo + n)
  BY Batch
<1> DEFINE B == InBuffer(cur)
           i == B - todo
           j == i + n
<1>2. /\ todo \in Nat /\ cur # None /\ CurGood(cur, next) /\ todo <= B
      /\ cur' = cur /\ gone' = gone
  BY <1>1 DEF TInv, TypeOK, Goods, LoopCopy
<1>3. cur.frame \in Frame /\ B \in Nat
  BY <1>2, BufferBytes
<1>4. i \in Nat /\ j \in Nat /\ i <= j /\ j <= B /\ B - todo' = j
  BY <1>1, <1>2, <1>3
<1>5. InHand = OfStream(cur, i, B)
  BY <1>2 DEF InHand
<1>6. InHand' = OfStream(cur, B - todo', B)
  BY <1>2 DEF InHand, OfStream, InBuffer
<1>7. delivered' = delivered \cup OfStream(cur, i, j)
  BY <1>1
<1> HIDE DEF B, i, j
<1>8. OfStream(cur, i, B) = OfStream(cur, i, j) \cup OfStream(cur, j, B)
  BY <1>3, <1>4, StreamParts
<1> QED BY <1>2, <1>4, <1>5, <1>6, <1>7, <1>8 DEF Done

(* Steps after which everything is where it was, but for what the loop had *)
(* in its hand.                                                            *)
LEMMA SameOrder ==
  ASSUME UNCHANGED <<next, wire, ethSkb, ethQueue, ipSkb, ipQueue, acks>>,
         Done' = Done
  PROVE  (Order => Order') /\ (AckedIsAccountedFor => AckedIsAccountedFor')
<1>1. ToIPQueue' = ToIPQueue
  BY DEF ToIPQueue
<1>2. ToIPSkb' = ToIPSkb /\ ToEthQueue' = ToEthQueue
  BY <1>1 DEF ToIPSkb, ToEthQueue
<1>3. ToEthSkb' = ToEthSkb /\ ToWire' = ToWire
  BY <1>2 DEF ToEthSkb, ToWire
<1>4. Order => Order'
  BY <1>1, <1>2, <1>3 DEF Order
<1>5. AckedIsAccountedFor => AckedIsAccountedFor'
  BY DEF AckedIsAccountedFor, Done
<1> QED BY <1>4, <1>5

LEMMA NextOrder == IInv /\ [Next]_vars => IInv'
<1> SUFFICES ASSUME TInv, Up => Order, AckedIsAccountedFor, [Next]_vars
             PROVE  (Up' => Order') /\ AckedIsAccountedFor'
  BY TInvNext DEF IInv
<1>1. CASE UNCHANGED vars \/ \E a \in acks : PeerAcked(a)
  <2>1. UNCHANGED <<next, wire, ethSkb, ethQueue, ipSkb, ipQueue, acks, loop,
                    cur, todo, delivered, gone>>
    BY <1>1 DEF vars, peerVars, tcpVars, loopVars, PeerAcked
  <2>2. Done' = Done /\ Up' = Up
    BY <2>1, HandStays DEF Done, Up
  <2> QED BY <2>1, <2>2, SameOrder
<1>2. CASE TCPAck
  <2>1. Up
    BY <1>2 DEF TCPAck, Up
  <2> QED BY <1>2, <2>1, TCPAckOrder
<1>3. CASE \E f \in Frame : PeerSend(f) \/ PeerResend(f)
  <2>1. UNCHANGED <<acks, delivered, gone, loop, cur, todo>>
    BY <1>3 DEF PeerSend, PeerResend, Transmit, tcpVars, loopVars
  <2>2. AckedIsAccountedFor' /\ Up' = Up
    BY <2>1, HandStays DEF AckedIsAccountedFor, Up
  <2> QED BY <1>3, <2>2, PeerSendOrder, PeerResendOrder
<1>4. CASE Lose \/ EthReceive \/ EthSend \/ IPReceive \/ IPSendOut
  <2>1. UNCHANGED <<acks, delivered, loop, cur, todo>> /\ gone \subseteq gone'
    BY <1>4 DEF Lose, EthReceive, EthSend, IPReceive, IPSendOut, tcpVars, loopVars
  <2>2. AckedIsAccountedFor' /\ Up' = Up
    BY <2>1, HandStays DEF AckedIsAccountedFor, Up
  <2> QED
    BY <1>4, <2>2, LoseOrder, EthReceiveOrder, EthSendOrder, IPReceiveOrder,
       IPSendOutOrder
<1>5. CASE \/ LoopLock \/ LoopCopy \/ LoopUnlock
           \/ \E n \in 1..ChanCap : Read(n)
  <2>1. UNCHANGED <<next, wire, ethSkb, ethQueue, ipSkb, ipQueue, acks>> /\ Up
    BY <1>5 DEF LoopLock, LoopCopy, LoopUnlock, Read, Up, peerVars
  <2>2. Done' = Done
    <3>1. CASE LoopCopy
      BY <3>1, LoopCopyDone
    <3>2. CASE \/ LoopLock \/ LoopUnlock \/ \E n \in 1..ChanCap : Read(n)
      <4>1. UNCHANGED <<cur, todo, delivered, gone>>
        BY <3>2 DEF LoopLock, LoopUnlock, Read
      <4> QED BY <4>1, HandStays DEF Done
    <3> QED BY <1>5, <3>1, <3>2
  <2> QED BY <2>1, <2>2, SameOrder
<1> QED BY <1>1, <1>2, <1>3, <1>4, <1>5 DEF Next

(* For channels of any capacity, and whatever the network loses, the peer  *)
(* sends again and its length fields say: a byte below an acknowledgement  *)
(* number that the stack has sent was put in readChan, or is what          *)
(* listenForPackets is about to put there or waits to, or was lost by the  *)
(* network, or was counted by a length field and not captured.             *)
(* ethernet.receive and ip.receive themselves neither drop nor reorder     *)
(* (eth.go, ip.go: sends on channels that block when full).                *)
THEOREM AcksAreAccountedFor == Spec => []AckedIsAccountedFor
<1>1. Init => IInv
  BY TInvInit, OrderInit DEF IInv
<1>2. IInv => AckedIsAccountedFor
  BY DEF IInv
<1> QED BY <1>1, <1>2, NextOrder, PTL DEF Spec
=============================================================================
