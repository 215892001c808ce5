------------------------- MODULE TCPConnReadProofs --------------------------
(***************************************************************************)
(* Theorems of TCPConn about the bytes between the receive loop and the    *)
(* callers of Read, for any number of connections and of readers: a full   *)
(* readChan stops the loop for ever, a Read that has no rival finds the    *)
(* bytes it counted, and Reads are atomic, so TCPConn implements           *)
(* ReadStream.                                                             *)
(***************************************************************************)
EXTENDS TCPConnProofs, SequenceTheorems

(* A full readChan is drained by no one: a Read that is taking bytes from  *)
(* the same connection would hold the sem that the receive loop holds.     *)
THEOREM FullIsForever == Spec => FullBufferIsForever
<1>1. ASSUME IInv, SemInv, [Next]_vars
      PROVE  [FullWedge => FullWedge']_vars
  <2> SUFFICES ASSUME Next, FullWedge PROVE FullWedge'
    BY <1>1 DEF vars
  <2>1. /\ loop = "copy" /\ todo # <<>> /\ Len(readChan[cur]) = ChanCap
        /\ cur \in Conn
    BY <1>1 DEF FullWedge, IInv, LocalsSet
  <2>2. CASE \/ \E l \in Listener, a \in Local : ListenBegin(l, a)
             \/ \E l \in Listener : ListenEnd(l)
             \/ ListenRace
             \/ \E l \in Listener : Accept(l)
    BY <2>1, <2>2 DEF ListenBegin, ListenEnd, ListenRace, Accept, loopVars, FullWedge
  <2>3. ASSUME NEW seg \in Segment, Receive
        PROVE  FALSE
    BY <2>1, <2>3 DEF Receive
  <2>4. CASE LoopStep
    <3>1. Len(readChan[cur]) \in Nat /\ ChanCap \in Nat
      BY <1>1, <2>1, CapacityAssumption DEF IInv, TypeOK
    <3> QED
      BY <2>1, <2>4, <3>1 DEF LoopStep, LoopOffer, LoopLock, LoopCopy, LoopUnlock
  <2>5. ASSUME NEW r \in Reader, NEW c \in Conn, NEW b \in Buffer,
               ReadBegin(r, c, b)
        PROVE  FullWedge'
    BY <2>1, <2>5 DEF ReadBegin, loopVars, FullWedge
  <2>6. ASSUME NEW r \in Reader, ReadStep(r)
        PROVE  FullWedge'
    <3>1. CASE ReadLock(r) \/ ReadReturn(r)
      BY <2>1, <3>1 DEF ReadLock, ReadReturn, loopVars, FullWedge
    <3>2. CASE ReadByte(r)
      <4>1. rd[r].conn # cur
        BY <1>1, <2>1, <3>2 DEF ReadByte, SemInv, SemExclusive, Copying, LoopCopying
      <4>2. readChan'[cur] = readChan[cur] /\ UNCHANGED loopVars
        BY <1>1, <2>1, <3>2, <4>1 DEF ReadByte, IInv, TypeOK
      <4> QED BY <2>1, <4>2 DEF loopVars, FullWedge
    <3> QED BY <2>6, <3>1, <3>2 DEF ReadStep
  <2> QED
    BY <2>2, <2>3, <2>4, <2>5, <2>6 DEF Next, RecvDuringListen, RecvSyn,
       RecvSynNoListener, RecvUnknown, RecvHandshake, RecvData
<1>2. Init => IInv /\ SemInv
  BY InitIInv, SemInit
<1>3. IInv /\ SemInv /\ [Next]_vars => (IInv /\ SemInv)'
  BY NextIInv, SemNext
<1> QED BY <1>1, <1>2, <1>3, PTL DEF Spec, FullBufferIsForever

-----------------------------------------------------------------------------
(* What the receive loop and the Reads may rely on: readChan has no bytes  *)
(* before it is made, a Read is of an established connection, and it has   *)
(* no bytes before it has sem.                                             *)
NoneYet == \A c \in Conn : conn[c].state # "ESTABLISHED" => readChan[c] = <<>>
ReadsEstablished ==
  \A r \in Reader : rd[r].at # "out" => conn[rd[r].conn].state = "ESTABLISHED"
GotNothingYet == \A r \in Reader : rd[r].at = "lock" => rd[r].got = <<>>

Base == IInv /\ SemInv /\ EstablishedOnce
RInv == Base /\ NoneYet /\ ReadsEstablished /\ GotNothingYet

LEMMA BaseInit == Init => Base
BY InitIInv, SemInit, OnceInit DEF Base

LEMMA BaseNext == ASSUME Base, [Next]_vars PROVE Base'
BY NextIInv, SemNext, OnceNext DEF Base

(* No segment takes a connection out of ESTABLISHED.                       *)
LEMMA StaysEstablished ==
  ASSUME IInv, [Next]_vars, NEW c \in Conn, conn[c].state = "ESTABLISHED"
  PROVE  conn'[c].state = "ESTABLISHED"
<1>1. ASSUME NEW seg \in Segment,
             (\E x \in Conn : RecvSyn(seg, x)) \/ RecvHandshake(seg)
      PROVE  conn'[c].state = "ESTABLISHED"
  <2>1. PICK x \in Conn : /\ conn[x].state # "ESTABLISHED"
                          /\ Opened(x) \/ NotOpened(x)
    BY <1>1, HandshakeSteps
  <2> QED BY <2>1 DEF Opened, NotOpened, IInv, TypeOK
<1>2. ASSUME NEW seg \in Segment, RecvData(seg)
      PROVE  conn'[c].state = "ESTABLISHED"
  BY <1>2, DataSteps
<1>3. ASSUME UNCHANGED conn PROVE conn'[c].state = "ESTABLISHED"
  BY <1>3
<1>4. CASE \/ UNCHANGED vars
           \/ \E l \in Listener, a \in Local : ListenBegin(l, a)
           \/ \E l \in Listener : ListenEnd(l)
           \/ ListenRace
           \/ \E l \in Listener : Accept(l)
           \/ \E seg \in Segment : \/ RecvDuringListen(seg)
                                   \/ RecvSynNoListener(seg)
                                   \/ RecvUnknown(seg)
  BY <1>3, <1>4 DEF ListenBegin, ListenEnd, ListenRace, Accept, RecvDuringListen,
     RecvSynNoListener, RecvUnknown, vars, connVars
<1>5. CASE LoopStep
  BY <1>3, <1>5 DEF LoopStep, LoopOffer, LoopLock, LoopCopy, LoopUnlock, connVars
<1>6. CASE \E r \in Reader : \/ \E x \in Conn, b \in Buffer : ReadBegin(r, x, b)
                            \/ ReadStep(r)
  BY <1>3, <1>6 DEF ReadBegin, ReadStep, ReadLock, ReadByte, ReadReturn, connVars
<1> QED BY <1>1, <1>2, <1>4, <1>5, <1>6 DEF Next

(* A handshake makes readChan anew, but it was empty: the bytes and the    *)
(* Reads change only in the steps that are about them.                     *)
LEMMA HandshakeKeepsBytes ==
  ASSUME RInv, NEW seg \in Segment,
         (\E c \in Conn : RecvSyn(seg, c)) \/ RecvHandshake(seg)
  PROVE  UNCHANGED <<readChan, rd, taken>>
<1>1. ASSUME NEW c \in Conn, NEW k, NEW l, conn[c].state # "ESTABLISHED",
             Handshake(c, k, seg, l)
      PROVE  readChan' = readChan
  <2>1. CASE UNCHANGED readChan
    BY <2>1
  <2>2. CASE readChan' = [readChan EXCEPT ![c] = <<>>]
    <3>1. readChan[c] = <<>> /\ readChan \in [Conn -> Seq(Byte)]
      BY <1>1 DEF RInv, Base, NoneYet, IInv, TypeOK
    <3> QED BY <2>2, <3>1
  <2> QED BY <1>1, <2>1, <2>2 DEF Handshake
<1>2. ASSUME NEW c \in Conn, RecvSyn(seg, c)
      PROVE  UNCHANGED <<readChan, rd, taken>>
  <2>1. conn[c].state # "ESTABLISHED"
    BY <1>2 DEF RecvSyn, NotAllocated
  <2>2. Handshake(c, NewConn(seg, ListenerOf(seg)), seg, ListenerOf(seg))
        /\ UNCHANGED <<rd, taken>>
    BY <1>2 DEF RecvSyn, appVars
  <2> QED BY <1>1, <2>1, <2>2
<1>3. ASSUME RecvHandshake(seg)
      PROVE  UNCHANGED <<readChan, rd, taken>>
  <2>1. ConnOf(seg) # NoConn /\ conn[ConnOf(seg)].state # "ESTABLISHED"
        /\ Handshake(ConnOf(seg), conn[ConnOf(seg)], seg, ListenerOf(seg))
        /\ UNCHANGED <<rd, taken>>
    BY <1>3 DEF RecvHandshake, appVars
  <2>2. ConnOf(seg) \in Conn
    BY <2>1, KnownConn DEF RInv, Base
  <2> QED BY <1>1, <2>1, <2>2
<1> QED BY <1>2, <1>3

LEMMA ByteSteps ==
  ASSUME RInv, [Next]_vars
  PROVE  \/ UNCHANGED <<readChan, rd, taken>>
         \/ LoopCopy
         \/ \E r \in Reader : \/ \E c \in Conn, b \in Buffer : ReadBegin(r, c, b)
                              \/ ReadLock(r) \/ ReadByte(r) \/ ReadReturn(r)
<1>1. CASE \/ UNCHANGED vars
           \/ \E l \in Listener, a \in Local : ListenBegin(l, a)
           \/ \E l \in Listener : ListenEnd(l)
           \/ ListenRace
           \/ \E l \in Listener : Accept(l)
           \/ \E seg \in Segment : \/ RecvDuringListen(seg)
                                   \/ RecvSynNoListener(seg)
                                   \/ RecvUnknown(seg)
  BY <1>1 DEF ListenBegin, ListenEnd, ListenRace, Accept, RecvDuringListen,
     RecvSynNoListener, RecvUnknown, vars, appVars
<1>2. ASSUME NEW seg \in Segment, RecvData(seg)
      PROVE  UNCHANGED <<readChan, rd, taken>>
  BY <1>2 DEF RecvData, appVars
<1>3. CASE LoopOffer \/ LoopLock \/ LoopUnlock
  BY <1>3 DEF LoopOffer, LoopLock, LoopUnlock, appVars
<1> QED
  BY <1>1, <1>2, <1>3, HandshakeKeepsBytes DEF Next, LoopStep, ReadStep

LEMMA RInvInit == Init => RInv
BY BaseInit DEF RInv, Init, NoneYet, ReadsEstablished, GotNothingYet, Outside

(* What the steps of a Read leave of the readers.                          *)
LEMMA ReadFacts ==
  ASSUME IInv, NEW r \in Reader
  PROVE  /\ rd \in [Reader -> ReaderRec] /\ readChan \in [Conn -> Seq(Byte)]
         /\ rd[r].want \in Nat /\ rd[r].got \in Seq(Byte)
         /\ rd[r].at # "out" => rd[r].conn \in Conn
         /\ ReadLock(r) => /\ rd[r].at = "lock"
                           /\ rd' = [rd EXCEPT ![r] = [rd[r] EXCEPT !.at = "copy"]]
                           /\ UNCHANGED <<readChan, conn, taken>>
         /\ ReadByte(r) => /\ rd[r].at = "copy" /\ readChan[rd[r].conn] # <<>>
                           /\ rd' = [rd EXCEPT ![r] =
                                [rd[r] EXCEPT !.got =
                                   Append(rd[r].got, Head(readChan[rd[r].conn]))]]
                           /\ readChan' = [readChan EXCEPT ![rd[r].conn] =
                                             Tail(readChan[rd[r].conn])]
                           /\ UNCHANGED <<conn, taken>>
         /\ ReadReturn(r) => /\ rd[r].at = "copy"
                             /\ rd' = [rd EXCEPT ![r] = Outside]
                             /\ UNCHANGED <<readChan, conn>>
<1>1. rd \in [Reader -> ReaderRec] /\ rd[r] \in ReaderRec
      /\ readChan \in [Conn -> Seq(Byte)]
  BY DEF IInv, TypeOK
<1>2. rd[r].want \in Nat /\ rd[r].got \in Seq(Byte)
  BY <1>1 DEF ReaderRec
<1>3. rd[r].at # "out" => rd[r].conn \in Conn
  BY DEF IInv, LocalsSet
<1> QED
  BY <1>1, <1>2, <1>3 DEF ReadLock, ReadByte, ReadReturn, connVars

LEMMA RInvNext == ASSUME RInv, [Next]_vars PROVE RInv'
<1>1. Base' /\ IInv /\ IInv'
  BY BaseNext DEF RInv, Base
<1>2. \A c \in Conn : conn[c].state = "ESTABLISHED" => conn'[c].state = "ESTABLISHED"
  BY StaysEstablished DEF RInv, Base
<1>3. NoneYet'
  <2> SUFFICES ASSUME NEW c \in Conn, conn'[c].state # "ESTABLISHED"
               PROVE  readChan'[c] = <<>>
    BY DEF NoneYet
  <2>1. readChan[c] = <<>> /\ conn[c].state # "ESTABLISHED"
    BY <1>2 DEF RInv, NoneYet
  <2>2. CASE LoopCopy
    <3>1. sem[cur] = "held" /\ cur \in Conn
      BY <2>2 DEF LoopCopy, RInv, Base, SemInv, SemExclusive, LoopCopying, IInv, LocalsSet
    <3>2. conn[cur].state = "ESTABLISHED"
      BY <3>1 DEF RInv, Base, SemInv, SemMade
    <3> QED BY <2>1, <2>2, <3>1, <3>2, <1>1 DEF LoopCopy, IInv, TypeOK
  <2>3. ASSUME NEW r \in Reader, ReadByte(r) PROVE readChan'[c] = <<>>
    BY <1>1, <2>1, <2>3, ReadFacts
  <2>4. ASSUME NEW r \in Reader, NEW x \in Conn, NEW b \in Buffer, ReadBegin(r, x, b)
        PROVE  readChan'[c] = <<>>
    BY <2>1, <2>4 DEF ReadBegin
  <2>5. ASSUME NEW r \in Reader, ReadLock(r) \/ ReadReturn(r)
        PROVE  readChan'[c] = <<>>
    BY <2>1, <2>5 DEF ReadLock, ReadReturn
  <2> QED BY <2>1, <2>2, <2>3, <2>4, <2>5, ByteSteps
<1>4. ASSUME NEW s \in Reader
      PROVE  /\ rd'[s].at # "out" => conn'[rd'[s].conn].state = "ESTABLISHED"
             /\ rd'[s].at = "lock" => rd'[s].got = <<>>
  <2>1. /\ rd[s].at # "out" => rd[s].conn \in Conn /\ conn[rd[s].conn].state = "ESTABLISHED"
        /\ rd[s].at = "lock" => rd[s].got = <<>>
    BY <1>1, ReadFacts DEF RInv, ReadsEstablished, GotNothingYet
  <2>2. CASE rd'[s] = rd[s]
    BY <1>2, <2>1, <2>2
  <2>3. CASE LoopCopy
    BY <2>2, <2>3 DEF LoopCopy, appVars
  <2>4. ASSUME NEW r \in Reader, NEW x \in Conn, NEW b \in Buffer, ReadBegin(r, x, b),
               rd'[s] # rd[s]
        PROVE  rd'[s].at = "lock" /\ rd'[s].conn = x /\ rd'[s].got = <<>>
               /\ conn'[x].state = "ESTABLISHED"
    <3>1. conn[x].state = "ESTABLISHED"
      BY <2>4 DEF ReadBegin, RInv, Base, EstablishedOnce
    <3>2. rd \in [Reader -> ReaderRec]
      BY <1>1, ReadFacts
    <3> QED BY <1>2, <2>4, <3>1, <3>2 DEF ReadBegin
  <2>5. ASSUME NEW r \in Reader, ReadLock(r) \/ ReadByte(r), rd'[s] # rd[s]
        PROVE  rd'[s].at = "copy" /\ rd'[s].conn = rd[s].conn /\ rd[s].at # "out"
    <3>1. rd[r] \in ReaderRec /\ rd \in [Reader -> ReaderRec]
      BY <1>1, ReadFacts
    <3> QED BY <1>1, <2>5, <3>1, ReadFacts DEF ReaderRec
  <2>6. ASSUME NEW r \in Reader, ReadReturn(r), rd'[s] # rd[s]
        PROVE  rd'[s].at = "out"
    BY <1>1, <2>6, ReadFacts DEF Outside
  <2> QED BY <1>2, <2>1, <2>2, <2>3, <2>4, <2>5, <2>6, ByteSteps
<1>5. ReadsEstablished' /\ GotNothingYet'
  BY <1>4 DEF ReadsEstablished, GotNothingYet
<1> QED BY <1>1, <1>3, <1>5 DEF RInv

LEMMA SpecRInv == Spec => []RInv
BY RInvInit, RInvNext, PTL DEF Spec

-----------------------------------------------------------------------------
(* A Read without a rival *)

LEMMA SoleNext == ASSUME RInv, SoleReadIsServed, [Next]_vars PROVE SoleReadIsServed'
<1> SUFFICES ASSUME \A r, s \in Reader : r = s, NEW r \in Reader, rd'[r].at # "out"
             PROVE  rd'[r].want - Len(rd'[r].got) <= Len(readChan'[rd'[r].conn])
  BY DEF SoleReadIsServed
<1>1. IInv
  BY DEF RInv, Base
<1> DEFINE c == rd[r].conn
           owed == rd[r].want - Len(rd[r].got)
<1>2. /\ rd \in [Reader -> ReaderRec] /\ readChan \in [Conn -> Seq(Byte)]
      /\ rd[r].want \in Nat /\ rd[r].got \in Seq(Byte)
      /\ rd[r].at # "out" => c \in Conn /\ owed <= Len(readChan[c])
  BY <1>1, ReadFacts DEF SoleReadIsServed
<1>3. CASE UNCHANGED <<readChan, rd, taken>>
  BY <1>2, <1>3
<1>4. CASE LoopCopy
  <2>1. /\ rd' = rd /\ cur \in Conn /\ todo # <<>> /\ todo \in Seq(Byte)
        /\ readChan' = [readChan EXCEPT ![cur] = Append(readChan[cur], Head(todo))]
    BY <1>1, <1>4 DEF LoopCopy, appVars, IInv, TypeOK, LocalsSet
  <2>2. c \in Conn /\ owed <= Len(readChan[c]) /\ readChan[c] \in Seq(Byte)
        /\ readChan[cur] \in Seq(Byte) /\ Len(readChan[c]) \in Nat /\ owed \in Int
    BY <1>2, <2>1
  <2>3. Len(readChan'[c]) >= Len(readChan[c]) /\ Len(readChan'[c]) \in Nat
    BY <1>2, <2>1, <2>2
  <2> QED BY <2>1, <2>2, <2>3
<1>5. ASSUME NEW x \in Conn, NEW b \in Buffer, ReadBegin(r, x, b)
      PROVE  rd'[r].want - Len(rd'[r].got) <= Len(readChan'[rd'[r].conn])
  <2>1. /\ rd'[r].want = MinOf(b.cap, Len(readChan[x])) /\ rd'[r].got = <<>>
        /\ rd'[r].conn = x /\ readChan' = readChan
    BY <1>2, <1>5 DEF ReadBegin
  <2>2. b.cap \in Nat /\ Len(readChan[x]) \in Nat
    BY <1>2, BufferAssumption
  <2>3. MinOf(b.cap, Len(readChan[x])) - 0 <= Len(readChan[x])
    BY <2>2 DEF MinOf
  <2> QED BY <2>1, <2>3
<1>6. CASE ReadLock(r)
  <2>1. rd[r] \in ReaderRec
    BY <1>2
  <2>2. /\ rd'[r].want = rd[r].want /\ rd'[r].got = rd[r].got /\ rd'[r].conn = c
        /\ readChan' = readChan /\ rd[r].at = "lock"
    BY <1>1, <1>2, <1>6, <2>1, ReadFacts DEF ReaderRec
  <2> QED BY <1>2, <2>2
<1>7. CASE ReadByte(r)
  <2>1. rd[r] \in ReaderRec
    BY <1>2
  <2>2. /\ rd'[r].want = rd[r].want /\ rd'[r].conn = c
        /\ rd'[r].got = Append(rd[r].got, Head(readChan[c]))
        /\ readChan' = [readChan EXCEPT ![c] = Tail(readChan[c])]
        /\ readChan[c] # <<>> /\ c \in Conn /\ owed <= Len(readChan[c])
    <3> DEFINE g == Append(rd[r].got, Head(readChan[c]))
    <3>1. /\ rd' = [rd EXCEPT ![r] = [rd[r] EXCEPT !.got = g]]
          /\ readChan' = [readChan EXCEPT ![c] = Tail(readChan[c])]
          /\ readChan[c] # <<>> /\ rd[r].at = "copy"
      BY <1>1, <1>7, ReadFacts
    <3> HIDE DEF g
    <3>2. rd'[r] = [rd[r] EXCEPT !.got = g]
      BY <1>2, <3>1
    <3>3. rd'[r].want = rd[r].want /\ rd'[r].conn = rd[r].conn /\ rd'[r].got = g
      BY <2>1, <3>2 DEF ReaderRec
    <3> QED BY <1>2, <3>1, <3>3 DEF g
  <2>3. readChan[c] \in Seq(Byte)
    BY <1>2, <2>2
  <2>4. Len(rd'[r].got) = Len(rd[r].got) + 1 /\ Len(rd[r].got) \in Nat
    BY <1>2, <2>2, <2>3
  <2>5. Len(readChan'[c]) = Len(readChan[c]) - 1 /\ Len(readChan[c]) \in Nat
    BY <1>2, <2>2, <2>3
  <2> QED BY <1>2, <2>2, <2>4, <2>5
<1>8. CASE ReadReturn(r)
  BY <1>1, <1>2, <1>8, ReadFacts DEF Outside
<1> QED BY <1>3, <1>4, <1>5, <1>6, <1>7, <1>8, ByteSteps

(* When one goroutine reads, the bytes that Read counted before it took    *)
(* sem are there when it takes them: the receive loop only adds, and no    *)
(* handshake makes the readChan of an accepted connection anew, so the     *)
(* receive at tcpconn.go:130 never blocks.                                 *)
THEOREM SoleReadServed == Spec => []SoleReadIsServed
<1>1. Init => SoleReadIsServed
  BY DEF Init, SoleReadIsServed, Outside
<1>2. RInv /\ SoleReadIsServed /\ [Next]_vars => SoleReadIsServed'
  BY SoleNext
<1> QED BY <1>1, <1>2, SpecRInv, PTL DEF Spec

-----------------------------------------------------------------------------
(* Reads are atomic *)

LEMMA ConcatFacts ==
  ASSUME NEW S, NEW g \in Seq(S), NEW q \in Seq(S), NEW b \in S
  PROVE  /\ g \o Append(q, b) = Append(g \o q, b)
         /\ g \o <<>> = g /\ <<>> \o g = g
         /\ g \o q \in Seq(S) /\ Len(g \o q) = Len(g) + Len(q)
<1>1. g \o q \in Seq(S) /\ Len(g \o q) = Len(g) + Len(q)
  BY ConcatProperties
<1>2. g \o <<>> = g /\ <<>> \o g = g
  BY ConcatEmptySeq
<1>3. g \o Append(q, b) = Append(g \o q, b)
  BY SMTT(30)
<1> QED BY <1>1, <1>2, <1>3

LEMMA MoveHead ==
  ASSUME NEW S, NEW g \in Seq(S), NEW q \in Seq(S), q # <<>>
  PROVE  Append(g, Head(q)) \o Tail(q) = g \o q
BY SMTT(30)

LEMMA SplitConcat ==
  ASSUME NEW S, NEW g \in Seq(S), NEW q \in Seq(S)
  PROVE  /\ SubSeq(g \o q, 1, Len(g)) = g
         /\ SubSeq(g \o q, Len(g) + 1, Len(g \o q)) = q
BY SMTT(30)

(* The bytes that a Read has taken and not yet returned are those of the   *)
(* one Read that holds sem.                                                *)
LEMMA HeldBy ==
  ASSUME SemExclusive, NEW c \in Conn, NEW r \in Reader, Copying(r, c)
  PROVE  HeldBytes(c) = rd[r].got
<1> DEFINE h == CHOOSE s \in Reader : Copying(s, c)
<1>1. h \in Reader /\ Copying(h, c)
  BY Zenon
<1>2. h = r
  BY <1>1 DEF SemExclusive
<1>3. HeldBytes(c) = rd[h].got
  BY DEF HeldBytes
<1> QED BY <1>2, <1>3

LEMMA HeldByNext ==
  ASSUME SemExclusive', NEW c \in Conn, NEW r \in Reader, Copying(r, c)'
  PROVE  HeldBytes(c)' = rd'[r].got
<1> DEFINE P(s) == rd'[s].at = "copy" /\ rd'[s].conn = c
           h == CHOOSE s \in Reader : P(s)
<1>1. P(r)
  BY DEF Copying
<1>2. h \in Reader /\ P(h)
  BY <1>1, Zenon
<1>3. h = r
  BY <1>1, <1>2 DEF SemExclusive, Copying
<1>4. HeldBytes(c)' = rd'[h].got
  <2>1. \E s \in Reader : P(s)
    BY <1>1
  <2>2. HeldBytes(c)' = IF \E s \in Reader : P(s) THEN rd'[h].got ELSE <<>>
    BY DEF HeldBytes, Copying
  <2> QED BY <2>1, <2>2, Zenon
<1> QED BY <1>3, <1>4

LEMMA HeldByNone ==
  ASSUME NEW c \in Conn
  PROVE  /\ (\A r \in Reader : ~Copying(r, c)) => HeldBytes(c) = <<>>
         /\ (\A r \in Reader : ~Copying(r, c)') => HeldBytes(c)' = <<>>
BY DEF HeldBytes

LEMMA HeldType ==
  ASSUME IInv, SemExclusive, NEW c \in Conn
  PROVE  HeldBytes(c) \in Seq(Byte)
<1>1. CASE \E r \in Reader : Copying(r, c)
  <2>1. PICK r \in Reader : Copying(r, c)
    BY <1>1
  <2> QED BY <2>1, HeldBy, ReadFacts
<1>2. CASE \A r \in Reader : ~Copying(r, c)
  <2>1. HeldBytes(c) = <<>>
    BY <1>2, HeldByNone
  <2> QED BY <2>1
<1> QED BY <1>1, <1>2

(* It changes only with the Reads of that connection.                      *)
LEMMA HeldSame ==
  ASSUME SemExclusive, SemExclusive', NEW c \in Conn,
         \A r \in Reader : Copying(r, c)' <=> Copying(r, c),
         \A r \in Reader : Copying(r, c) => rd'[r].got = rd[r].got
  PROVE  HeldBytes(c)' = HeldBytes(c)
<1>1. CASE \E r \in Reader : Copying(r, c)
  <2>1. PICK r \in Reader : Copying(r, c)
    BY <1>1
  <2>2. Copying(r, c)' /\ rd'[r].got = rd[r].got
    BY <2>1
  <2>3. HeldBytes(c) = rd[r].got
    BY <2>1, HeldBy
  <2>4. HeldBytes(c)' = rd'[r].got
    BY <2>2, HeldByNext
  <2> QED BY <2>2, <2>3, <2>4
<1>2. CASE \A r \in Reader : ~Copying(r, c)
  <2>1. \A r \in Reader : ~Copying(r, c)'
    BY <1>2
  <2> QED BY <1>2, <2>1, HeldByNone
<1> QED BY <1>1, <1>2

(* The queue of ReadStream that a state of TCPConn stands for.             *)
Queue == [c \in Conn |-> HeldBytes(c) \o readChan[c]]

LEMMA QueueType ==
  ASSUME RInv
  PROVE  \A c \in Conn : /\ HeldBytes(c) \in Seq(Byte) /\ readChan[c] \in Seq(Byte)
                         /\ Queue[c] = HeldBytes(c) \o readChan[c]
                         /\ Queue[c] \in Seq(Byte)
<1>1. \A c \in Conn : HeldBytes(c) \in Seq(Byte) /\ readChan[c] \in Seq(Byte)
  BY HeldType DEF RInv, Base, SemInv, IInv, TypeOK
<1>2. \A c \in Conn : Queue[c] = HeldBytes(c) \o readChan[c]
  BY DEF Queue
<1> QED BY <1>1, <1>2, ConcatProperties

LEMMA QueueInit == Init => RS!Init
<1> SUFFICES ASSUME Init PROVE RS!Init
  OBVIOUS
<1>1. ASSUME NEW c \in Conn PROVE HeldBytes(c) \o readChan[c] = <<>>
  <2>1. \A r \in Reader : ~Copying(r, c)
    BY DEF Init, Copying, Outside
  <2>2. HeldBytes(c) = <<>> /\ readChan[c] = <<>>
    BY <2>1, HeldByNone DEF Init
  <2>3. <<>> \o <<>> = <<>>
    OBVIOUS
  <2> QED BY <2>2, <2>3
<1>2. taken = [c \in Conn |-> <<>>]
  BY DEF Init
<1> QED BY <1>1, <1>2 DEF RS!Init

(* Two states with the same bytes in every connection are one state of     *)
(* ReadStream.                                                             *)
LEMMA QueueSame ==
  ASSUME \A c \in Conn : HeldBytes(c)' \o readChan'[c] = HeldBytes(c) \o readChan[c]
  PROVE  Queue' = Queue
BY DEF Queue

LEMMA PutStep ==
  ASSUME RInv, RInv', LoopCopy, NEW c \in Conn, c = cur
  PROVE  RS!Put(c)
<1> DEFINE b == Head(todo)
<1>1. /\ rd' = rd /\ taken' = taken /\ b \in Byte
      /\ readChan' = [readChan EXCEPT ![c] = Append(readChan[c], b)]
      /\ readChan \in [Conn -> Seq(Byte)]
  <2>1. todo \in Seq(Byte) /\ todo # <<>>
    BY DEF LoopCopy, RInv, Base, IInv, TypeOK
  <2> QED
    BY <2>1 DEF LoopCopy, appVars, RInv, Base, IInv, TypeOK
<1> HIDE DEF b
<1>2. \A x \in Conn : HeldBytes(x)' = HeldBytes(x)
  BY <1>1, HeldSame DEF Copying, RInv, Base, SemInv
<1>3. HeldBytes(c)' \o readChan'[c] = Append(Queue[c], b)
  <2>1. HeldBytes(c) \in Seq(Byte) /\ readChan[c] \in Seq(Byte)
        /\ Queue[c] = HeldBytes(c) \o readChan[c]
    BY QueueType
  <2>2. readChan'[c] = Append(readChan[c], b)
    BY <1>1
  <2>3. HeldBytes(c) \o Append(readChan[c], b) = Append(HeldBytes(c) \o readChan[c], b)
    BY <1>1, <2>1, ConcatFacts
  <2> QED BY <1>2, <2>1, <2>2, <2>3
<1>4. \A x \in Conn : x # c => HeldBytes(x)' \o readChan'[x] = Queue[x]
  BY <1>1, <1>2 DEF Queue
<1>5. Queue' = [Queue EXCEPT ![c] = Append(Queue[c], b)]
  <2>1. Queue' = [x \in Conn |-> HeldBytes(x)' \o readChan'[x]]
    BY DEF Queue
  <2>2. DOMAIN Queue = Conn /\ Queue = [x \in Conn |-> Queue[x]]
    BY DEF Queue
  <2> QED BY <1>3, <1>4, <2>1, <2>2
<1> QED BY <1>1, <1>5 DEF RS!Put, Queue

LEMMA ReadBeginStutters ==
  ASSUME RInv, RInv', NEW r \in Reader, NEW c \in Conn, NEW b \in Buffer,
         ReadBegin(r, c, b)
  PROVE  Queue' = Queue /\ taken' = taken
<1>1. /\ rd \in [Reader -> ReaderRec] /\ readChan' = readChan /\ taken' = taken
      /\ rd[r].at = "out" /\ rd'[r].at = "lock"
      /\ \A s \in Reader : s # r => rd'[s] = rd[s]
  BY DEF ReadBegin, RInv, Base, IInv, TypeOK
<1>2. ASSUME NEW x \in Conn PROVE HeldBytes(x)' = HeldBytes(x)
  BY <1>1, HeldSame DEF Copying, RInv, Base, SemInv
<1> QED BY <1>1, <1>2, QueueSame

LEMMA ReadLockStutters ==
  ASSUME RInv, RInv', NEW r \in Reader, ReadLock(r), NEW c \in Conn, c = rd[r].conn
  PROVE  Queue' = Queue /\ taken' = taken
<1>1. /\ readChan' = readChan /\ taken' = taken
      /\ rd[r].at = "lock" /\ rd[r].got = <<>> /\ c \in Conn /\ sem[c] = "free"
      /\ rd'[r].at = "copy" /\ rd'[r].conn = c /\ rd'[r].got = <<>>
      /\ \A s \in Reader : s # r => rd'[s] = rd[s]
  <2>1. IInv /\ GotNothingYet
    BY DEF RInv, Base
  <2>2. rd[r] \in ReaderRec /\ rd \in [Reader -> ReaderRec]
    BY <2>1, ReadFacts
  <2>3. /\ rd[r].at = "lock" /\ rd' = [rd EXCEPT ![r] = [rd[r] EXCEPT !.at = "copy"]]
        /\ UNCHANGED <<readChan, taken>> /\ c \in Conn
    BY <2>1, ReadFacts
  <2>4. /\ rd'[r].at = "copy" /\ rd'[r].conn = c /\ rd'[r].got = rd[r].got
    BY <2>2, <2>3 DEF ReaderRec
  <2>5. sem[c] = "free"
    BY DEF ReadLock, Acquire
  <2> QED BY <2>1, <2>2, <2>3, <2>4, <2>5 DEF GotNothingYet
<1>2. SemExclusive /\ SemExclusive'
  BY DEF RInv, Base, SemInv
<1>3. ASSUME NEW x \in Conn, x # c PROVE HeldBytes(x)' = HeldBytes(x)
  BY <1>1, <1>2, <1>3, HeldSame DEF Copying
<1>4. HeldBytes(c) = <<>>
  <2>1. \A s \in Reader : ~Copying(s, c)
    BY <1>1, <1>2 DEF SemExclusive
  <2> QED BY <1>1, <2>1, HeldByNone
<1>5. HeldBytes(c)' = <<>>
  <2>1. Copying(r, c)'
    BY <1>1 DEF Copying
  <2> QED BY <1>1, <1>2, <2>1, HeldByNext
<1> QED BY <1>1, <1>3, <1>4, <1>5, QueueSame

(* A byte moves from readChan to the Read that holds sem.                  *)
LEMMA ReadByteStutters ==
  ASSUME RInv, RInv', NEW r \in Reader, ReadByte(r), NEW c \in Conn, c = rd[r].conn
  PROVE  Queue' = Queue /\ taken' = taken
<1> DEFINE g == Append(rd[r].got, Head(readChan[c]))
<1>1. /\ readChan' = [readChan EXCEPT ![c] = Tail(readChan[c])]
      /\ readChan \in [Conn -> Seq(Byte)] /\ readChan[c] # <<>>
      /\ rd[r].at = "copy" /\ rd[r].got \in Seq(Byte) /\ taken' = taken
      /\ rd'[r].at = "copy" /\ rd'[r].conn = c /\ rd'[r].got = g
      /\ \A s \in Reader : s # r => rd'[s] = rd[s]
  <2>1. IInv
    BY DEF RInv, Base
  <2>2. /\ rd[r] \in ReaderRec /\ rd \in [Reader -> ReaderRec]
        /\ rd[r].got \in Seq(Byte) /\ readChan \in [Conn -> Seq(Byte)]
    BY <2>1, ReadFacts
  <2>3. /\ rd[r].at = "copy" /\ rd' = [rd EXCEPT ![r] = [rd[r] EXCEPT !.got = g]]
        /\ readChan' = [readChan EXCEPT ![c] = Tail(readChan[c])]
        /\ readChan[c] # <<>> /\ taken' = taken
    BY <2>1, ReadFacts
  <2> HIDE DEF g
  <2>4. /\ rd'[r].at = "copy" /\ rd'[r].conn = c /\ rd'[r].got = g
    BY <2>2, <2>3 DEF ReaderRec
  <2> QED BY <2>2, <2>3, <2>4
<1> HIDE DEF g
<1>2. SemExclusive /\ SemExclusive'
  BY DEF RInv, Base, SemInv
<1>3. ASSUME NEW x \in Conn, x # c
      PROVE  HeldBytes(x)' \o readChan'[x] = HeldBytes(x) \o readChan[x]
  <2>1. HeldBytes(x)' = HeldBytes(x)
    BY <1>1, <1>2, <1>3, HeldSame DEF Copying
  <2> QED BY <1>1, <1>3, <2>1
<1>4. HeldBytes(c) = rd[r].got
  BY <1>1, <1>2, HeldBy DEF Copying
<1>5. HeldBytes(c)' = g
  <2>1. Copying(r, c)'
    BY <1>1 DEF Copying
  <2> QED BY <1>1, <1>2, <2>1, HeldByNext
<1>6. g \o Tail(readChan[c]) = rd[r].got \o readChan[c]
  BY <1>1, MoveHead DEF g
<1>7. HeldBytes(c)' \o readChan'[c] = HeldBytes(c) \o readChan[c]
  BY <1>1, <1>4, <1>5, <1>6
<1> QED BY <1>1, <1>3, <1>7, QueueSame

LEMMA TakeStep ==
  ASSUME RInv, RInv', NEW r \in Reader, ReadReturn(r), NEW c \in Conn, c = rd[r].conn
  PROVE  RS!Take(c) \/ (Queue' = Queue /\ taken' = taken)
<1> DEFINE g == rd[r].got
           n == Len(g)
<1>1. /\ readChan' = readChan /\ readChan[c] \in Seq(Byte)
      /\ rd[r].at = "copy" /\ g \in Seq(Byte)
      /\ taken' = [taken EXCEPT ![c] = taken[c] \o g]
      /\ taken \in [Conn -> Seq(Byte)]
      /\ rd'[r].at = "out" /\ \A s \in Reader : s # r => rd'[s] = rd[s]
  <2>1. IInv
    BY DEF RInv, Base
  <2>2. /\ rd \in [Reader -> ReaderRec] /\ taken \in [Conn -> Seq(Byte)]
        /\ g \in Seq(Byte) /\ readChan[c] \in Seq(Byte)
    BY <2>1, ReadFacts DEF IInv, TypeOK
  <2>3. /\ rd[r].at = "copy" /\ rd' = [rd EXCEPT ![r] = Outside] /\ readChan' = readChan
    BY <2>1, ReadFacts
  <2>4. taken' = [taken EXCEPT ![c] = taken[c] \o g]
    BY DEF ReadReturn
  <2> QED BY <2>2, <2>3, <2>4 DEF Outside
<1>2. SemExclusive /\ SemExclusive'
  BY DEF RInv, Base, SemInv
<1>3. \A x \in Conn : x # c => HeldBytes(x)' = HeldBytes(x)
  <2>1. ASSUME NEW x \in Conn, x # c PROVE HeldBytes(x)' = HeldBytes(x)
    BY <1>1, <1>2, <2>1, HeldSame DEF Copying
  <2> QED BY <2>1
<1>4. HeldBytes(c) = g /\ Queue[c] = g \o readChan[c]
  <2>1. HeldBytes(c) = g
    BY <1>1, <1>2, HeldBy DEF Copying
  <2> QED BY <2>1, QueueType
<1>5. HeldBytes(c)' = <<>>
  <2>1. Copying(r, c) /\ ~Copying(r, c)'
    BY <1>1 DEF Copying
  <2>2. \A s \in Reader : Copying(s, c) => s = r
    BY <1>2, <2>1 DEF SemExclusive
  <2>3. \A s \in Reader : s # r => ~Copying(s, c)'
    BY <1>1, <2>2 DEF Copying
  <2>4. \A s \in Reader : ~Copying(s, c)'
    BY <2>1, <2>3
  <2> QED BY <2>4, HeldByNone
<1> HIDE DEF g
<1>6. <<>> \o readChan[c] = readChan[c]
  BY <1>1, ConcatEmptySeq
<1>7. Queue' = [Queue EXCEPT ![c] = readChan[c]]
  <2>1. Queue' = [x \in Conn |-> HeldBytes(x)' \o readChan'[x]]
    BY DEF Queue
  <2>2. DOMAIN Queue = Conn /\ Queue = [x \in Conn |-> Queue[x]]
    BY DEF Queue
  <2>3. \A x \in Conn : x # c => HeldBytes(x)' \o readChan'[x] = Queue[x]
    BY <1>1, <1>3 DEF Queue
  <2>4. HeldBytes(c)' \o readChan'[c] = readChan[c]
    BY <1>1, <1>5, <1>6
  <2> QED BY <2>1, <2>2, <2>3, <2>4
<1>8. CASE g = <<>>
  <2>1. Queue[c] = readChan[c]
    BY <1>4, <1>6, <1>8
  <2>2. taken[c] \o <<>> = taken[c]
    BY <1>1, ConcatEmptySeq
  <2>3. taken' = taken
    BY <1>1, <1>8, <2>2
  <2>4. Queue' = Queue
    BY <1>7, <2>1 DEF Queue
  <2> QED BY <2>3, <2>4
<1>9. CASE g # <<>>
  <2>1. SubSeq(Queue[c], 1, n) = g
    BY <1>1, <1>4, SplitConcat
  <2>2. SubSeq(Queue[c], n + 1, Len(Queue[c])) = readChan[c]
    BY <1>1, <1>4, SplitConcat
  <2>3. n \in 1..Len(Queue[c])
    <3>1. Len(Queue[c]) = n + Len(readChan[c]) /\ Len(readChan[c]) \in Nat
      BY <1>1, <1>4, ConcatProperties
    <3>2. n \in Nat /\ n # 0
      BY <1>1, <1>9, EmptySeq
    <3> QED BY <3>1, <3>2
  <2> HIDE DEF n
  <2>4. /\ taken' = [taken EXCEPT ![c] = taken[c] \o SubSeq(Queue[c], 1, n)]
        /\ Queue' = [Queue EXCEPT ![c] = SubSeq(Queue[c], n + 1, Len(Queue[c]))]
    BY <1>1, <1>7, <2>1, <2>2
  <2>5. RS!Take(c)
    BY <2>3, <2>4 DEF RS!Take, Queue
  <2> QED BY <2>5
<1> QED BY <1>8, <1>9

LEMMA StepSimulation ==
  ASSUME RInv, RInv', [Next]_vars
  PROVE  [RS!Next]_RS!vars
<1>1. CASE UNCHANGED <<readChan, rd, taken>>
  <2>1. \A x \in Conn : HeldBytes(x)' = HeldBytes(x)
    BY <1>1, HeldSame DEF Copying, RInv, Base, SemInv
  <2>2. Queue' = Queue
    BY <1>1, <2>1, QueueSame
  <2> QED BY <1>1, <2>2 DEF RS!vars, Queue
<1>2. CASE LoopCopy
  <2>1. cur \in Conn
    BY <1>2 DEF LoopCopy, RInv, Base, IInv, LocalsSet
  <2>2. PICK c \in Conn : c = cur
    BY <2>1
  <2>3. RS!Put(c)
    BY <1>2, <2>2, PutStep
  <2> QED BY <2>3 DEF RS!Next
<1>3. ASSUME NEW r \in Reader, NEW c \in Conn, NEW b \in Buffer, ReadBegin(r, c, b)
      PROVE  [RS!Next]_RS!vars
  <2>1. Queue' = Queue /\ taken' = taken
    BY <1>3, ReadBeginStutters
  <2> QED BY <2>1 DEF RS!vars, Queue
<1>4. ASSUME NEW r \in Reader, ReadLock(r) \/ ReadByte(r) \/ ReadReturn(r)
      PROVE  [RS!Next]_RS!vars
  <2>1. rd[r].conn \in Conn
    BY <1>4 DEF ReadLock, ReadByte, ReadReturn, RInv, Base, IInv, LocalsSet
  <2>2. PICK c \in Conn : c = rd[r].conn
    BY <2>1
  <2>3. RS!Take(c) \/ (Queue' = Queue /\ taken' = taken)
    BY <1>4, <2>2, ReadLockStutters, ReadByteStutters, TakeStep
  <2> QED BY <2>3 DEF RS!Next, RS!vars, Queue
<1> QED BY <1>1, <1>2, <1>3, <1>4, ByteSteps

(* Reads are atomic: for any number of readers, connections and segments,  *)
(* what the goroutines do byte by byte between the operations on sem is a  *)
(* stream per connection, to which listenForPackets appends and from which *)
(* each Read removes one contiguous batch (tcpconn.go:124-138, 367-373).   *)
THEOREM ReadsAreAtomic == Spec => AtomicReads
<1>1. RInv /\ RInv' /\ [Next]_vars => [RS!Next]_RS!vars
  BY StepSimulation
<1> QED BY <1>1, QueueInit, SpecRInv, PTL DEF Spec, AtomicReads, RS!Spec
=============================================================================
