-------------------------- MODULE TCPConnKeyProofs --------------------------
(***************************************************************************)
(* Theorems of TCPConn about the keys of the map listeners: Accept returns *)
(* connections to its own port, or to one that prints alike.               *)
(***************************************************************************)
EXTENDS TCPConnProofs

(* An IP address and a string(port) share a key of the map listeners only  *)
(* with themselves, or if both ports print as U+FFFD.                      *)
Alike(a, b) == a = b \/ (a.ip = b.ip /\ {a.port, b.port} \subseteq PrintsAlike)

LEMMA SameKey ==
  ASSUME NEW IPs, NEW Ports, Local \subseteq [ip : IPs, port : Ports],
         NEW a \in Local, NEW b \in Local, ListenerKey(a) = ListenerKey(b)
  PROVE  Alike(a, b)
<1>1. a \in [ip : IPs, port : Ports] /\ b \in [ip : IPs, port : Ports]
  OBVIOUS
<1>2. a.ip = b.ip /\ PortString(a.port) = PortString(b.port)
  BY DEF ListenerKey
<1>3. CASE a.port = b.port
  BY <1>1, <1>2, <1>3 DEF Alike
<1>4. CASE a.port # b.port
  BY <1>2, <1>4 DEF Alike, PortString, PrintsAlike
<1> QED BY <1>3, <1>4

(* A connection was made for a port that prints like that of the listener  *)
(* it is given to.                                                         *)
Serves(l, a) == lisAddr[l] # NoAddr /\ ListenerKey(lisAddr[l]) = ListenerKey(a)
DstIsLocal ==
  \A c \in Conn : Allocated(c) =>
    ListenerKey(conn[c].dst) = ListenerKey(conn[c].local)
OfferedRight ==
  loop = "offer" => Serves(tl, conn[cur].dst)
RightKey ==
  \A l \in Listener : \A i \in DOMAIN backlog[l] :
    Serves(l, conn[backlog[l][i]].dst)

(* The listener found for a segment has the key of its destination.        *)
LEMMA FoundListener ==
  ASSUME IInv, NEW seg \in Segment, ListenerOf(seg) # NoListener
  PROVE  /\ ListenerOf(seg) \in Listener /\ lisAddr[ListenerOf(seg)] \in Local
         /\ Serves(ListenerOf(seg), seg.dst)
<1> DEFINE l == ListenerOf(seg)
           k == ListenerKey(seg.dst)
<1>1. seg.dst \in Local /\ k \in DOMAIN listeners
  BY SegmentFields, KeyTypes DEF IInv, TypeOK
<1>2. l \in Listener /\ lisAddr[l] # NoAddr /\ ListenerKey(lisAddr[l]) = k
  BY <1>1 DEF ListenerOf, IInv, TypeOK, ListenersStored
<1>3. lisAddr[l] \in Local
  BY <1>2 DEF IInv, TypeOK
<1> QED BY <1>1, <1>2, <1>3, NilFacts DEF Serves

(* A segment that makes a connection, and one that belongs to one.         *)
LEMMA SynSteps ==
  ASSUME IInv, NEW seg \in Segment, NEW c \in Conn, RecvSyn(seg, c)
  PROVE  /\ conn[c] = NotAllocated
         /\ \E k2 \in ConnRec :
              /\ conn' = [conn EXCEPT ![c] = k2] /\ k2.dst = seg.dst
              /\ ListenerKey(k2.local) = ListenerKey(seg.dst)
         /\ UNCHANGED <<backlog, lisAddr>>
         /\ \/ loop' = "offer" /\ cur' = c /\ tl' = ListenerOf(seg)
            \/ UNCHANGED loopVars
         /\ Serves(ListenerOf(seg), seg.dst)
<1> DEFINE l == ListenerOf(seg)
           k == NewConn(seg, l)
<1>1. /\ l # NoListener /\ conn[c] = NotAllocated
      /\ Handshake(c, k, seg, l) /\ UNCHANGED <<backlog, lisAddr>>
  BY DEF RecvSyn, lisVars
<1>2. /\ l \in Listener /\ lisAddr[l] \in Local
      /\ Serves(l, seg.dst)
  BY <1>1, FoundListener
<1>3. k \in ConnRec /\ k.local = lisAddr[l] /\ k.dst = seg.dst
  BY <1>2, NewConnType DEF NewConn
<1> HIDE DEF l, k
<1>4. /\ \/ loop' = "offer" /\ cur' = c /\ tl' = l /\ UNCHANGED todo
         \/ UNCHANGED loopVars
      /\ \E k2 \in ConnRec :
           /\ conn' = [conn EXCEPT ![c] = k2]
           /\ k2.local = k.local /\ k2.remote = k.remote /\ k2.dst = k.dst
  BY <1>1, <1>2, <1>3, HandshakeFacts DEF IInv
<1> QED BY <1>1, <1>2, <1>3, <1>4 DEF l, Serves

LEMMA KnownSteps ==
  ASSUME IInv, NEW seg \in Segment, RecvHandshake(seg) \/ RecvData(seg)
  PROVE  \E c \in Conn :
           /\ conn[c] \in ConnRec /\ conn[c].local = seg.dst
           /\ \E k2 \in ConnRec : /\ conn' = [conn EXCEPT ![c] = k2]
                                  /\ k2.local = conn[c].local
                                  /\ k2.dst = conn[c].dst
           /\ UNCHANGED <<backlog, lisAddr>>
           /\ \/ loop' = "offer" /\ cur' = c /\ tl' = ListenerOf(seg)
              \/ loop' # "offer"
           /\ Serves(ListenerOf(seg), seg.dst)
<1> DEFINE c == ConnOf(seg)
           l == ListenerOf(seg)
<1>1. c # NoConn /\ loop = "recv" /\ UNCHANGED <<backlog, lisAddr>>
  BY DEF RecvHandshake, RecvData, Receive, lisVars
<1>2. c \in Conn /\ conn[c] \in ConnRec /\ l \in Listener
  BY <1>1, KnownConn
<1>3. Serves(l, seg.dst)
  BY <1>2, NilFacts, FoundListener
<1>4. conn[c].local = seg.dst
  <2>1. LookupIdent(seg) \in Keys /\ LookupIdent(seg)[2] = seg.dst
    BY KeyTypes
  <2>2. LookupIdent(seg) = Ident(conn[c])
    BY <1>1, <2>1 DEF ConnOf, IInv, ConnectionsStored
  <2> QED BY <2>1, <2>2 DEF Ident, ConnKey
<1>5. CASE RecvHandshake(seg)
  <2>1. Handshake(c, conn[c], seg, l)
    BY <1>5 DEF RecvHandshake
  <2> HIDE DEF c, l
  <2>2. /\ \/ loop' = "offer" /\ cur' = c /\ tl' = l /\ UNCHANGED todo
           \/ UNCHANGED loopVars
        /\ \E k2 \in ConnRec :
             /\ conn' = [conn EXCEPT ![c] = k2]
             /\ k2.local = conn[c].local /\ k2.remote = conn[c].remote
             /\ k2.dst = conn[c].dst
    BY <1>2, <2>1, HandshakeFacts DEF IInv
  <2>3. UNCHANGED loopVars => loop' # "offer"
    BY <1>1 DEF loopVars
  <2> QED BY <1>1, <1>2, <1>3, <1>4, <2>2, <2>3 DEF l
<1>6. CASE RecvData(seg)
  <2> DEFINE k == Received(conn[c], Plus(seg.seq, seg.len), seg.win)
  <2>1. Send(c, k, FALSE, k.sendNextSeq) /\ loop' = "lock"
    BY <1>6, Zenon DEF RecvData, sendAck
  <2>2. /\ k \in ConnRec /\ k.local = conn[c].local /\ k.remote = conn[c].remote
        /\ k.dst = conn[c].dst
    <3>1. seg.seq \in Int /\ seg.len \in Int /\ seg.win \in Nat
      BY SegmentFields DEF SeqNum
    <3>2. Plus(seg.seq, seg.len) \in SeqNum
      BY <3>1, PlusType
    <3> QED BY <1>2, <3>1, <3>2, ReceivedFacts
  <2>3. k.sendNextSeq \in SeqNum
    BY <2>2 DEF ConnRec
  <2> HIDE DEF c, k, l
  <2>4. \E k2 \in ConnRec :
          /\ conn' = [conn EXCEPT ![c] = k2]
          /\ k2.local = k.local /\ k2.remote = k.remote
          /\ k2.state = k.state /\ k2.dst = k.dst
    BY <1>2, <2>1, <2>2, <2>3, SendFacts DEF IInv
  <2> QED BY <1>1, <1>2, <1>3, <1>4, <2>1, <2>2, <2>4 DEF l
<1> QED BY <1>5, <1>6

-----------------------------------------------------------------------------
(* Accept returns connections to its own port *)

Ports == DstIsLocal /\ OfferedRight /\ RightKey

(* Connections that are offered or wait in a backlog are allocated.        *)
LEMMA HandedOut ==
  ASSUME IInv, EstablishedOnce
  PROVE  /\ loop = "offer" => cur \in Conn /\ tl \in Listener /\ conn[cur] \in ConnRec
         /\ \A l \in Listener : \A i \in DOMAIN backlog[l] :
              backlog[l][i] \in Conn /\ conn[backlog[l][i]] \in ConnRec
<1>1. \A c \in Conn : conn[c].state = "ESTABLISHED" => conn[c] \in ConnRec
  BY DEF IInv, TypeOK, NotAllocated
<1>2. loop = "offer" => cur \in Conn /\ tl \in Listener /\ conn[cur] \in ConnRec
  BY <1>1 DEF IInv, LocalsSet, EstablishedOnce, Offering
<1>3. ASSUME NEW l \in Listener, NEW i \in DOMAIN backlog[l]
      PROVE  backlog[l][i] \in Conn /\ conn[backlog[l][i]] \in ConnRec
  <2>1. backlog[l] \in Seq(Conn)
    BY DEF IInv, TypeOK
  <2>2. backlog[l][i] \in Conn
    BY <2>1
  <2> QED BY <1>1, <2>2 DEF EstablishedOnce, InBacklog
<1> QED BY <1>2, <1>3

LEMMA PortsQuiet ==
  ASSUME Ports, UNCHANGED <<conn, backlog, lisAddr>>,
         loop' # "offer" \/ UNCHANGED <<loop, cur, tl>>
  PROVE  Ports'
BY DEF Ports, DstIsLocal, OfferedRight, RightKey, Allocated, ListenerKey, Serves

LEMMA PortsListen ==
  ASSUME IInv, EstablishedOnce, Ports, NEW l \in Listener, NEW a \in Local,
         ListenBegin(l, a)
  PROVE  Ports'
<1>1. /\ UNCHANGED <<conn, backlog, loop, cur, tl>> /\ lisAddr[l] = NoAddr
      /\ \A m \in Listener : m # l => lisAddr'[m] = lisAddr[m]
  BY DEF ListenBegin, connVars, loopVars, IInv, TypeOK
<1>2. OfferedRight'
  BY <1>1, HandedOut DEF Ports, OfferedRight, Serves, ListenerKey
<1>3. RightKey'
  BY <1>1, HandedOut DEF Ports, RightKey, Serves, ListenerKey
<1> QED BY <1>1, <1>2, <1>3 DEF Ports, DstIsLocal, Allocated, ListenerKey

LEMMA PortsAccept ==
  ASSUME IInv, Ports, NEW l \in Listener, Accept(l)
  PROVE  Ports'
<1>1. /\ UNCHANGED <<conn, lisAddr, loop, cur, tl>>
      /\ backlog' = [backlog EXCEPT ![l] = Tail(backlog[l])]
      /\ backlog[l] # <<>> /\ backlog \in [Listener -> Seq(Conn)]
  BY DEF Accept, lisVars, connVars, loopVars, IInv, TypeOK
<1>2. /\ DOMAIN Tail(backlog[l]) = 1..(Len(backlog[l]) - 1)
      /\ \A i \in 1..(Len(backlog[l]) - 1) :
           Tail(backlog[l])[i] = backlog[l][i + 1] /\ i + 1 \in DOMAIN backlog[l]
  BY <1>1
<1>3. ASSUME NEW m \in Listener, NEW i \in DOMAIN backlog'[m]
      PROVE  \E j \in DOMAIN backlog[m] : backlog'[m][i] = backlog[m][j]
  <2>1. CASE m = l
    BY <1>1, <1>2, <2>1
  <2>2. CASE m # l
    BY <1>1, <2>2
  <2> QED BY <2>1, <2>2
<1>4. RightKey'
  BY <1>1, <1>3 DEF Ports, RightKey, Serves, ListenerKey
<1> QED BY <1>1, <1>4 DEF Ports, DstIsLocal, OfferedRight, Allocated, ListenerKey, Serves

LEMMA PortsOffer ==
  ASSUME IInv, Ports, LoopOffer
  PROVE  Ports'
<1>1. /\ UNCHANGED <<conn, lisAddr>> /\ loop = "offer" /\ loop' = "recv"
      /\ backlog' = [backlog EXCEPT ![tl] = Append(backlog[tl], cur)]
      /\ backlog \in [Listener -> Seq(Conn)] /\ tl \in Listener /\ cur \in Conn
  BY DEF LoopOffer, lisVars, connVars, IInv, TypeOK, LocalsSet
<1>2. /\ DOMAIN Append(backlog[tl], cur) = 1..(Len(backlog[tl]) + 1)
      /\ Append(backlog[tl], cur)[Len(backlog[tl]) + 1] = cur
      /\ \A i \in 1..Len(backlog[tl]) :
           Append(backlog[tl], cur)[i] = backlog[tl][i] /\ i \in DOMAIN backlog[tl]
      /\ \A i \in 1..(Len(backlog[tl]) + 1) :
           i \in 1..Len(backlog[tl]) \/ i = Len(backlog[tl]) + 1
  BY <1>1
<1>3. ASSUME NEW m \in Listener, NEW i \in DOMAIN backlog'[m]
      PROVE  Serves(m, conn[backlog'[m][i]].dst)
  <2>1. CASE m = tl
    BY <1>1, <1>2, <2>1 DEF Ports, OfferedRight, RightKey
  <2>2. CASE m # tl
    BY <1>1, <2>2 DEF Ports, RightKey
  <2> QED BY <2>1, <2>2
<1>4. RightKey'
  BY <1>1, <1>3 DEF RightKey, Serves, ListenerKey
<1> QED BY <1>1, <1>4 DEF Ports, DstIsLocal, OfferedRight, Allocated, ListenerKey, Serves

(* A segment that makes or changes connection c gives it, if it opens it,  *)
(* to the listener for the address it was sent to.                         *)
LEMMA PortsSegment ==
  ASSUME IInv, EstablishedOnce, Ports, NEW c \in Conn, NEW k2 \in ConnRec,
         conn' = [conn EXCEPT ![c] = k2],
         ListenerKey(k2.dst) = ListenerKey(k2.local),
         conn[c] = NotAllocated \/ k2.dst = conn[c].dst,
         UNCHANGED <<backlog, lisAddr>>, loop = "recv",
         \/ /\ loop' = "offer" /\ cur' = c
            /\ Serves(tl', k2.dst)
         \/ loop' # "offer"
  PROVE  Ports'
<1>1. conn \in [Conn -> ConnRec \cup {NotAllocated}]
  BY DEF IInv, TypeOK
<1>2. DstIsLocal'
  BY <1>1 DEF Ports, DstIsLocal, Allocated, ListenerKey, Serves
<1>3. OfferedRight'
  BY <1>1 DEF OfferedRight, Serves, ListenerKey
<1>4. RightKey'
  <2>1. ASSUME NEW l \in Listener, NEW i \in DOMAIN backlog[l]
        PROVE  Serves(l, conn'[backlog[l][i]].dst)
    <3>1. /\ backlog[l][i] \in Conn /\ conn[backlog[l][i]] # NotAllocated
          /\ Serves(l, conn[backlog[l][i]].dst)
      BY HandedOut, ConnRecAllocated DEF Ports, RightKey
    <3> QED BY <1>1, <3>1
  <2> QED BY <2>1 DEF RightKey, Serves, ListenerKey
<1> QED BY <1>2, <1>3, <1>4 DEF Ports

LEMMA PortsNext ==
  ASSUME IInv, EstablishedOnce, Ports, [Next]_vars
  PROVE  Ports'
<1>1. CASE \/ UNCHANGED vars \/ ListenRace
           \/ \E l \in Listener : ListenEnd(l)
           \/ \E seg \in Segment : \/ RecvDuringListen(seg)
                                   \/ RecvSynNoListener(seg)
                                   \/ RecvUnknown(seg)
  BY <1>1, PortsQuiet DEF vars, lisVars, connVars, loopVars, ListenEnd, ListenRace,
     RecvDuringListen, RecvSynNoListener, RecvUnknown
<1>2. ASSUME NEW l \in Listener, (\E a \in Local : ListenBegin(l, a)) \/ Accept(l)
      PROVE  Ports'
  BY <1>2, PortsListen, PortsAccept
<1>3. ASSUME NEW seg \in Segment, NEW c \in Conn, RecvSyn(seg, c)
      PROVE  Ports'
  <2>1. loop = "recv"
    BY <1>3 DEF RecvSyn, Receive
  <2>2. PICK k2 \in ConnRec : /\ conn' = [conn EXCEPT ![c] = k2]
                              /\ k2.dst = seg.dst
                              /\ ListenerKey(k2.local) = ListenerKey(seg.dst)
    BY <1>3, SynSteps
  <2>3. /\ conn[c] = NotAllocated /\ UNCHANGED <<backlog, lisAddr>>
        /\ \/ /\ loop' = "offer" /\ cur' = c
              /\ Serves(tl', seg.dst)
           \/ loop' # "offer"
    BY <1>3, <2>1, SynSteps DEF loopVars
  <2> QED BY <2>1, <2>2, <2>3, PortsSegment
<1>4. ASSUME NEW seg \in Segment, RecvHandshake(seg) \/ RecvData(seg)
      PROVE  Ports'
  <2>1. loop = "recv"
    BY <1>4 DEF RecvHandshake, RecvData, Receive
  <2>2. PICK c \in Conn :
           /\ conn[c] \in ConnRec /\ conn[c].local = seg.dst
           /\ \E k2 \in ConnRec : /\ conn' = [conn EXCEPT ![c] = k2]
                                  /\ k2.local = conn[c].local
                                  /\ k2.dst = conn[c].dst
           /\ UNCHANGED <<backlog, lisAddr>>
           /\ \/ /\ loop' = "offer" /\ cur' = c
                 /\ Serves(tl', seg.dst)
              \/ loop' # "offer"
    BY <1>4, KnownSteps
  <2>3. PICK k2 \in ConnRec : /\ conn' = [conn EXCEPT ![c] = k2]
                              /\ k2.local = conn[c].local /\ k2.dst = conn[c].dst
    BY <2>2
  <2>4. ListenerKey(conn[c].dst) = ListenerKey(conn[c].local)
    BY <2>2, ConnRecAllocated DEF Ports, DstIsLocal, Allocated, ListenerKey, Serves
  <2> QED BY <2>1, <2>2, <2>3, <2>4, PortsSegment DEF Serves
<1>5. CASE LoopStep
  <2>1. CASE LoopOffer
    BY <2>1, PortsOffer
  <2>2. CASE LoopLock \/ LoopCopy \/ LoopUnlock
    BY <2>2, PortsQuiet DEF LoopLock, LoopCopy, LoopUnlock, connVars, lisVars
  <2> QED BY <1>5, <2>1, <2>2 DEF LoopStep
<1>6. CASE \E r \in Reader : \/ \E c \in Conn, b \in Buffer : ReadBegin(r, c, b)
                            \/ ReadStep(r)
  BY <1>6, PortsQuiet DEF ReadBegin, ReadStep, ReadLock, ReadByte, ReadReturn,
     connVars, lisVars, loopVars
<1> QED BY <1>1, <1>2, <1>3, <1>4, <1>5, <1>6 DEF Next

LEMMA SpecPorts == Spec => [](IInv /\ EstablishedOnce /\ Ports)
<1>1. Init => IInv /\ EstablishedOnce /\ Ports
  <2>1. Init => Ports
    BY DEF Init, Ports, DstIsLocal, OfferedRight, RightKey, Allocated
  <2> QED BY <2>1, InitIInv, OnceInit
<1>2. IInv /\ EstablishedOnce /\ Ports /\ [Next]_vars
        => (IInv /\ EstablishedOnce /\ Ports)'
  BY NextIInv, OnceNext, PortsNext
<1> QED BY <1>1, <1>2, PTL DEF Spec

(* Accept on a listener returns a connection that was opened to another    *)
(* port only if string(port) prints both as U+FFFD and the IP address is   *)
(* the same (tcpconn.go:145, 164, 300), although tl is looked up again for *)
(* the segment that ends the handshake and the listener of the SYN may     *)
(* have been replaced by then.                                             *)
THEOREM AcceptsOwnPort ==
  ASSUME NEW IPs, NEW PortNumbers, Local \subseteq [ip : IPs, port : PortNumbers]
  PROVE  Spec => []OnlySurrogatesMix
<1>1. ASSUME IInv, EstablishedOnce, Ports, NEW l \in Listener,
             NEW i \in DOMAIN backlog[l]
      PROVE  Alike(conn[backlog[l][i]].dst, lisAddr[l])
  <2>1. /\ conn[backlog[l][i]] \in ConnRec
        /\ Serves(l, conn[backlog[l][i]].dst)
    BY <1>1, HandedOut DEF Ports, RightKey
  <2>2. conn[backlog[l][i]].dst \in Local
    BY <2>1 DEF ConnRec
  <2>3. lisAddr[l] \in Local
    BY <1>1, <2>1 DEF IInv, TypeOK, Serves
  <2> QED BY <2>1, <2>2, <2>3, SameKey DEF Serves
<1>2. IInv /\ EstablishedOnce /\ Ports => OnlySurrogatesMix
  BY <1>1 DEF OnlySurrogatesMix, Alike
<1> QED BY <1>2, SpecPorts, PTL
=============================================================================
