--------------------------- MODULE TCPConnProofs ----------------------------
(***************************************************************************)
(* Theorems of TCPConn for every value of its constants.                   *)
(*                                                                         *)
(* TypeOK is not inductive: a new connection copies the address of the     *)
(* listener it was found under, the receive loop uses cur and tl, a Read   *)
(* its conn.  IInv adds what keeps these defined: a listener in the map is *)
(* stored under its own address, a connection in the map belongs to a port *)
(* that still has a listener, and the locals of a goroutine are set where  *)
(* it uses them.                                                           *)
(***************************************************************************)
EXTENDS TCPConn, TLAPS

ListenersStored ==
  /\ \A l \in writing : lisAddr[l] # NoAddr
  /\ \A k \in DOMAIN listeners : listeners[k] # NoListener =>
       /\ lisAddr[listeners[k]] # NoAddr
       /\ ListenerKey(lisAddr[listeners[k]]) = k

ConnectionsStored ==
  \A k \in Keys : connections[k] # NoConn =>
    /\ Allocated(connections[k])
    /\ k = Ident(conn[connections[k]])
    /\ listeners[ListenerKey(k[2])] # NoListener

LocalsSet ==
  /\ loop # "recv" => cur \in Conn
  /\ loop = "offer" => tl \in Listener
  /\ \A r \in Reader : rd[r].at # "out" => rd[r].conn \in Conn

IInv == TypeOK /\ ListenersStored /\ ConnectionsStored /\ LocalsSet

(* sem is made when the connection reaches ESTABLISHED, and then taken and *)
(* freed in turn: the lock invariant with what makes it inductive.         *)
SemMade == \A c \in Conn : sem[c] = "nil" <=> conn[c].state # "ESTABLISHED"
SemInv == SemMade /\ SemExclusive

-----------------------------------------------------------------------------
LEMMA NilFacts == /\ NoConn \notin Conn /\ NoListener \notin Listener
                  /\ NoAddr \notin Local
BY NilAssumption

LEMMA SegmentFields ==
  ASSUME NEW seg \in Segment
  PROVE  /\ seg.src \in Peer /\ seg.dst \in Local
         /\ seg.syn \in BOOLEAN /\ seg.ack \in BOOLEAN
         /\ seg.seq \in SeqNum /\ seg.win \in Nat /\ seg.len \in Nat
         /\ seg.data \in Seq(Byte)
BY SegmentAssumption

LEMMA PlusType ==
  ASSUME NEW a \in Int, NEW b \in Int
  PROVE  Plus(a, b) \in SeqNum
BY SeqAssumption DEF Plus, SeqNum

LEMMA KeyTypes ==
  ASSUME NEW seg \in Segment
  PROVE  /\ ListenerKey(seg.dst) \in {ListenerKey(a) : a \in Local}
         /\ LookupIdent(seg) \in Keys
         /\ LookupIdent(seg)[1] = LookupFormat
         /\ LookupIdent(seg)[2] = seg.dst
         /\ LookupIdent(seg)[3] = seg.src
BY SegmentFields DEF LookupIdent, ConnKey, Keys

LEMMA ConnRecType ==
  ASSUME TypeOK, NEW c \in Conn, Allocated(c)
  PROVE  conn[c] \in ConnRec
BY DEF TypeOK, Allocated

LEMMA InitIInv == Init => IInv
<1> SUFFICES ASSUME Init PROVE IInv
  OBVIOUS
<1>1. TypeOK
  BY SeqAssumption, CapacityAssumption
  DEF Init, TypeOK, Outside, ReaderRec, NotAllocated
<1>2. ListenersStored /\ ConnectionsStored
  BY DEF Init, ListenersStored, ConnectionsStored
<1>3. LocalsSet
  BY DEF Init, LocalsSet, Outside
<1> QED
  BY <1>1, <1>2, <1>3 DEF IInv

-----------------------------------------------------------------------------
(* The steps that touch the listeners *)

LEMMA ListenBeginIInv ==
  ASSUME IInv, NEW l \in Listener, NEW a \in Local, ListenBegin(l, a)
  PROVE  IInv'
<1> USE DEF IInv, ListenBegin
<1>1. TypeOK'
  BY DEF TypeOK, lisVars, connVars, loopVars, appVars
<1>2. ListenersStored'
  <2>1. \A m \in writing' : lisAddr'[m] # NoAddr
    BY NilFacts DEF TypeOK, ListenersStored
  <2>2. \A k \in DOMAIN listeners : listeners[k] # NoListener =>
          listeners[k] \in Listener /\ lisAddr'[listeners[k]] = lisAddr[listeners[k]]
    BY DEF TypeOK, ListenersStored
  <2> QED
    BY <2>1, <2>2 DEF ListenersStored, ListenerKey
<1>3. ConnectionsStored'
  BY DEF ConnectionsStored, Allocated, connVars, Ident, ConnKey
<1>4. LocalsSet'
  BY DEF LocalsSet, loopVars, appVars
<1> QED
  BY <1>1, <1>2, <1>3, <1>4

LEMMA ListenEndIInv ==
  ASSUME IInv, NEW l \in Listener, ListenEnd(l)
  PROVE  IInv'
<1> USE DEF IInv, ListenEnd
<1> DEFINE key == ListenerKey(lisAddr[l])
<1>0. l \in writing /\ lisAddr[l] \in Local /\ key \in DOMAIN listeners
  BY DEF TypeOK, ListenersStored
<1>1. TypeOK'
  BY <1>0 DEF TypeOK, connVars, loopVars, appVars
<1>2. ListenersStored'
  BY <1>0 DEF TypeOK, ListenersStored, ListenerKey
<1>3. \A k \in DOMAIN listeners :
        listeners[k] # NoListener => listeners'[k] # NoListener
  BY <1>0, NilFacts DEF TypeOK
<1>4. ConnectionsStored'
  <2> SUFFICES ASSUME NEW k \in Keys, connections[k] # NoConn
               PROVE  listeners'[ListenerKey(k[2])] # NoListener
    BY DEF ConnectionsStored, Allocated, connVars, Ident, ConnKey
  <2>1. ListenerKey(k[2]) \in DOMAIN listeners
    BY DEF Keys, TypeOK
  <2> QED
    BY <1>3, <2>1 DEF ConnectionsStored
<1>5. LocalsSet'
  BY DEF LocalsSet, loopVars, appVars
<1> QED
  BY <1>1, <1>2, <1>4, <1>5

LEMMA ListenRaceIInv == ASSUME IInv, ListenRace PROVE IInv'
<1>1. /\ status' = "mapRace"
      /\ UNCHANGED <<lisVars, backlog, connVars, sem, readChan, loopVars, rcvd,
                     appVars>>
  BY DEF ListenRace
<1> QED
  BY <1>1 DEF IInv, TypeOK, ListenersStored, ConnectionsStored, LocalsSet,
     Allocated, lisVars, connVars, loopVars, appVars, ListenerKey, Ident, ConnKey

LEMMA AcceptIInv ==
  ASSUME IInv, NEW l \in Listener, Accept(l)
  PROVE  IInv'
<1> USE DEF IInv, Accept
<1>1. TypeOK'
  BY DEF TypeOK, lisVars, connVars, loopVars
<1>2. ListenersStored' /\ ConnectionsStored'
  BY DEF ListenersStored, ConnectionsStored, Allocated, lisVars, connVars,
         ListenerKey, Ident, ConnKey
<1>3. LocalsSet'
  BY DEF LocalsSet, loopVars
<1> QED
  BY <1>1, <1>2, <1>3

-----------------------------------------------------------------------------
(* The steps of listenForPackets *)

(* What a call of sendSynAck or sendAck leaves behind. *)
LEMMA SendFacts ==
  ASSUME TypeOK, NEW c \in Conn, NEW k \in ConnRec, NEW syn \in BOOLEAN,
         NEW seq \in SeqNum, Send(c, k, syn, seq)
  PROVE  /\ status' \in {status, "sendFailed"}
         /\ wire' \subseteq SentSegment
         /\ \E k2 \in ConnRec :
              /\ conn' = [conn EXCEPT ![c] = k2]
              /\ k2.local = k.local /\ k2.remote = k.remote
              /\ k2.state = k.state /\ k2.dst = k.dst
<1> DEFINE k2 == [k EXCEPT !.sendNextSeq = Plus(seq, 1), !.unacked = seq]
           m == [conn |-> c, syn |-> syn, seq |-> seq,
                 ack |-> k.recvNextSeq, win |-> k.recvWindow]
<1>1. Plus(seq, 1) \in SeqNum
  BY PlusType DEF SeqNum
<1>2. k2 \in ConnRec /\ k2.local = k.local /\ k2.remote = k.remote
      /\ k2.state = k.state /\ k2.dst = k.dst
  BY <1>1 DEF ConnRec
<1>3. m \in SentSegment
  BY DEF SentSegment, ConnRec
<1>4. /\ conn' = [conn EXCEPT ![c] = k2]
      /\ \/ wire' = wire \cup {m} /\ UNCHANGED status
         \/ status' = "sendFailed" /\ UNCHANGED wire
  BY DEF Send
<1> HIDE DEF k2, m
<1> QED
  BY <1>2, <1>3, <1>4 DEF TypeOK

LEMMA ReceivedFacts ==
  ASSUME NEW k \in ConnRec, NEW next \in SeqNum, NEW win \in Nat
  PROVE  /\ Received(k, next, win) \in ConnRec
         /\ Received(k, next, win).local = k.local
         /\ Received(k, next, win).remote = k.remote
         /\ Received(k, next, win).state = k.state
         /\ Received(k, next, win).dst = k.dst
BY DEF Received, ConnRec

LEMMA HandshakeFacts ==
  ASSUME TypeOK, NEW c \in Conn, NEW k \in ConnRec, NEW seg \in Segment,
         NEW l \in Listener \cup {NoListener}, Handshake(c, k, seg, l)
  PROVE  /\ status' \in {status, "sendFailed"}
         /\ wire' \subseteq SentSegment
         /\ sem' \in [Conn -> {"nil", "free", "held"}]
         /\ readChan' \in [Conn -> Seq(Byte)]
         /\ \/ loop' = "offer" /\ cur' = c /\ tl' = l /\ UNCHANGED todo
            \/ UNCHANGED loopVars
         /\ \E k2 \in ConnRec :
              /\ conn' = [conn EXCEPT ![c] = k2]
              /\ k2.local = k.local /\ k2.remote = k.remote /\ k2.dst = k.dst
<1> DEFINE k1 == Received(k, Plus(seg.seq, 1), seg.win)
<1>1. k1 \in ConnRec /\ k1.local = k.local /\ k1.remote = k.remote
      /\ k1.state = k.state /\ k1.dst = k.dst
  <2>1. seg.seq \in Int /\ seg.win \in Nat
    BY SegmentFields DEF SeqNum
  <2>2. Plus(seg.seq, 1) \in SeqNum
    BY <2>1, PlusType
  <2> QED
    BY <2>1, <2>2, ReceivedFacts
<1> HIDE DEF k1
<1>2. CASE seg.ack
  <2> DEFINE k2 == Establish(k1)
  <2>1. k2 \in ConnRec /\ k2.local = k.local /\ k2.remote = k.remote
        /\ k2.dst = k.dst
    BY <1>1 DEF Establish, ConnRec, ConnState
  <2>2. /\ conn' = [conn EXCEPT ![c] = k2]
        /\ sem' = [sem EXCEPT ![c] = "free"]
        /\ readChan' = [readChan EXCEPT ![c] = <<>>]
        /\ loop' = "offer" /\ cur' = c /\ tl' = l
        /\ UNCHANGED <<status, wire, todo>>
    BY <1>2 DEF Handshake, k1
  <2> HIDE DEF k2
  <2>3. sem' \in [Conn -> {"nil", "free", "held"}]
        /\ readChan' \in [Conn -> Seq(Byte)] /\ wire' \subseteq SentSegment
    BY <2>2 DEF TypeOK
  <2> QED
    BY <2>1, <2>2, <2>3, <1>1
<1>3. CASE ~seg.ack
  <2>1. PICK isn \in ISN : Send(c, k1, TRUE, isn)
    BY <1>3 DEF Handshake, sendSynAck, k1
  <2>2. isn \in SeqNum
    BY SeqAssumption
  <2>3. UNCHANGED <<sem, readChan, loopVars>>
    BY <1>3 DEF Handshake
  <2>4. /\ status' \in {status, "sendFailed"}
        /\ wire' \subseteq SentSegment
        /\ \E k2 \in ConnRec :
             /\ conn' = [conn EXCEPT ![c] = k2]
             /\ k2.local = k1.local /\ k2.remote = k1.remote
             /\ k2.state = k1.state /\ k2.dst = k1.dst
    BY <1>1, <2>1, <2>2, SendFacts
  <2>5. sem' \in [Conn -> {"nil", "free", "held"}]
        /\ readChan' \in [Conn -> Seq(Byte)]
    BY <2>3 DEF TypeOK
  <2> QED
    BY <1>1, <2>3, <2>4, <2>5
<1> QED
  BY <1>2, <1>3

LEMMA ConnRecAllocated ==
  ASSUME NEW k \in ConnRec
  PROVE  k # NotAllocated
BY DEF ConnRec, ConnState, NotAllocated

LEMMA NewConnType ==
  ASSUME NEW seg \in Segment, NEW l, lisAddr[l] \in Local
  PROVE  /\ NewConn(seg, l) \in ConnRec
         /\ NewConn(seg, l).local = lisAddr[l]
<1>1. seg.src \in Peer /\ seg.dst \in Local
  BY SegmentFields
<1>2. 0 \in SeqNum
  BY SeqAssumption DEF SeqNum
<1> QED
  BY <1>1, <1>2 DEF NewConn, ConnRec, ConnState

LEMMA RecvSynIInv ==
  ASSUME IInv, NEW seg \in Segment, NEW c \in Conn, RecvSyn(seg, c)
  PROVE  IInv'
<1> DEFINE l == ListenerOf(seg)
           k == NewConn(seg, l)
           key == Ident(k)
<1>1. /\ l \in Listener /\ lisAddr[l] \in Local
      /\ ListenerKey(lisAddr[l]) = ListenerKey(seg.dst)
      /\ listeners[ListenerKey(seg.dst)] # NoListener
  <2>1. l # NoListener
    BY DEF RecvSyn
  <2>2. ListenerKey(seg.dst) \in DOMAIN listeners
    BY KeyTypes DEF IInv, TypeOK
  <2>3. l \in Listener /\ lisAddr[l] \in Local
    BY <2>1, <2>2 DEF ListenerOf, IInv, TypeOK, ListenersStored
  <2> QED
    BY <2>1, <2>2, <2>3 DEF ListenerOf, IInv, ListenersStored
<1>2. k \in ConnRec /\ k.local = lisAddr[l]
  BY <1>1, NewConnType
<1>3. key \in Keys /\ key[2] = lisAddr[l]
  BY <1>2 DEF Ident, ConnKey, Keys, ConnRec
<1>4. /\ conn[c] = NotAllocated
      /\ connections' = [connections EXCEPT ![key] = c]
      /\ Handshake(c, k, seg, l)
      /\ UNCHANGED <<lisVars, backlog, appVars>>
      /\ rcvd' \in 0..MaxSegs
  BY CapacityAssumption DEF RecvSyn, Receive, IInv, TypeOK
<1> HIDE DEF l, k, key
<1>5. PICK k2 \in ConnRec :
        /\ conn' = [conn EXCEPT ![c] = k2]
        /\ k2.local = k.local /\ k2.remote = k.remote
  BY <1>1, <1>2, <1>4, HandshakeFacts DEF IInv
<1>6. TypeOK'
  <2>1. /\ status' \in {status, "sendFailed"}
        /\ wire' \subseteq SentSegment
        /\ sem' \in [Conn -> {"nil", "free", "held"}]
        /\ readChan' \in [Conn -> Seq(Byte)]
        /\ \/ loop' = "offer" /\ cur' = c /\ tl' = l /\ UNCHANGED todo
           \/ UNCHANGED loopVars
    BY <1>1, <1>2, <1>4, HandshakeFacts DEF IInv
  <2>2. loop' \in {"recv", "offer", "lock", "copy"} /\ cur' \in Conn \cup {NoConn}
        /\ tl' \in Listener \cup {NoListener} /\ todo' \in Seq(Byte)
    BY <1>1, <2>1 DEF IInv, TypeOK, loopVars
  <2>3. conn' \in [Conn -> ConnRec \cup {NotAllocated}]
        /\ connections' \in [Keys -> Conn \cup {NoConn}]
    BY <1>4, <1>5 DEF IInv, TypeOK
  <2> QED
    BY <1>4, <2>1, <2>2, <2>3 DEF IInv, TypeOK, lisVars, appVars
<1>7. ListenersStored'
  BY <1>4 DEF IInv, ListenersStored, lisVars, ListenerKey
<1>8. ConnectionsStored'
  <2> SUFFICES ASSUME NEW x \in Keys, connections'[x] # NoConn
               PROVE  /\ Allocated(connections[x])'
                      /\ x = Ident(conn[connections[x]])'
                      /\ listeners'[ListenerKey(x[2])] # NoListener
    BY DEF ConnectionsStored, ListenerKey
  <2>1. CASE x = key
    <3>1. connections'[x] = c /\ conn'[c] = k2
      BY <1>3, <1>4, <1>5, <2>1 DEF IInv, TypeOK
    <3>2. Ident(k2) = key
      BY <1>5 DEF Ident, key
    <3> QED
      BY <1>1, <1>3, <1>4, <2>1, <3>1, <3>2, ConnRecAllocated
      DEF Allocated, lisVars, Ident
  <2>2. CASE x # key
    <3>1. connections'[x] = connections[x] /\ connections[x] # c
      BY <1>4, <2>2 DEF IInv, TypeOK, ConnectionsStored, Allocated
    <3>2. connections[x] \in Conn /\ conn'[connections[x]] = conn[connections[x]]
      BY <1>5, <3>1 DEF IInv, TypeOK
    <3> QED
      BY <1>4, <3>1, <3>2
      DEF IInv, ConnectionsStored, Allocated, lisVars, Ident, ConnKey
  <2> QED
    BY <2>1, <2>2
<1>9. LocalsSet'
  BY <1>1, <1>2, <1>4, HandshakeFacts DEF IInv, LocalsSet, loopVars, appVars
<1> QED
  BY <1>6, <1>7, <1>8, <1>9 DEF IInv

(* A segment for a connection of the map: the connection's port still has  *)
(* a listener, and storing the connection back under the same endpoints    *)
(* leaves the map as it was.                                               *)
LEMMA KnownConn ==
  ASSUME IInv, NEW seg \in Segment, ConnOf(seg) # NoConn
  PROVE  /\ ConnOf(seg) \in Conn /\ conn[ConnOf(seg)] \in ConnRec
         /\ ListenerOf(seg) \in Listener
<1>1. LookupIdent(seg) \in Keys /\ LookupIdent(seg)[2] = seg.dst
  BY KeyTypes
<1>2. ConnOf(seg) \in Conn /\ conn[ConnOf(seg)] \in ConnRec
  BY <1>1 DEF ConnOf, IInv, TypeOK, ConnectionsStored, Allocated
<1>3. ListenerOf(seg) # NoListener
  BY <1>1 DEF ConnOf, ListenerOf, IInv, ConnectionsStored
<1>4. ListenerOf(seg) \in Listener \cup {NoListener}
  BY KeyTypes DEF ListenerOf, IInv, TypeOK
<1> QED
  BY <1>2, <1>3, <1>4

LEMMA StoredBack ==
  ASSUME IInv, NEW c \in Conn, NEW k \in ConnRec, conn[c] \in ConnRec,
         k.local = conn[c].local, k.remote = conn[c].remote,
         conn' = [conn EXCEPT ![c] = k],
         UNCHANGED <<connections, listeners>>
  PROVE  ConnectionsStored'
<1> SUFFICES ASSUME NEW x \in Keys, connections[x] # NoConn
             PROVE  /\ Allocated(connections[x])'
                    /\ x = Ident(conn[connections[x]])'
                    /\ listeners[ListenerKey(x[2])] # NoListener
  BY DEF ConnectionsStored, ListenerKey
<1>1. /\ connections[x] \in Conn /\ Allocated(connections[x])
      /\ x = Ident(conn[connections[x]])
      /\ listeners[ListenerKey(x[2])] # NoListener
  BY DEF IInv, TypeOK, ConnectionsStored
<1>2. Ident(k) = Ident(conn[c])
  BY DEF Ident
<1>3. conn' [connections[x]] = IF connections[x] = c THEN k
                                                     ELSE conn[connections[x]]
  BY <1>1 DEF IInv, TypeOK
<1> QED
  BY <1>1, <1>2, <1>3, ConnRecAllocated DEF Allocated, Ident

LEMMA RecvHandshakeIInv ==
  ASSUME IInv, NEW seg \in Segment, RecvHandshake(seg)
  PROVE  IInv'
<1> DEFINE c == ConnOf(seg)
           l == ListenerOf(seg)
<1>1. /\ c # NoConn /\ Handshake(c, conn[c], seg, l)
      /\ UNCHANGED <<lisVars, backlog, connections, appVars>>
      /\ rcvd' \in 0..MaxSegs
  BY CapacityAssumption DEF RecvHandshake, Receive, IInv, TypeOK
<1>2. c \in Conn /\ conn[c] \in ConnRec /\ l \in Listener
  BY <1>1, KnownConn
<1> HIDE DEF c, l
<1>3. PICK k2 \in ConnRec :
        /\ conn' = [conn EXCEPT ![c] = k2]
        /\ k2.local = conn[c].local /\ k2.remote = conn[c].remote
  BY <1>1, <1>2, HandshakeFacts DEF IInv
<1>4. /\ status' \in {status, "sendFailed"}
      /\ wire' \subseteq SentSegment
      /\ sem' \in [Conn -> {"nil", "free", "held"}]
      /\ readChan' \in [Conn -> Seq(Byte)]
      /\ \/ loop' = "offer" /\ cur' = c /\ tl' = l /\ UNCHANGED todo
         \/ UNCHANGED loopVars
  BY <1>1, <1>2, HandshakeFacts DEF IInv
<1>5. TypeOK'
  <2>1. /\ loop' \in {"recv", "offer", "lock", "copy"}
        /\ cur' \in Conn \cup {NoConn}
        /\ tl' \in Listener \cup {NoListener} /\ todo' \in Seq(Byte)
    BY <1>2, <1>4 DEF IInv, TypeOK, loopVars
  <2>2. conn' \in [Conn -> ConnRec \cup {NotAllocated}]
    BY <1>3 DEF IInv, TypeOK
  <2> QED
    BY <1>1, <1>4, <2>1, <2>2 DEF IInv, TypeOK, lisVars, appVars
<1>6. ListenersStored'
  BY <1>1 DEF IInv, ListenersStored, lisVars, ListenerKey
<1>7. ConnectionsStored'
  BY <1>1, <1>2, <1>3, StoredBack DEF lisVars
<1>8. LocalsSet'
  BY <1>1, <1>2, <1>4 DEF IInv, LocalsSet, loopVars, appVars
<1> QED
  BY <1>5, <1>6, <1>7, <1>8 DEF IInv

LEMMA RecvDataIInv ==
  ASSUME IInv, NEW seg \in Segment, RecvData(seg)
  PROVE  IInv'
<1> DEFINE c == ConnOf(seg)
           k == Received(conn[c], Plus(seg.seq, seg.len), seg.win)
<1>1. /\ c # NoConn /\ Send(c, k, FALSE, k.sendNextSeq)
      /\ loop' = "lock" /\ cur' = c /\ todo' = seg.data
      /\ UNCHANGED <<lisVars, backlog, connections, sem, readChan, tl, appVars>>
      /\ rcvd' \in 0..MaxSegs
  <2>1. rcvd' \in 0..MaxSegs
    BY CapacityAssumption DEF RecvData, Receive, IInv, TypeOK
  <2> QED
    BY <2>1, Zenon DEF RecvData, sendAck
<1>2. c \in Conn /\ conn[c] \in ConnRec
  BY <1>1, KnownConn
<1>3. k \in ConnRec /\ k.local = conn[c].local /\ k.remote = conn[c].remote
  <2>1. seg.seq \in Int /\ seg.len \in Int /\ seg.win \in Nat
    BY SegmentFields DEF SeqNum
  <2>2. Plus(seg.seq, seg.len) \in SeqNum
    BY <2>1, PlusType
  <2> QED
    BY <1>2, <2>1, <2>2, ReceivedFacts
<1>4. k.sendNextSeq \in SeqNum
  BY <1>3 DEF ConnRec
<1>5. seg.data \in Seq(Byte)
  BY SegmentFields
<1> HIDE DEF c, k
<1>6. /\ status' \in {status, "sendFailed"}
      /\ wire' \subseteq SentSegment
      /\ \E k2 \in ConnRec :
           /\ conn' = [conn EXCEPT ![c] = k2]
           /\ k2.local = k.local /\ k2.remote = k.remote
           /\ k2.state = k.state /\ k2.dst = k.dst
  BY <1>1, <1>2, <1>3, <1>4, SendFacts DEF IInv
<1>7. PICK k2 \in ConnRec :
        /\ conn' = [conn EXCEPT ![c] = k2]
        /\ k2.local = k.local /\ k2.remote = k.remote
  BY <1>6
<1>8. TypeOK'
  <2>1. conn' \in [Conn -> ConnRec \cup {NotAllocated}]
    BY <1>7 DEF IInv, TypeOK
  <2> QED
    BY <1>1, <1>2, <1>5, <1>6, <2>1 DEF IInv, TypeOK, lisVars, appVars
<1>9. ListenersStored'
  BY <1>1 DEF IInv, ListenersStored, lisVars, ListenerKey
<1>10. ConnectionsStored'
  BY <1>1, <1>2, <1>3, <1>7, StoredBack DEF lisVars
<1>11. LocalsSet'
  BY <1>1, <1>2 DEF IInv, LocalsSet, appVars
<1> QED
  BY <1>8, <1>9, <1>10, <1>11 DEF IInv

LEMMA OtherRecvIInv ==
  ASSUME IInv, NEW seg \in Segment,
         RecvDuringListen(seg) \/ RecvSynNoListener(seg) \/ RecvUnknown(seg)
  PROVE  IInv'
<1>1. /\ status' \in {status, "mapRace", "nilConn"}
      /\ rcvd' \in 0..MaxSegs
      /\ UNCHANGED <<lisVars, backlog, connVars, sem, readChan, loopVars, appVars>>
  BY CapacityAssumption
  DEF RecvDuringListen, RecvSynNoListener, RecvUnknown, Receive, IInv, TypeOK
<1>2. TypeOK'
  BY <1>1 DEF IInv, TypeOK, lisVars, connVars, loopVars, appVars
<1>3. ListenersStored' /\ ConnectionsStored'
  BY <1>1 DEF IInv, ListenersStored, ConnectionsStored, Allocated, lisVars,
              connVars, ListenerKey, Ident, ConnKey
<1>4. LocalsSet'
  BY <1>1 DEF IInv, LocalsSet, loopVars, appVars
<1> QED
  BY <1>2, <1>3, <1>4 DEF IInv

-----------------------------------------------------------------------------
(* The rest of the receive loop, and Read *)

(* Neither touches the listeners or the connections. *)
LEMMA StoredUnchanged ==
  ASSUME IInv, UNCHANGED <<lisVars, connVars>>
  PROVE  ListenersStored' /\ ConnectionsStored'
BY DEF IInv, ListenersStored, ConnectionsStored, Allocated, lisVars, connVars,
       ListenerKey, Ident, ConnKey

LEMMA LoopIInv == ASSUME IInv, LoopStep PROVE IInv'
<1> USE DEF IInv
<1>1. CASE LoopOffer
  <2>1. backlog' \in [Listener -> Seq(Conn)]
    BY <1>1 DEF LoopOffer, TypeOK, LocalsSet
  <2>2. TypeOK'
    BY <1>1, <2>1 DEF LoopOffer, TypeOK, lisVars, connVars, appVars
  <2>3. LocalsSet'
    BY <1>1 DEF LoopOffer, LocalsSet, appVars
  <2> QED
    BY <1>1, <2>2, <2>3, StoredUnchanged DEF LoopOffer
<1>2. CASE LoopLock
  <2>1. TypeOK'
    BY <1>2 DEF LoopLock, Acquire, TypeOK, lisVars, connVars, appVars
  <2>2. LocalsSet'
    BY <1>2 DEF LoopLock, LocalsSet, appVars
  <2> QED
    BY <1>2, <2>1, <2>2, StoredUnchanged DEF LoopLock
<1>3. CASE LoopCopy
  <2>1. Head(todo) \in Byte /\ Tail(todo) \in Seq(Byte)
    BY <1>3 DEF LoopCopy, TypeOK
  <2>2. readChan' \in [Conn -> Seq(Byte)]
    <3>1. cur \in Conn
      BY <1>3 DEF LoopCopy, LocalsSet
    <3>2. Append(readChan[cur], Head(todo)) \in Seq(Byte)
      BY <2>1, <3>1 DEF TypeOK
    <3> QED
      BY <1>3, <3>1, <3>2 DEF LoopCopy, TypeOK
  <2>3. TypeOK'
    BY <1>3, <2>1, <2>2 DEF LoopCopy, TypeOK, lisVars, connVars, appVars
  <2>4. LocalsSet'
    BY <1>3 DEF LoopCopy, LocalsSet, appVars
  <2> QED
    BY <1>3, <2>3, <2>4, StoredUnchanged DEF LoopCopy
<1>4. CASE LoopUnlock
  <2>1. TypeOK'
    BY <1>4 DEF LoopUnlock, Release, TypeOK, lisVars, connVars, appVars
  <2>2. LocalsSet'
    BY <1>4 DEF LoopUnlock, LocalsSet, appVars
  <2> QED
    BY <1>4, <2>1, <2>2, StoredUnchanged DEF LoopUnlock
<1> QED
  BY <1>1, <1>2, <1>3, <1>4 DEF LoopStep

LEMMA ReadBeginIInv ==
  ASSUME IInv, NEW r \in Reader, NEW c \in Conn, NEW b \in Buffer,
         ReadBegin(r, c, b)
  PROVE  IInv'
<1> DEFINE rec == [at |-> "lock", conn |-> c, room |-> b.len,
                   want |-> MinOf(b.cap, Len(readChan[c])), got |-> <<>>]
<1>1. rec \in ReaderRec
  <2>1. b.len \in Nat /\ b.cap \in Nat
    BY BufferAssumption
  <2>2. Len(readChan[c]) \in Nat
    BY DEF IInv, TypeOK
  <2> QED
    BY <2>1, <2>2 DEF MinOf, ReaderRec
<1>2. rd' = [rd EXCEPT ![r] = rec] /\ rec.conn = c
  BY DEF ReadBegin
<1>3. UNCHANGED <<status, lisVars, backlog, connVars, sem, readChan, loopVars,
                  rcvd, accepted, taken>>
  BY DEF ReadBegin
<1> HIDE DEF rec
<1>4. TypeOK'
  BY <1>1, <1>2, <1>3 DEF IInv, TypeOK, lisVars, connVars, loopVars
<1>5. LocalsSet'
  BY <1>2, <1>3 DEF IInv, TypeOK, LocalsSet, loopVars
<1> QED
  BY <1>3, <1>4, <1>5, StoredUnchanged DEF IInv

LEMMA ReadStepIInv ==
  ASSUME IInv, NEW r \in Reader, ReadStep(r)
  PROVE  IInv'
<1> USE DEF IInv
<1>0. rd[r] \in ReaderRec
  BY DEF TypeOK
<1>1. CASE ReadLock(r)
  <2> DEFINE rec == [rd[r] EXCEPT !.at = "copy"]
  <2>0. rec \in ReaderRec /\ rec.conn = rd[r].conn /\ rec.at = "copy"
    BY <1>0 DEF ReaderRec
  <2>3. rd' = [rd EXCEPT ![r] = rec]
    BY <1>1 DEF ReadLock
  <2> HIDE DEF rec
  <2>1. TypeOK'
    BY <1>1, <2>0, <2>3
    DEF ReadLock, Acquire, TypeOK, lisVars, connVars, loopVars
  <2>2. LocalsSet'
    BY <1>1, <2>0, <2>3 DEF ReadLock, TypeOK, LocalsSet, loopVars
  <2> QED
    BY <1>1, <2>1, <2>2, StoredUnchanged DEF ReadLock
<1>2. CASE ReadByte(r)
  <2>1. rd[r].conn \in Conn
    BY <1>2 DEF ReadByte, LocalsSet
  <2>2. /\ Head(readChan[rd[r].conn]) \in Byte
        /\ Tail(readChan[rd[r].conn]) \in Seq(Byte)
    BY <1>2, <2>1 DEF ReadByte, TypeOK
  <2>3. readChan' \in [Conn -> Seq(Byte)]
    BY <1>2, <2>1, <2>2 DEF ReadByte, TypeOK
  <2>4. rd' \in [Reader -> ReaderRec]
    <3> DEFINE got2 == Append(rd[r].got, Head(readChan[rd[r].conn]))
               rec == [rd[r] EXCEPT !.got = got2]
    <3>1. got2 \in Seq(Byte)
      BY <1>0, <2>2 DEF ReaderRec
    <3>2. rd' = [rd EXCEPT ![r] = rec]
      BY <1>2 DEF ReadByte
    <3> HIDE DEF got2
    <3>3. rec \in ReaderRec
      BY <1>0, <3>1 DEF ReaderRec
    <3> QED
      BY <3>2, <3>3 DEF TypeOK
  <2>5. status' \in {"up", "shortBuffer"}
    BY <1>2 DEF ReadByte
  <2>6. TypeOK'
    BY <1>2, <2>3, <2>4, <2>5 DEF ReadByte, TypeOK, lisVars, connVars, loopVars
  <2>7. LocalsSet'
    BY <1>2 DEF ReadByte, TypeOK, LocalsSet, loopVars
  <2> QED
    BY <1>2, <2>6, <2>7, StoredUnchanged DEF ReadByte
<1>3. CASE ReadReturn(r)
  <2>1. rd[r].got \in Seq(Byte)
    BY <1>0 DEF ReaderRec
  <2>2. taken' \in [Conn -> Seq(Byte)]
    <3>1. rd[r].conn \in Conn
      BY <1>3 DEF ReadReturn, LocalsSet
    <3>2. taken[rd[r].conn] \o rd[r].got \in Seq(Byte)
      BY <2>1, <3>1 DEF TypeOK
    <3> QED
      BY <1>3, <3>1, <3>2 DEF ReadReturn, TypeOK
  <2>3. Outside \in ReaderRec
    BY DEF Outside, ReaderRec
  <2>4. TypeOK'
    BY <1>3, <2>2, <2>3
    DEF ReadReturn, Release, TypeOK, lisVars, connVars, loopVars
  <2>5. LocalsSet'
    BY <1>3 DEF ReadReturn, TypeOK, LocalsSet, Outside, loopVars
  <2> QED
    BY <1>3, <2>4, <2>5, StoredUnchanged DEF ReadReturn
<1> QED
  BY <1>1, <1>2, <1>3 DEF ReadStep

LEMMA StutterIInv == ASSUME IInv, UNCHANGED vars PROVE IInv'
BY DEF IInv, TypeOK, ListenersStored, ConnectionsStored, LocalsSet, Allocated,
       vars, lisVars, connVars, loopVars, appVars, ListenerKey, Ident, ConnKey

LEMMA NextIInv == ASSUME IInv, [Next]_vars PROVE IInv'
<1>1. CASE \E l \in Listener, a \in Local : ListenBegin(l, a)
  BY <1>1, ListenBeginIInv
<1>2. ASSUME NEW l \in Listener, ListenEnd(l)
      PROVE  IInv'
  BY <1>2, ListenEndIInv
<1>3. CASE \E l \in Listener : Accept(l)
  BY <1>3, AcceptIInv
<1>4. ASSUME NEW seg \in Segment,
             RecvDuringListen(seg) \/ RecvSynNoListener(seg) \/ RecvUnknown(seg)
      PROVE  IInv'
  BY <1>4, OtherRecvIInv
<1>5. ASSUME NEW seg \in Segment, NEW c \in Conn, RecvSyn(seg, c)
      PROVE  IInv'
  BY <1>5, RecvSynIInv
<1>6. ASSUME NEW seg \in Segment, RecvHandshake(seg)
      PROVE  IInv'
  BY <1>6, RecvHandshakeIInv
<1>7. ASSUME NEW seg \in Segment, RecvData(seg)
      PROVE  IInv'
  BY <1>7, RecvDataIInv
<1>8. CASE LoopStep
  BY <1>8, LoopIInv
<1>9. ASSUME NEW r \in Reader, NEW c \in Conn, NEW b \in Buffer,
             ReadBegin(r, c, b)
      PROVE  IInv'
  BY <1>9, ReadBeginIInv
<1>10. ASSUME NEW r \in Reader, ReadStep(r)
       PROVE  IInv'
  BY <1>10, ReadStepIInv
<1>11. CASE ListenRace
  BY <1>11, ListenRaceIInv
<1>12. CASE UNCHANGED vars
  BY <1>12, StutterIInv
<1> QED
  BY <1>1, <1>2, <1>3, <1>4, <1>5, <1>6, <1>7, <1>8, <1>9, <1>10, <1>11, <1>12
  DEF Next

LEMMA SpecIInv == Spec => []IInv
BY InitIInv, NextIInv, PTL DEF Spec

(* Every variable of the package keeps its type: no step reads an address  *)
(* of a listener that was not stored or a field of a nil connection other  *)
(* than the one RecvUnknown stands for.                                    *)
THEOREM TypeCorrect == Spec => []TypeOK
<1>1. IInv => TypeOK
  BY DEF IInv
<1> QED
  BY <1>1, SpecIInv, PTL

(* tl.connChannel at tcpconn.go:348 is a field of a listener, whatever     *)
(* happened to the listeners between the SYN and the ACK.                  *)
THEOREM OfferNotNil == Spec => []OfferHasListener
<1>1. IInv => OfferHasListener
  BY NilFacts DEF IInv, LocalsSet, OfferHasListener
<1> QED
  BY <1>1, SpecIInv, PTL

-----------------------------------------------------------------------------
(* The semaphore of a connection is a lock *)

(* What a segment of the handshake does to the connection and its sem. *)
Opened(c) ==
  /\ sem' = [sem EXCEPT ![c] = "free"]
  /\ loop' = "offer" /\ cur' = c
  /\ \E k2 \in ConnRec : /\ conn' = [conn EXCEPT ![c] = k2]
                         /\ k2.state = "ESTABLISHED"
NotOpened(c) ==
  /\ UNCHANGED <<sem, loop, cur>>
  /\ \E k2 \in ConnRec : /\ conn' = [conn EXCEPT ![c] = k2]
                         /\ k2.state = "SYN_RECEIVED"

LEMMA HandshakeOpens ==
  ASSUME TypeOK, NEW c \in Conn, NEW k \in ConnRec, NEW seg \in Segment,
         NEW l, k.state = "SYN_RECEIVED", Handshake(c, k, seg, l)
  PROVE  Opened(c) \/ NotOpened(c)
<1> DEFINE k1 == Received(k, Plus(seg.seq, 1), seg.win)
<1>1. k1 \in ConnRec /\ k1.state = "SYN_RECEIVED"
  <2>1. seg.seq \in Int /\ seg.win \in Nat
    BY SegmentFields DEF SeqNum
  <2>2. Plus(seg.seq, 1) \in SeqNum
    BY <2>1, PlusType
  <2> QED
    BY <2>1, <2>2, ReceivedFacts
<1> HIDE DEF k1
<1>2. CASE seg.ack
  <2>1. Establish(k1) \in ConnRec /\ Establish(k1).state = "ESTABLISHED"
    BY <1>1 DEF Establish, ConnRec, ConnState
  <2>2. /\ conn' = [conn EXCEPT ![c] = Establish(k1)]
        /\ sem' = [sem EXCEPT ![c] = "free"]
        /\ loop' = "offer" /\ cur' = c
    BY <1>2 DEF Handshake, k1
  <2> QED
    BY <2>1, <2>2 DEF Opened
<1>3. CASE ~seg.ack
  <2>1. PICK isn \in ISN : Send(c, k1, TRUE, isn)
    BY <1>3 DEF Handshake, sendSynAck, k1
  <2>2. isn \in SeqNum
    BY SeqAssumption
  <2>3. \E k2 \in ConnRec :
           /\ conn' = [conn EXCEPT ![c] = k2]
           /\ k2.local = k1.local /\ k2.remote = k1.remote
           /\ k2.state = k1.state /\ k2.dst = k1.dst
    BY <1>1, <2>1, <2>2, SendFacts
  <2>4. UNCHANGED <<sem, loop, cur>>
    BY <1>3 DEF Handshake, loopVars
  <2> QED
    BY <1>1, <2>3, <2>4 DEF NotOpened
<1> QED
  BY <1>2, <1>3

LEMMA HandshakeSteps ==
  ASSUME IInv, NEW seg \in Segment,
         (\E c \in Conn : RecvSyn(seg, c)) \/ RecvHandshake(seg)
  PROVE  \E c \in Conn : /\ conn[c].state # "ESTABLISHED"
                         /\ Opened(c) \/ NotOpened(c)
                         /\ loop = "recv"
                         /\ UNCHANGED <<backlog, accepted, rd>>
<1>1. ASSUME NEW c \in Conn, RecvSyn(seg, c)
      PROVE  /\ conn[c].state # "ESTABLISHED"
             /\ Opened(c) \/ NotOpened(c)
             /\ loop = "recv"
             /\ UNCHANGED <<backlog, accepted, rd>>
  <2> DEFINE l == ListenerOf(seg)
             k == NewConn(seg, l)
  <2>1. l # NoListener
    BY <1>1 DEF RecvSyn
  <2>2. ListenerKey(seg.dst) \in DOMAIN listeners
    BY KeyTypes DEF IInv, TypeOK
  <2>3. lisAddr[l] \in Local
    BY <2>1, <2>2 DEF ListenerOf, IInv, TypeOK, ListenersStored
  <2>4. k \in ConnRec /\ k.state = "SYN_RECEIVED"
    BY <2>3, NewConnType DEF NewConn
  <2>5. Handshake(c, k, seg, l)
    BY <1>1 DEF RecvSyn
  <2> HIDE DEF l, k
  <2>6. Opened(c) \/ NotOpened(c)
    BY <2>4, <2>5, HandshakeOpens DEF IInv
  <2> QED
    BY <1>1, <2>6 DEF RecvSyn, Receive, NotAllocated, appVars
<1>2. ASSUME RecvHandshake(seg)
      PROVE  /\ ConnOf(seg) \in Conn
             /\ conn[ConnOf(seg)].state # "ESTABLISHED"
             /\ Opened(ConnOf(seg)) \/ NotOpened(ConnOf(seg))
             /\ loop = "recv"
             /\ UNCHANGED <<backlog, accepted, rd>>
  <2> DEFINE c == ConnOf(seg)
  <2>1. c # NoConn /\ conn[c].state = "SYN_RECEIVED"
        /\ Handshake(c, conn[c], seg, ListenerOf(seg))
    BY <1>2 DEF RecvHandshake
  <2>2. c \in Conn /\ conn[c] \in ConnRec
    BY <2>1, KnownConn
  <2> HIDE DEF c
  <2>3. Opened(c) \/ NotOpened(c)
    BY <2>1, <2>2, HandshakeOpens DEF IInv
  <2> QED
    BY <1>2, <2>1, <2>2, <2>3 DEF RecvHandshake, Receive, appVars, c
<1> QED
  BY <1>1, <1>2

(* A segment of an established connection changes fields of its record. *)
LEMMA DataSteps ==
  ASSUME IInv, NEW seg \in Segment, RecvData(seg)
  PROVE  /\ loop = "recv" /\ loop' = "lock" /\ cur' \in Conn
         /\ UNCHANGED <<backlog, accepted, rd, sem>>
         /\ \A c \in Conn : conn'[c].state = conn[c].state
<1> DEFINE c == ConnOf(seg)
           k == Received(conn[c], Plus(seg.seq, seg.len), seg.win)
<1>1. /\ c # NoConn /\ Send(c, k, FALSE, k.sendNextSeq)
      /\ loop = "recv" /\ loop' = "lock" /\ cur' = c
      /\ UNCHANGED <<backlog, accepted, rd, sem>>
  BY Zenon DEF RecvData, Receive, sendAck, appVars
<1>2. c \in Conn /\ conn[c] \in ConnRec
  BY <1>1, KnownConn
<1>3. k \in ConnRec /\ k.state = conn[c].state
  <2>1. seg.seq \in Int /\ seg.len \in Int /\ seg.win \in Nat
    BY SegmentFields DEF SeqNum
  <2>2. Plus(seg.seq, seg.len) \in SeqNum
    BY <2>1, PlusType
  <2> QED
    BY <1>2, <2>1, <2>2, ReceivedFacts
<1>4. k.sendNextSeq \in SeqNum
  BY <1>3 DEF ConnRec
<1> HIDE DEF c, k
<1>5. \E k2 \in ConnRec :
         /\ conn' = [conn EXCEPT ![c] = k2]
         /\ k2.local = k.local /\ k2.remote = k.remote
         /\ k2.state = k.state /\ k2.dst = k.dst
  BY <1>1, <1>2, <1>3, <1>4, SendFacts DEF IInv
<1>6. PICK k2 \in ConnRec : /\ conn' = [conn EXCEPT ![c] = k2]
                            /\ k2.state = k.state
  BY <1>5
<1> QED
  BY <1>1, <1>2, <1>3, <1>6 DEF IInv, TypeOK

LEMMA SemHandshake ==
  ASSUME IInv, SemInv, NEW c \in Conn, conn[c].state # "ESTABLISHED",
         Opened(c) \/ NotOpened(c), loop = "recv", UNCHANGED rd
  PROVE  SemInv'
<1>1. sem[c] = "nil"
  BY DEF SemInv, SemMade
<1>2. SemMade'
  BY <1>1 DEF SemInv, SemMade, Opened, NotOpened, IInv, TypeOK
<1>3. \A x \in Conn : ~LoopCopying(x) /\ ~LoopCopying(x)'
  BY DEF LoopCopying, Opened, NotOpened
<1>4. \A x \in Conn : sem'[x] = "held" <=> sem[x] = "held"
  BY <1>1 DEF Opened, NotOpened, IInv, TypeOK
<1>5. \A x \in Conn, r \in Reader : Copying(r, x)' <=> Copying(r, x)
  BY DEF Copying
<1>6. SemExclusive'
  BY <1>3, <1>4, <1>5 DEF SemInv, SemExclusive
<1> QED
  BY <1>2, <1>6 DEF SemInv

LEMMA SemQuiet ==
  ASSUME SemInv, UNCHANGED sem,
         \A x \in Conn : conn'[x].state = conn[x].state,
         \A x \in Conn : LoopCopying(x)' <=> LoopCopying(x),
         \A x \in Conn, r \in Reader : Copying(r, x)' <=> Copying(r, x)
  PROVE  SemInv'
BY DEF SemInv, SemMade, SemExclusive

LEMMA SemLoop == ASSUME IInv, SemInv, LoopStep PROVE SemInv'
<1>1. CASE LoopOffer
  BY <1>1, SemQuiet DEF LoopOffer, LoopCopying, Copying, connVars, appVars
<1>2. CASE LoopLock
  <2>1. /\ cur \in Conn /\ sem[cur] = "free" /\ loop = "lock"
        /\ sem' = [sem EXCEPT ![cur] = "held"] /\ loop' = "copy"
        /\ UNCHANGED <<conn, rd, cur>>
    BY <1>2 DEF LoopLock, Acquire, IInv, LocalsSet, connVars, appVars
  <2>2. SemMade'
    BY <2>1 DEF SemInv, SemMade, IInv, TypeOK
  <2>3. \A x \in Conn : ~LoopCopying(x) /\ (LoopCopying(x)' <=> x = cur)
    BY <2>1 DEF LoopCopying
  <2>4. \A x \in Conn, r \in Reader : Copying(r, x)' <=> Copying(r, x)
    BY <2>1 DEF Copying
  <2>5. \A r \in Reader : ~Copying(r, cur)
    BY <2>1 DEF SemInv, SemExclusive
  <2>6. \A x \in Conn : sem'[x] = "held" <=> (x = cur \/ sem[x] = "held")
    BY <2>1 DEF IInv, TypeOK
  <2>7. SemExclusive'
    BY <2>3, <2>4, <2>5, <2>6 DEF SemInv, SemExclusive
  <2> QED
    BY <2>2, <2>7 DEF SemInv
<1>3. CASE LoopCopy
  BY <1>3, SemQuiet DEF LoopCopy, LoopCopying, Copying, connVars, appVars
<1>4. CASE LoopUnlock
  <2>1. /\ cur \in Conn /\ loop = "copy" /\ loop' = "recv"
        /\ sem' = [sem EXCEPT ![cur] = "free"]
        /\ UNCHANGED <<conn, rd>>
    BY <1>4 DEF LoopUnlock, Release, IInv, LocalsSet, connVars, appVars
  <2>2. sem[cur] = "held" /\ \A r \in Reader : ~Copying(r, cur)
    BY <2>1 DEF SemInv, SemExclusive, LoopCopying
  <2>3. SemMade'
    BY <2>1, <2>2 DEF SemInv, SemMade, IInv, TypeOK
  <2>4. \A x \in Conn : ~LoopCopying(x)' /\ (LoopCopying(x) <=> x = cur)
    BY <2>1 DEF LoopCopying
  <2>5. \A x \in Conn, r \in Reader : Copying(r, x)' <=> Copying(r, x)
    BY <2>1 DEF Copying
  <2>6. \A x \in Conn : sem'[x] = "held" <=> (x # cur /\ sem[x] = "held")
    BY <2>1 DEF IInv, TypeOK
  <2>7. SemExclusive'
    BY <2>2, <2>4, <2>5, <2>6 DEF SemInv, SemExclusive
  <2> QED
    BY <2>3, <2>7 DEF SemInv
<1> QED
  BY <1>1, <1>2, <1>3, <1>4 DEF LoopStep

LEMMA SemRead ==
  ASSUME IInv, SemInv, NEW r \in Reader, ReadStep(r)
  PROVE  SemInv'
<1> DEFINE c == rd[r].conn
<1>1. CASE ReadLock(r)
  <2>1. /\ c \in Conn /\ sem[c] = "free" /\ rd[r].at = "lock"
        /\ sem' = [sem EXCEPT ![c] = "held"]
        /\ rd' = [rd EXCEPT ![r].at = "copy"]
        /\ UNCHANGED <<conn, loop, cur>>
    BY <1>1 DEF ReadLock, Acquire, IInv, LocalsSet, connVars, loopVars
  <2>2. SemMade'
    BY <2>1 DEF SemInv, SemMade, IInv, TypeOK
  <2>3. \A x \in Conn : LoopCopying(x)' <=> LoopCopying(x)
    BY <2>1 DEF LoopCopying
  <2>4. \A x \in Conn, s \in Reader :
          Copying(s, x)' <=> (Copying(s, x) \/ (s = r /\ x = c))
    BY <2>1 DEF Copying, IInv, TypeOK, ReaderRec
  <2>5. ~LoopCopying(c) /\ \A s \in Reader : ~Copying(s, c)
    BY <2>1 DEF SemInv, SemExclusive
  <2>6. \A x \in Conn : sem'[x] = "held" <=> (x = c \/ sem[x] = "held")
    BY <2>1 DEF IInv, TypeOK
  <2> HIDE DEF c
  <2>7. SemExclusive'
    BY <2>3, <2>4, <2>5, <2>6 DEF SemInv, SemExclusive
  <2> QED
    BY <2>2, <2>7 DEF SemInv
<1>2. CASE ReadByte(r)
  <2>1. \A x \in Conn, s \in Reader : Copying(s, x)' <=> Copying(s, x)
    BY <1>2 DEF ReadByte, Copying, IInv, TypeOK, ReaderRec
  <2> QED
    BY <1>2, <2>1, SemQuiet DEF ReadByte, LoopCopying, connVars, loopVars
<1>3. CASE ReadReturn(r)
  <2>1. /\ c \in Conn /\ Copying(r, c)
        /\ sem' = [sem EXCEPT ![c] = "free"]
        /\ rd' = [rd EXCEPT ![r] = Outside]
        /\ UNCHANGED <<conn, loop, cur>>
    BY <1>3 DEF ReadReturn, Release, Copying, IInv, LocalsSet, connVars, loopVars
  <2>2. /\ sem[c] = "held" /\ ~LoopCopying(c)
        /\ \A s \in Reader : Copying(s, c) => s = r
    BY <2>1 DEF SemInv, SemExclusive
  <2>3. SemMade'
    BY <2>1, <2>2 DEF SemInv, SemMade, IInv, TypeOK
  <2>4. \A x \in Conn : LoopCopying(x)' <=> LoopCopying(x)
    BY <2>1 DEF LoopCopying
  <2>5. \A x \in Conn, s \in Reader :
          Copying(s, x)' <=> (Copying(s, x) /\ s # r)
    BY <2>1 DEF Copying, Outside, IInv, TypeOK
  <2>6. \A x \in Conn : Copying(r, x) => x = c
    BY DEF Copying
  <2>7. \A x \in Conn : sem'[x] = "held" <=> (x # c /\ sem[x] = "held")
    BY <2>1 DEF IInv, TypeOK
  <2> HIDE DEF c
  <2>8. SemExclusive'
    BY <2>2, <2>4, <2>5, <2>6, <2>7 DEF SemInv, SemExclusive
  <2> QED
    BY <2>3, <2>8 DEF SemInv
<1> QED
  BY <1>1, <1>2, <1>3 DEF ReadStep

LEMMA SemInit == Init => SemInv
<1> SUFFICES ASSUME Init PROVE SemInv
  OBVIOUS
<1>1. SemMade
  BY DEF Init, SemMade, NotAllocated
<1>2. \A c \in Conn : ~LoopCopying(c) /\ \A r \in Reader : ~Copying(r, c)
  BY DEF Init, LoopCopying, Copying, Outside
<1> QED
  BY <1>1, <1>2 DEF Init, SemInv, SemExclusive

LEMMA SemNext == ASSUME IInv, SemInv, [Next]_vars PROVE SemInv'
<1>1. CASE \/ \E l \in Listener, a \in Local : ListenBegin(l, a)
           \/ \E l \in Listener : ListenEnd(l)
           \/ ListenRace
           \/ \E l \in Listener : Accept(l)
           \/ UNCHANGED vars
  <2>1. UNCHANGED <<sem, conn, loop, cur, rd>>
    BY <1>1 DEF ListenBegin, ListenEnd, ListenRace, Accept, vars, connVars, loopVars, appVars
  <2> QED
    BY <2>1, SemQuiet DEF LoopCopying, Copying
<1>2. ASSUME NEW seg \in Segment,
             RecvDuringListen(seg) \/ RecvSynNoListener(seg) \/ RecvUnknown(seg)
      PROVE  SemInv'
  <2>1. UNCHANGED <<sem, conn, loop, cur, rd>>
    BY <1>2 DEF RecvDuringListen, RecvSynNoListener, RecvUnknown, connVars,
                loopVars, appVars
  <2> QED
    BY <2>1, SemQuiet DEF LoopCopying, Copying
<1>3. ASSUME NEW seg \in Segment,
             (\E c \in Conn : RecvSyn(seg, c)) \/ RecvHandshake(seg)
      PROVE  SemInv'
  BY <1>3, HandshakeSteps, SemHandshake
<1>4. ASSUME NEW seg \in Segment, RecvData(seg)
      PROVE  SemInv'
  BY <1>4, DataSteps, SemQuiet DEF LoopCopying, Copying
<1>5. CASE LoopStep
  BY <1>5, SemLoop
<1>6. ASSUME NEW r \in Reader, NEW c \in Conn, NEW b \in Buffer,
             ReadBegin(r, c, b)
      PROVE  SemInv'
  <2>1. \A x \in Conn, s \in Reader : Copying(s, x)' <=> Copying(s, x)
    BY <1>6 DEF ReadBegin, Copying, IInv, TypeOK
  <2>2. UNCHANGED <<sem, conn, loop, cur>>
    BY <1>6 DEF ReadBegin, connVars, loopVars
  <2> QED
    BY <2>1, <2>2, SemQuiet DEF LoopCopying
<1>7. ASSUME NEW r \in Reader, ReadStep(r)
      PROVE  SemInv'
  BY <1>7, SemRead
<1> QED
  BY <1>1, <1>2, <1>3, <1>4, <1>5, <1>6, <1>7 DEF Next

(* conn.sem excludes: at any time at most one of the receive loop and the  *)
(* Reads of a connection is between sem <- true and <-sem, for any number  *)
(* of readers and connections (tcpconn.go:127-133, 367-373).               *)
THEOREM SemIsALock == Spec => []SemExclusive
<1>1. Init => IInv /\ SemInv
  BY InitIInv, SemInit
<1>2. IInv /\ SemInv /\ [Next]_vars => (IInv /\ SemInv)'
  BY NextIInv, SemNext
<1>3. SemInv => SemExclusive
  BY DEF SemInv
<1> QED
  BY <1>1, <1>2, <1>3, PTL DEF Spec

-----------------------------------------------------------------------------
(* A connection is handed to one Accept *)

LEMMA OnceQuiet ==
  ASSUME EstablishedOnce, UNCHANGED <<backlog, accepted>>,
         \A x \in Conn : conn'[x].state = conn[x].state,
         \A x \in Conn : Offering(x)' <=> Offering(x)
  PROVE  EstablishedOnce'
BY DEF EstablishedOnce, InBacklog

LEMMA OnceHandshake ==
  ASSUME IInv, EstablishedOnce, NEW c \in Conn,
         conn[c].state # "ESTABLISHED", Opened(c) \/ NotOpened(c),
         loop = "recv", UNCHANGED <<backlog, accepted>>
  PROVE  EstablishedOnce'
<1>1. ~InBacklog(c) /\ c \notin accepted /\ \A x \in Conn : ~Offering(x)
  BY DEF EstablishedOnce, Offering
<1>2. \A x \in Conn : InBacklog(x)' <=> InBacklog(x)
  BY DEF InBacklog
<1>3. CASE Opened(c)
  <2>1. \A x \in Conn : Offering(x)' <=> x = c
    BY <1>3 DEF Opened, Offering
  <2>2. \A x \in Conn : conn'[x].state = "ESTABLISHED" <=>
                          (x = c \/ conn[x].state = "ESTABLISHED")
    BY <1>3 DEF Opened, IInv, TypeOK
  <2> QED
    BY <1>1, <1>2, <2>1, <2>2 DEF EstablishedOnce
<1>4. CASE NotOpened(c)
  <2>1. \A x \in Conn : ~Offering(x)'
    BY <1>4 DEF NotOpened, Offering
  <2>2. \A x \in Conn : conn'[x].state = "ESTABLISHED" <=>
                          conn[x].state = "ESTABLISHED"
    BY <1>4 DEF NotOpened, IInv, TypeOK
  <2> QED
    BY <1>1, <1>2, <2>1, <2>2 DEF EstablishedOnce
<1> QED
  BY <1>3, <1>4

LEMMA OnceOffer == ASSUME IInv, EstablishedOnce, LoopOffer PROVE EstablishedOnce'
<1>1. /\ tl \in Listener /\ cur \in Conn /\ backlog[tl] \in Seq(Conn)
      /\ backlog' = [backlog EXCEPT ![tl] = Append(@, cur)]
      /\ loop = "offer" /\ loop' = "recv"
      /\ UNCHANGED <<conn, accepted>>
  BY DEF LoopOffer, IInv, TypeOK, LocalsSet, connVars, appVars
<1> DEFINE n == Len(backlog[tl])
<1>2. /\ n \in Nat /\ DOMAIN backlog[tl] = 1..n
      /\ DOMAIN backlog'[tl] = 1..(n + 1) /\ backlog'[tl][n + 1] = cur
      /\ \A i \in 1..n : backlog'[tl][i] = backlog[tl][i]
  BY <1>1 DEF IInv, TypeOK
<1>3. \A l \in Listener : l # tl => backlog'[l] = backlog[l]
  BY <1>1 DEF IInv, TypeOK
<1> HIDE DEF n
<1>4. ~InBacklog(cur) /\ cur \notin accepted /\ conn[cur].state = "ESTABLISHED"
  BY <1>1 DEF EstablishedOnce, Offering
<1>5. \A x \in Conn : ~Offering(x)' /\ (Offering(x) <=> x = cur)
  BY <1>1 DEF Offering
<1>6. \A x \in Conn : InBacklog(x)' <=> (x = cur \/ InBacklog(x))
  BY <1>1, <1>2, <1>3 DEF InBacklog
<1>7. \A l, m \in Listener :
        \A i \in DOMAIN backlog'[l], j \in DOMAIN backlog'[m] :
          backlog'[l][i] = backlog'[m][j] => l = m /\ i = j
  <2> SUFFICES ASSUME NEW l \in Listener, NEW m \in Listener,
                      NEW i \in DOMAIN backlog'[l],
                      NEW j \in DOMAIN backlog'[m],
                      backlog'[l][i] = backlog'[m][j]
               PROVE  l = m /\ i = j
    OBVIOUS
  <2>1. \A x \in Listener : \A y \in DOMAIN backlog'[x] :
          \/ x = tl /\ y = n + 1 /\ backlog'[x][y] = cur
          \/ /\ y \in DOMAIN backlog[x] /\ backlog'[x][y] = backlog[x][y]
             /\ backlog'[x][y] # cur
    <3> SUFFICES ASSUME NEW x \in Listener, NEW y \in DOMAIN backlog'[x],
                        ~(x = tl /\ y = n + 1)
                 PROVE  /\ y \in DOMAIN backlog[x]
                        /\ backlog'[x][y] = backlog[x][y]
                        /\ backlog'[x][y] # cur
      BY <1>2
    <3>1. y \in DOMAIN backlog[x] /\ backlog'[x][y] = backlog[x][y]
      BY <1>2, <1>3
    <3> QED
      BY <1>4, <3>1 DEF InBacklog
  <2> QED
    BY <2>1 DEF EstablishedOnce
<1> QED
  BY <1>1, <1>4, <1>5, <1>6, <1>7 DEF EstablishedOnce

LEMMA OnceAccept ==
  ASSUME IInv, EstablishedOnce, NEW k \in Listener, Accept(k)
  PROVE  EstablishedOnce'
<1> DEFINE n == Len(backlog[k])
           c == Head(backlog[k])
<1>1. /\ backlog[k] \in Seq(Conn) /\ backlog[k] # <<>>
      /\ backlog' = [backlog EXCEPT ![k] = Tail(@)]
      /\ accepted' = accepted \cup {c}
      /\ UNCHANGED <<conn, loop, cur>>
  BY DEF Accept, IInv, TypeOK, connVars, loopVars
<1>2. /\ n \in Nat /\ n >= 1 /\ DOMAIN backlog[k] = 1..n
      /\ c = backlog[k][1] /\ c \in Conn
      /\ DOMAIN backlog'[k] = 1..(n - 1)
      /\ \A i \in 1..(n - 1) : backlog'[k][i] = backlog[k][i + 1]
  BY <1>1 DEF IInv, TypeOK
<1>3. \A l \in Listener : l # k => backlog'[l] = backlog[l]
  BY <1>1 DEF IInv, TypeOK
<1> HIDE DEF n, c
(* Where an entry of the new backlogs was before. *)
<1> DEFINE old(l, i) == IF l = k THEN i + 1 ELSE i
<1>4. \A l \in Listener : \A i \in DOMAIN backlog'[l] :
        /\ old(l, i) \in DOMAIN backlog[l] /\ i \in Int
        /\ backlog'[l][i] = backlog[l][old(l, i)]
        /\ ~(l = k /\ old(l, i) = 1)
  <2> SUFFICES ASSUME NEW l \in Listener, NEW i \in DOMAIN backlog'[l]
               PROVE  /\ old(l, i) \in DOMAIN backlog[l] /\ i \in Int
                      /\ backlog'[l][i] = backlog[l][old(l, i)]
                      /\ ~(l = k /\ old(l, i) = 1)
    OBVIOUS
  <2>1. CASE l = k
    BY <1>2, <2>1
  <2>2. CASE l # k
    BY <1>3, <2>2 DEF IInv, TypeOK
  <2> QED
    BY <2>1, <2>2
<1>5. InBacklog(c) /\ ~Offering(c)
  BY <1>2 DEF InBacklog, EstablishedOnce
<1>6. \A x \in Conn : InBacklog(x)' <=> (InBacklog(x) /\ x # c)
  <2>1. ASSUME NEW x \in Conn, InBacklog(x)'
        PROVE  InBacklog(x) /\ x # c
    BY <1>2, <1>4, <2>1 DEF InBacklog, EstablishedOnce
  <2>2. ASSUME NEW x \in Conn, InBacklog(x), x # c
        PROVE  InBacklog(x)'
    <3>1. PICK l \in Listener : \E i \in DOMAIN backlog[l] : backlog[l][i] = x
      BY <2>2 DEF InBacklog
    <3>2. PICK i \in DOMAIN backlog[l] : backlog[l][i] = x
      BY <3>1
    <3>3. CASE l = k
      <4>1. i - 1 \in DOMAIN backlog'[k] /\ backlog'[k][i - 1] = x
        BY <1>2, <2>2, <3>2, <3>3
      <4> QED
        BY <4>1 DEF InBacklog
    <3>4. CASE l # k
      BY <1>3, <3>2, <3>4 DEF InBacklog
    <3> QED
      BY <3>3, <3>4
  <2> QED
    BY <2>1, <2>2
<1>7. \A l, m \in Listener :
        \A i \in DOMAIN backlog'[l], j \in DOMAIN backlog'[m] :
          backlog'[l][i] = backlog'[m][j] => l = m /\ i = j
  <2> SUFFICES ASSUME NEW l \in Listener, NEW m \in Listener,
                      NEW i \in DOMAIN backlog'[l],
                      NEW j \in DOMAIN backlog'[m],
                      backlog'[l][i] = backlog'[m][j]
               PROVE  l = m /\ i = j
    OBVIOUS
  <2>1. l = m /\ old(l, i) = old(m, j)
    BY <1>4 DEF EstablishedOnce
  <2> QED
    BY <1>4, <2>1
<1>8. \A x \in Conn : Offering(x)' <=> Offering(x)
  BY <1>1 DEF Offering
<1> QED
  BY <1>1, <1>5, <1>6, <1>7, <1>8 DEF EstablishedOnce

LEMMA OnceInit == Init => EstablishedOnce
BY DEF Init, EstablishedOnce, InBacklog, Offering, NotAllocated

LEMMA OnceNext ==
  ASSUME IInv, EstablishedOnce, [Next]_vars
  PROVE  EstablishedOnce'
<1>1. CASE \/ \E l \in Listener, a \in Local : ListenBegin(l, a)
           \/ \E l \in Listener : ListenEnd(l)
           \/ ListenRace
           \/ UNCHANGED vars
  <2>1. UNCHANGED <<backlog, accepted, conn, loop, cur>>
    BY <1>1 DEF ListenBegin, ListenEnd, ListenRace, vars, connVars, loopVars, appVars
  <2> QED
    BY <2>1, OnceQuiet DEF Offering
<1>2. CASE \E l \in Listener : Accept(l)
  BY <1>2, OnceAccept
<1>3. ASSUME NEW seg \in Segment,
             RecvDuringListen(seg) \/ RecvSynNoListener(seg) \/ RecvUnknown(seg)
      PROVE  EstablishedOnce'
  <2>1. UNCHANGED <<backlog, accepted, conn, loop, cur>>
    BY <1>3 DEF RecvDuringListen, RecvSynNoListener, RecvUnknown, connVars,
                loopVars, appVars
  <2> QED
    BY <2>1, OnceQuiet DEF Offering
<1>4. ASSUME NEW seg \in Segment,
             (\E c \in Conn : RecvSyn(seg, c)) \/ RecvHandshake(seg)
      PROVE  EstablishedOnce'
  BY <1>4, HandshakeSteps, OnceHandshake
<1>5. ASSUME NEW seg \in Segment, RecvData(seg)
      PROVE  EstablishedOnce'
  BY <1>5, DataSteps, OnceQuiet DEF Offering
<1>6. CASE LoopStep
  <2>1. CASE LoopOffer
    BY <2>1, OnceOffer
  <2>2. CASE LoopLock \/ LoopCopy \/ LoopUnlock
    <3>1. UNCHANGED <<backlog, accepted, conn>>
      BY <2>2 DEF LoopLock, LoopCopy, LoopUnlock, connVars, appVars
    <3>2. loop # "offer" /\ loop' # "offer"
      BY <2>2 DEF LoopLock, LoopCopy, LoopUnlock
    <3> QED
      BY <3>1, <3>2, OnceQuiet DEF Offering
  <2> QED
    BY <1>6, <2>1, <2>2 DEF LoopStep
<1>7. CASE \E r \in Reader : \/ \E c \in Conn, b \in Buffer : ReadBegin(r, c, b)
                            \/ ReadStep(r)
  <2>1. UNCHANGED <<backlog, accepted, conn, loop, cur>>
    BY <1>7 DEF ReadBegin, ReadStep, ReadLock, ReadByte, ReadReturn, connVars,
                loopVars
  <2> QED
    BY <2>1, OnceQuiet DEF Offering
<1> QED
  BY <1>1, <1>2, <1>3, <1>4, <1>5, <1>6, <1>7 DEF Next

(* Accept hands out every established connection, and hands it out once:   *)
(* it is in exactly one of the receive loop's hand, one place of one       *)
(* backlog, and the application's (tcpconn.go:345-348, 151), whatever the  *)
(* listeners that were replaced meanwhile and the SYNs that were repeated. *)
THEOREM AcceptedOnce == Spec => []EstablishedOnce
<1>1. Init => IInv /\ EstablishedOnce
  BY InitIInv, OnceInit
<1>2. IInv /\ EstablishedOnce /\ [Next]_vars => (IInv /\ EstablishedOnce)'
  BY NextIInv, OnceNext
<1> QED
  BY <1>1, <1>2, PTL DEF Spec

=============================================================================
