------------------------------ MODULE TCPConn -------------------------------
(***************************************************************************)
(* Package tcp of gotcpip (net/tcp/tcpconn.go) as it runs after Start: the *)
(* goroutine of listenForPackets, the applications' goroutines in Listen,  *)
(* Accept and Read, and the objects they share.  An action is what a       *)
(* goroutine does between two operations that can block.                   *)
(*                                                                         *)
(* Sequence numbers are held in host order: every use converts with Ntohl  *)
(* and back with Htonl, which are inverse byte swaps (util.go:74, 81).     *)
(***************************************************************************)
EXTENDS Integers, Sequences, FiniteSets

CONSTANTS
  Local,         \* local endpoints, records [ip, port]
  Peer,          \* remote endpoints
  Listener,      \* TCPListener objects
  Conn,          \* TCPConn objects; bounds how many are created
  Reader,        \* application goroutines that call Read
  Byte,          \* values of a byte
  Segment,       \* the segments the network may deliver, any number of times
  Buffer,        \* slices passed to Read, records [len, cap]
  Surrogate,     \* ports whose network-order value is 0xD800..0xDFFF
  ReplacementChar,  \* the rune U+FFFD
  IdentFormat,   \* how ident prints an address: "%d"
  LookupFormat,  \* how listenForPackets prints an address: "%s" of dotted quad
  Backlog,       \* capacity of connChannel: 5
  ChanCap,       \* capacity of readChan: 10240
  SeqMod,        \* 2^32
  ISN,           \* values initialSequenceNumber may return
  MaxSegs,       \* bound on the number of segments received
  NoConn, NoListener, NoAddr   \* nil

SeqNum == 0..(SeqMod - 1)

ASSUME CapacityAssumption ==
  Backlog \in Nat \ {0} /\ ChanCap \in Nat \ {0} /\ MaxSegs \in Nat
ASSUME SeqAssumption == SeqMod \in Nat \ {0} /\ ISN \subseteq SeqNum
ASSUME NilAssumption ==
  NoConn \notin Conn /\ NoListener \notin Listener /\ NoAddr \notin Local
(* seq, win: header fields; len: PayloadLen after Parse; data: the captured *)
(* bytes from AppIndex on, longer than len when the frame is padded and     *)
(* shorter when the capture truncates it.  The acknowledgement number, FIN  *)
(* and RST are left out: the package never reads them.                      *)
ASSUME SegmentAssumption ==
  Segment \subseteq [src : Peer, dst : Local, syn : BOOLEAN, ack : BOOLEAN,
                     seq : SeqNum, win : Nat, len : Nat, data : Seq(Byte)]
ASSUME BufferAssumption == Buffer \subseteq [len : Nat, cap : Nat]

VARIABLES
  status,        \* "up", or what ended the process
  listeners,     \* map listeners: key -> TCPListener
  lisAddr,       \* localIP and localPort of each TCPListener
  backlog,       \* connChannel of each TCPListener
  writing,       \* the listeners that Listen calls are storing in the map
  connections,   \* map connections: key -> TCPConn
  conn,          \* the scalar fields of each TCPConn
  sem,           \* conn.sem: "nil", "free" or "held"
  readChan,      \* contents of conn.readChan
  loop,          \* where listenForPackets is: "recv","offer","lock","copy"
  cur, tl, todo, \* its locals: tcpConn, tl, bytes left of skbuf.Buffer
  rcvd,          \* how many segments it has received
  wire,          \* the segments sent
  accepted,      \* connections Accept has returned
  rd,            \* per reader: [at, conn, want, room, got]
  taken          \* history: per connection, the bytes its Reads returned

loopVars == <<loop, cur, tl, todo>>
lisVars  == <<listeners, lisAddr, writing>>
appVars  == <<accepted, rd, taken>>
connVars == <<connections, conn, wire>>
vars == <<status, lisVars, backlog, connVars, sem, readChan, loopVars, rcvd,
          appVars>>

-----------------------------------------------------------------------------
(* Keys of the two maps, and arithmetic *)

(* Faults, here and below: each is what one definition could have been by *)
(* mistake; the checks put it in that definition's place.                 *)
PlusNoWrap(a, b) == a + b
Plus(a, b) == (a + b) % SeqMod
MinIgnored(a, b) == a
MinOf(a, b) == IF a < b THEN a ELSE b

(* string(port) is the UTF-8 of that code point; a surrogate has none and  *)
(* becomes U+FFFD, so all these ports share one string.                    *)
PortDropped(p) == ReplacementChar
PortString(p) == IF p \in Surrogate THEN ReplacementChar ELSE p
ListenerKey(a) == <<a.ip, PortString(a.port)>>

(* A printed 4-tuple.  Each format prints an address injectively, and no   *)
(* "%d" of a uint32 equals a dotted quad: two keys are equal exactly when  *)
(* format and endpoints are.                                               *)
ConnKey(format, local, remote) == <<format, local, remote>>
Ident(k) == ConnKey(IdentFormat, k.local, k.remote)
LookupIdent(seg) == ConnKey(LookupFormat, seg.dst, seg.src)

ListenerOf(seg) == listeners[ListenerKey(seg.dst)]
ConnOf(seg) == connections[LookupIdent(seg)]

-----------------------------------------------------------------------------
ConnState == {"SYN_RECEIVED", "ESTABLISHED"}
Keys == {IdentFormat, LookupFormat} \X Local \X Peer
ConnRec == [state : ConnState, dst : Local, local : Local, remote : Peer,
            recvNextSeq : SeqNum, recvWindow : Nat,
            sendNextSeq : SeqNum, unacked : SeqNum]
SentSegment == [conn : Conn, syn : BOOLEAN, seq : SeqNum, ack : SeqNum,
                win : Nat]
ReaderRec == [at : {"out", "lock", "copy"}, conn : Conn \cup {NoConn},
              want : Nat, room : Nat, got : Seq(Byte)]
NotAllocated == [state |-> "none"]
Outside == [at |-> "out", conn |-> NoConn, want |-> 0, room |-> 0,
            got |-> <<>>]

TypeOK ==
  /\ status \in {"up", "nilConn", "sendFailed", "mapRace", "shortBuffer"}
  /\ listeners \in [{ListenerKey(a) : a \in Local} -> Listener \cup {NoListener}]
  /\ lisAddr \in [Listener -> Local \cup {NoAddr}]
  /\ backlog \in [Listener -> Seq(Conn)]
  /\ writing \subseteq Listener
  /\ connections \in [Keys -> Conn \cup {NoConn}]
  /\ conn \in [Conn -> ConnRec \cup {NotAllocated}]
  /\ sem \in [Conn -> {"nil", "free", "held"}]
  /\ readChan \in [Conn -> Seq(Byte)]
  /\ loop \in {"recv", "offer", "lock", "copy"}
  /\ cur \in Conn \cup {NoConn}
  /\ tl \in Listener \cup {NoListener}
  /\ todo \in Seq(Byte)
  /\ rcvd \in 0..MaxSegs
  /\ wire \subseteq SentSegment
  /\ accepted \subseteq Conn
  /\ rd \in [Reader -> ReaderRec]
  /\ taken \in [Conn -> Seq(Byte)]

Init ==
  /\ status = "up"
  /\ listeners = [k \in {ListenerKey(a) : a \in Local} |-> NoListener]
  /\ lisAddr = [l \in Listener |-> NoAddr]
  /\ backlog = [l \in Listener |-> <<>>]
  /\ writing = {}
  /\ connections = [k \in Keys |-> NoConn]
  /\ conn = [c \in Conn |-> NotAllocated]
  /\ sem = [c \in Conn |-> "nil"]
  /\ readChan = [c \in Conn |-> <<>>]
  /\ loop = "recv" /\ cur = NoConn /\ tl = NoListener /\ todo = <<>>
  /\ rcvd = 0
  /\ wire = {}
  /\ accepted = {}
  /\ rd = [r \in Reader |-> Outside]
  /\ taken = [c \in Conn |-> <<>>]

Up == status = "up"

(* conn.sem is a channel of capacity 1: sem <- true waits until it is      *)
(* empty, <-sem empties it.                                                *)
AcquireNoWait(c) == sem' = [sem EXCEPT ![c] = "held"]
Acquire(c) == sem[c] = "free" /\ sem' = [sem EXCEPT ![c] = "held"]
ReleaseSkipped(c) == UNCHANGED sem
Release(c) == sem' = [sem EXCEPT ![c] = "free"]

-----------------------------------------------------------------------------
(* Listen and Accept *)

(* Listen stores the new listener with no lock in a map that other Listens *)
(* write and listenForPackets reads: the store has a beginning and an end. *)
ListenDeletesFirst(l, a) ==
  /\ Up /\ lisAddr[l] = NoAddr
  /\ lisAddr' = [lisAddr EXCEPT ![l] = a]
  /\ writing' = writing \cup {l}
  /\ listeners' = [listeners EXCEPT ![ListenerKey(a)] = NoListener]
  /\ UNCHANGED <<status, backlog, connVars, sem, readChan, loopVars, rcvd,
                 appVars>>
ListenBegin(l, a) ==
  /\ Up /\ lisAddr[l] = NoAddr
  /\ lisAddr' = [lisAddr EXCEPT ![l] = a]
  /\ writing' = writing \cup {l}
  /\ UNCHANGED <<status, listeners, backlog, connVars, sem, readChan,
                 loopVars, rcvd, appVars>>

ListenEnd(l) ==
  /\ Up /\ l \in writing
  /\ listeners' = [listeners EXCEPT ![ListenerKey(lisAddr[l])] = l]
  /\ writing' = writing \ {l}
  /\ UNCHANGED <<status, lisAddr, backlog, connVars, sem, readChan, loopVars,
                 rcvd, appVars>>

(* Two stores at once: the Go runtime may detect it and abort.  When it    *)
(* does not, they take effect one after the other.                         *)
ListenRace ==
  /\ Up /\ \E l, m \in writing : l # m
  /\ status' = "mapRace"
  /\ UNCHANGED <<lisVars, backlog, connVars, sem, readChan, loopVars, rcvd,
                 appVars>>

Accept(l) ==
  /\ Up /\ backlog[l] # <<>>
  /\ accepted' = accepted \cup {Head(backlog[l])}
  /\ backlog' = [backlog EXCEPT ![l] = Tail(@)]
  /\ UNCHANGED <<status, lisVars, connVars, sem, readChan, loopVars, rcvd, rd,
                 taken>>

-----------------------------------------------------------------------------
(* listenForPackets: one segment *)

(* sendSynAck and sendAck: the connection after the call and the segment   *)
(* put on the wire.  A checksum that does not verify or a failed write     *)
(* ends the process (log.Fatal).                                           *)
Send(c, k, syn, seq) ==
  /\ conn' = [conn EXCEPT ![c] =
                [k EXCEPT !.sendNextSeq = Plus(seq, 1), !.unacked = seq]]
  /\ \/ /\ wire' = wire \cup {[conn |-> c, syn |-> syn, seq |-> seq,
                               ack |-> k.recvNextSeq, win |-> k.recvWindow]}
        /\ UNCHANGED status
     \/ /\ status' = "sendFailed"
        /\ UNCHANGED wire

sendSynAck(c, k) == \E isn \in ISN : Send(c, k, TRUE, isn)
sendAck(c, k)    == Send(c, k, FALSE, k.sendNextSeq)

StateKept(k) == k
Establish(k) == [k EXCEPT !.state = "ESTABLISHED"]

Received(k, next, win) ==
  [k EXCEPT !.recvNextSeq = next, !.recvWindow = win]

(* Case STATE_SYN_RECEIVED of the switch, for connection c with fields k.  *)
Handshake(c, k, seg, l) ==
  LET k1 == Received(k, Plus(seg.seq, 1), seg.win)
  IN \/ /\ seg.ack
        /\ conn' = [conn EXCEPT ![c] = Establish(k1)]
        /\ sem' = [sem EXCEPT ![c] = "free"]
        /\ readChan' = [readChan EXCEPT ![c] = <<>>]
        /\ loop' = "offer" /\ cur' = c /\ tl' = l
        /\ UNCHANGED <<status, wire, todo>>
     \/ /\ ~seg.ack
        /\ sendSynAck(c, k1)
        /\ UNCHANGED <<sem, readChan, loopVars>>

NewConn(seg, l) ==
  [state |-> "SYN_RECEIVED", dst |-> seg.dst, local |-> lisAddr[l],
   remote |-> seg.src, recvNextSeq |-> 0, recvWindow |-> 0,
   sendNextSeq |-> 0, unacked |-> 0]

Receive == Up /\ loop = "recv" /\ rcvd < MaxSegs /\ rcvd' = rcvd + 1

(* A segment is looked up while Listen writes the map: the runtime may     *)
(* abort here too.  When it does not, the read returns the old value.      *)
RecvDuringListen(seg) ==
  /\ Receive /\ writing # {}
  /\ status' = "mapRace"
  /\ UNCHANGED <<lisVars, backlog, connVars, sem, readChan, loopVars, appVars>>

RecvSyn(seg, c) ==
  LET l == ListenerOf(seg)
      k == NewConn(seg, l)
  IN /\ Receive /\ ConnOf(seg) = NoConn
     /\ seg.syn /\ l # NoListener /\ conn[c] = NotAllocated
     /\ connections' = [connections EXCEPT ![Ident(k)] = c]
     /\ Handshake(c, k, seg, l)
     /\ UNCHANGED <<lisVars, backlog, appVars>>

RecvSynNoListener(seg) ==
  /\ Receive /\ ConnOf(seg) = NoConn
  /\ seg.syn /\ ListenerOf(seg) = NoListener
  /\ UNCHANGED <<status, lisVars, backlog, connVars, sem, readChan, loopVars,
                 appVars>>

(* No connection and not a SYN: the switch reads tcpConn.state of nil.     *)
RecvUnknown(seg) ==
  /\ Receive /\ ConnOf(seg) = NoConn /\ ~seg.syn
  /\ status' = "nilConn"
  /\ UNCHANGED <<lisVars, backlog, connVars, sem, readChan, loopVars, appVars>>

RecvHandshake(seg) ==
  LET c == ConnOf(seg)
  IN /\ Receive /\ c # NoConn /\ conn[c].state = "SYN_RECEIVED"
     /\ Handshake(c, conn[c], seg, ListenerOf(seg))
     /\ UNCHANGED <<lisVars, backlog, connections, appVars>>

(* Case STATE_ESTABLISHED up to the send on tcpConn.sem.                   *)
RecvData(seg) ==
  LET c == ConnOf(seg)
      k == Received(conn[c], Plus(seg.seq, seg.len), seg.win)
  IN /\ Receive /\ c # NoConn /\ conn[c].state = "ESTABLISHED"
     /\ sendAck(c, k)
     /\ loop' = "lock" /\ cur' = c /\ todo' = seg.data
     /\ UNCHANGED <<lisVars, backlog, connections, sem, readChan, tl, appVars>>

(* connChannel takes another connection without waiting. *)
OneTooFew(l) == Len(backlog[l]) + 1 < Backlog
HasRoom(l) == Len(backlog[l]) < Backlog

(* tl.connChannel <- tcpConn *)
LoopOffer ==
  /\ Up /\ loop = "offer" /\ HasRoom(tl)
  /\ backlog' = [backlog EXCEPT ![tl] = Append(@, cur)]
  /\ loop' = "recv" /\ cur' = NoConn /\ tl' = NoListener
  /\ UNCHANGED <<status, lisVars, connVars, sem, readChan, todo, rcvd, appVars>>

(* tcpConn.sem <- true *)
LoopLock ==
  /\ Up /\ loop = "lock"
  /\ Acquire(cur)
  /\ loop' = "copy"
  /\ UNCHANGED <<status, lisVars, backlog, connVars, readChan, cur, tl, todo,
                 rcvd, appVars>>

(* tcpConn.readChan.In() <- val *)
LoopCopy ==
  /\ Up /\ loop = "copy" /\ todo # <<>> /\ Len(readChan[cur]) < ChanCap
  /\ readChan' = [readChan EXCEPT ![cur] = Append(@, Head(todo))]
  /\ todo' = Tail(todo)
  /\ UNCHANGED <<status, lisVars, backlog, connVars, sem, loop, cur, tl, rcvd,
                 appVars>>

(* <-tcpConn.sem *)
LoopUnlock ==
  /\ Up /\ loop = "copy" /\ todo = <<>>
  /\ Release(cur)
  /\ loop' = "recv" /\ cur' = NoConn
  /\ UNCHANGED <<status, lisVars, backlog, connVars, readChan, tl, todo, rcvd,
                 appVars>>

-----------------------------------------------------------------------------
(* TCPConn.Read *)

(* amountToRead is computed before the semaphore is taken.                 *)
ReadBegin(r, c, b) ==
  /\ Up /\ rd[r].at = "out" /\ c \in accepted
  /\ rd' = [rd EXCEPT ![r] = [at |-> "lock", conn |-> c, room |-> b.len,
                              want |-> MinOf(b.cap, Len(readChan[c])),
                              got |-> <<>>]]
  /\ UNCHANGED <<status, lisVars, backlog, connVars, sem, readChan, loopVars,
                 rcvd, accepted, taken>>

ReadLock(r) ==
  /\ Up /\ rd[r].at = "lock"
  /\ Acquire(rd[r].conn)
  /\ rd' = [rd EXCEPT ![r].at = "copy"]
  /\ UNCHANGED <<status, lisVars, backlog, connVars, readChan, loopVars, rcvd,
                 accepted, taken>>

(* buf[i] = <-readChan.Out(): the byte is received first; an index past    *)
(* the length of buf (cap(buf), not len(buf), bounds i) then panics.       *)
ReadByte(r) ==
  LET c == rd[r].conn
  IN /\ Up /\ rd[r].at = "copy"
     /\ Len(rd[r].got) < rd[r].want /\ readChan[c] # <<>>
     /\ readChan' = [readChan EXCEPT ![c] = Tail(@)]
     /\ rd' = [rd EXCEPT ![r].got = Append(@, Head(readChan[c]))]
     /\ status' = IF Len(rd[r].got) < rd[r].room THEN "up" ELSE "shortBuffer"
     /\ UNCHANGED <<lisVars, backlog, connVars, sem, loopVars, rcvd, accepted,
                    taken>>

ReadReturn(r) ==
  LET c == rd[r].conn
  IN /\ Up /\ rd[r].at = "copy" /\ Len(rd[r].got) = rd[r].want
     /\ Release(c)
     /\ taken' = [taken EXCEPT ![c] = @ \o rd[r].got]
     /\ rd' = [rd EXCEPT ![r] = Outside]
     /\ UNCHANGED <<status, lisVars, backlog, connVars, readChan, loopVars,
                    rcvd, accepted>>

-----------------------------------------------------------------------------
LoopStep == LoopOffer \/ LoopLock \/ LoopCopy \/ LoopUnlock
ReadStep(r) == ReadLock(r) \/ ReadByte(r) \/ ReadReturn(r)

Next ==
  \/ \E l \in Listener, a \in Local : ListenBegin(l, a)
  \/ \E l \in Listener : ListenEnd(l)
  \/ ListenRace
  \/ \E l \in Listener : Accept(l)
  \/ \E seg \in Segment :
       \/ RecvDuringListen(seg)
       \/ \E c \in Conn : RecvSyn(seg, c)
       \/ RecvSynNoListener(seg)
       \/ RecvUnknown(seg)
       \/ RecvHandshake(seg)
       \/ RecvData(seg)
  \/ LoopStep
  \/ \E r \in Reader :
       \/ \E c \in Conn, b \in Buffer : ReadBegin(r, c, b)
       \/ ReadStep(r)

Spec == Init /\ [][Next]_vars

(* The Go scheduler runs every goroutine that can run, and a channel       *)
(* serves its waiting senders in order: a goroutine waiting for sem gets   *)
(* it if it is freed again and again.  Nothing makes the application call  *)
(* Accept or Read, or the network deliver a segment.                       *)
Fairness ==
  /\ \A l \in Listener : WF_vars(ListenEnd(l))
  /\ WF_vars(LoopStep) /\ SF_vars(LoopLock)
  /\ \A r \in Reader : WF_vars(ReadStep(r)) /\ SF_vars(ReadLock(r))

FairSpec == Spec /\ Fairness

-----------------------------------------------------------------------------
(* Properties *)

Copying(r, c)  == rd[r].at = "copy" /\ rd[r].conn = c
LoopCopying(c) == loop = "copy" /\ cur = c
InBacklog(c)   == \E l \in Listener : \E i \in DOMAIN backlog[l] :
                    backlog[l][i] = c
Offering(c)    == loop = "offer" /\ cur = c
Allocated(c)   == conn[c] # NotAllocated

(* The run loop is stopped for good: it holds sem of a connection whose    *)
(* readChan is full, and only a Read, which needs sem, could drain it.     *)
FullWedge == loop = "copy" /\ todo # <<>> /\ Len(readChan[cur]) = ChanCap
(* A Read holds sem and waits for bytes that another Read has taken.       *)
StrandedRead == \E r \in Reader : /\ rd[r].at = "copy"
                                  /\ Len(rd[r].got) < rd[r].want
                                  /\ readChan[rd[r].conn] = <<>>
BacklogFull == loop = "offer" /\ Len(backlog[tl]) = Backlog

(* conn.sem is a lock: at most one of the receive loop and the Reads is    *)
(* between its send and its receive on it, and it holds a token exactly    *)
(* when one of them is (tcpconn.go:127-133, 367-373).                      *)
SemExclusive ==
  \A c \in Conn :
    /\ \A r, s \in Reader : Copying(r, c) /\ Copying(s, c) => r = s
    /\ \A r \in Reader : ~(Copying(r, c) /\ LoopCopying(c))
    /\ sem[c] = "held" <=> LoopCopying(c) \/ \E r \in Reader : Copying(r, c)

(* With one reading goroutine, the amount Read computed before it took sem *)
(* (tcpconn.go:125) is still there when it receives the bytes: it never    *)
(* blocks inside the loop at line 129.                                     *)
SoleReadIsServed ==
  (\A r, s \in Reader : r = s) =>
    \A r \in Reader : rd[r].at # "out" =>
      rd[r].want - Len(rd[r].got) <= Len(readChan[rd[r].conn])

(* A connection that reaches ESTABLISHED is handed to exactly one Accept:  *)
(* it is being offered, or in one place of one backlog, or was accepted,   *)
(* and never two of these (tcpconn.go:345-348, 151).                       *)
EstablishedOnce ==
  /\ \A l, m \in Listener :
       \A i \in DOMAIN backlog[l], j \in DOMAIN backlog[m] :
         backlog[l][i] = backlog[m][j] => l = m /\ i = j
  /\ \A c \in Conn :
       /\ conn[c].state = "ESTABLISHED" <=>
            Offering(c) \/ InBacklog(c) \/ c \in accepted
       /\ ~(Offering(c) /\ InBacklog(c))
       /\ c \in accepted => ~Offering(c) /\ ~InBacklog(c)

(* Accept on a listener returns connections whose opening segment was      *)
(* addressed to that listener's IP and port (tcpconn.go:145), although tl  *)
(* is looked up again for the segment that ends the handshake, when the    *)
(* listener of the SYN may have been replaced (lines 164, 300, 348).  Only *)
(* the 2049 ports that string(port) prints as U+FFFD are ever taken for    *)
(* one another, and only on one IP address.                                *)
PrintsAlike == Surrogate \cup {ReplacementChar}
OnlySurrogatesMix ==
  \A l \in Listener : \A i \in DOMAIN backlog[l] :
    LET a == conn[backlog[l][i]].dst
        b == lisAddr[l]
    IN a = b \/ (a.ip = b.ip /\ {a.port, b.port} \subseteq PrintsAlike)

(* tl.connChannel at tcpconn.go:348 is never a field of a nil listener,    *)
(* although tl was looked up again for the segment that ends the handshake.*)
OfferHasListener == loop = "offer" => tl # NoListener

(* The key under which listenForPackets looks a connection's segments up   *)
(* finds that connection, and no second one was made for the same          *)
(* endpoints by a repeated SYN (tcpconn.go:301-306, 329).                  *)
SegmentsFindConn ==
  \A c \in Conn : Allocated(c) =>
    connections[ConnKey(LookupFormat, conn[c].local, conn[c].remote)] = c

(* A connection is ESTABLISHED only after this side answered its SYN with  *)
(* a SYN/ACK (tcpconn.go:148-149).                                         *)
HandshakeBeforeAccept ==
  \A c \in Conn : conn[c].state = "ESTABLISHED" =>
    \E m \in wire : m.conn = c /\ m.syn

(* Once readChan is full in the middle of a segment, nothing ever drains   *)
(* it: the whole stack stops (tcpconn.go:367-371 against 127-131).         *)
FullBufferIsForever == [][FullWedge => FullWedge']_vars

(* The receive loop comes back to its channel unless the process ends, the *)
(* backlog is full, a buffer is full or a Read is stranded holding sem:    *)
(* there is no fifth way for it to stop (tcpconn.go:348, 367-373).         *)
LoopReturns ==
  loop # "recv" ~>
    (loop = "recv" \/ ~Up \/ BacklogFull \/ FullWedge \/ StrandedRead)

(* A Read that was called returns unless the process ends, the loop is     *)
(* stopped on a full buffer or a Read is stranded holding sem.             *)
ReadReturns ==
  \A r \in Reader :
    rd[r].at # "out" ~> (rd[r].at = "out" \/ ~Up \/ FullWedge \/ StrandedRead)

(* Reads are atomic: what the goroutines do byte by byte under sem is a    *)
(* stream from which each Read takes one contiguous batch.                 *)
HeldBytes(c) ==
  IF \E r \in Reader : Copying(r, c)
  THEN rd[CHOOSE r \in Reader : Copying(r, c)].got
  ELSE <<>>
RS == INSTANCE ReadStream WITH
        queue <- [c \in Conn |-> HeldBytes(c) \o readChan[c]]
AtomicReads == RS!Spec
=============================================================================
