------------------------------ MODULE Pipeline ------------------------------
(***************************************************************************)
(* The way in of a segment of an established connection: the device's      *)
(* capture, the goroutines ethernet.receive and ip.receive with their      *)
(* channels, and the established case of listenForPackets down to the      *)
(* readChan and its one reader.  The peer and the network are external: a  *)
(* peer that sends a stream and resends what is not acknowledged, with     *)
(* length fields that may disagree with its frames, and a network that may *)
(* lose frames.  The connection is taken to be established; how it gets    *)
(* there, when it cannot, and what several readers do is in TCPConn.       *)
(*                                                                         *)
(* The bytes of the stream are numbered from 0, and so are the sequence    *)
(* numbers; how they wrap is in TCPConn.                                   *)
(***************************************************************************)
EXTENDS Integers, Sequences

CONSTANTS
  SnapLen,    \* snapshot_len: 1024
  MinFrame,   \* Ethernet pads a shorter frame: 60
  QueueCap,   \* capacity of the two channels: 2048
  HdrWords,   \* values of the IP header length, in words
  OffWords,   \* values of the TCP data offset, in words
  Wrong,      \* by how much the IP length field exceeds the frame
  LenMod,     \* lengths and indices are uint16: 2^16
  ChanCap,    \* capacity of readChan: 10240
  Size,       \* numbers of bytes the peer puts in a segment
  StreamLen,  \* bytes the peer has to send
  MaxSends,   \* bound on the frames sent
  Lossy,      \* whether the network loses frames
  None        \* nil

LEN_ETHHDR == 14
Smaller(a, b) == IF a < b THEN a ELSE b
Larger(a, b) == IF a < b THEN b ELSE a

ASSUME HeaderAssumption == HdrWords \subseteq 5..15 /\ OffWords \subseteq 5..15
ASSUME StreamAssumption ==
  /\ Size \subseteq Nat /\ StreamLen \in Nat /\ MaxSends \in Nat
  /\ LenMod \in Nat \ {0} /\ Wrong \subseteq Int
ASSUME CaptureAssumption ==
  /\ SnapLen \in 0..(LenMod - 1) /\ MinFrame \in 0..SnapLen
  /\ \A h \in HdrWords, o \in OffWords : LEN_ETHHDR + 4 * h + 4 * o <= SnapLen
ASSUME ChannelAssumption == QueueCap \in Nat \ {0} /\ ChanCap \in Nat \ {0}
ASSUME LossyAssumption == Lossy \in BOOLEAN

VARIABLES
  next, una,   \* the peer: its next byte, its first one not acknowledged
  sends,       \* how many frames it has sent
  wire,        \* frames on their way, in order
  ethSkb,      \* the skbuf ethernet.receive is about to send, or None
  ethQueue,    \* skbChannel
  ipSkb,       \* the skbuf ip.receive is about to send, or None
  ipQueue,     \* outQueue
  cur,         \* the skbuf listenForPackets parsed last, or None
  loop,        \* where it is: "recv", "lock" (367), "copy" (369), "dead"
  todo,        \* how many bytes of cur it has not put in readChan
  fill,        \* how many bytes readChan holds
  recvNextSeq, \* of the connection
  acks,        \* acknowledgement numbers sent, which arrive in any order
  delivered,   \* history: bytes of the stream put in readChan
  gone         \* history: bytes lost, or counted in a length but not captured

peerVars == <<next, una, sends>>
loopVars == <<cur, loop, todo, fill>>
tcpVars  == <<loopVars, recvNextSeq, acks, delivered>>
vars == <<peerVars, wire, ethSkb, ethQueue, ipSkb, ipQueue, tcpVars, gone>>

-----------------------------------------------------------------------------
(* Frames: the fields of the headers that are read, and the lengths        *)

Frame == [seq : 0..StreamLen, len : Size, err : Wrong,
          ihl : HdrWords, off : OffWords]
Headers(f) == 4 * f.ihl + 4 * f.off
TotLength(f) == (Headers(f) + f.len + f.err) % LenMod
WireLen(f) == Larger(MinFrame, LEN_ETHHDR + Headers(f) + f.len)
Captured(f) == Smaller(WireLen(f), SnapLen)

(* The bytes of the stream that frame f carries, those that its length     *)
(* field counts, and of both those that the capture does not have.         *)
Span(f, n) == f.seq..(f.seq + n - 1)
Carried(f) == Span(f, f.len)
Claimed(f) == (f.len + f.err) % LenMod
Missing(f) ==
  (Carried(f) \cup Span(f, Claimed(f)))
    \ Span(f, Smaller(f.len, SnapLen - LEN_ETHHDR - Headers(f)))

(* An skbuf: blen is len(Buffer), the other fields have their names.       *)
SkBuff == [frame : Frame, blen : Nat, PayloadLen : 0..(LenMod - 1),
           NetworkIndex : Nat, TransportIndex : Nat, AppIndex : Nat]

ASSUME NoneAssumption == None \notin SkBuff

Init ==
  /\ next = 0 /\ una = 0 /\ sends = 0
  /\ wire = <<>>
  /\ ethSkb = None /\ ethQueue = <<>>
  /\ ipSkb = None /\ ipQueue = <<>>
  /\ cur = None /\ loop = "recv" /\ todo = 0 /\ fill = 0
  /\ recvNextSeq = 0
  /\ acks = {} /\ delivered = {} /\ gone = {}

-----------------------------------------------------------------------------
(* The peer and the network *)

Transmit(f) ==
  /\ sends < MaxSends
  /\ sends' = sends + 1
  /\ wire' = Append(wire, f)
  /\ UNCHANGED <<una, ethSkb, ethQueue, ipSkb, ipQueue, tcpVars, gone>>

PeerSend(f) ==
  /\ f.seq = next /\ next + f.len <= StreamLen
  /\ next' = next + f.len
  /\ Transmit(f)

PeerResend(f) ==
  /\ f.seq = una /\ una < next /\ una + f.len <= next
  /\ Transmit(f)
  /\ UNCHANGED next

PeerAcked(a) ==
  /\ una < a /\ a <= next
  /\ una' = a
  /\ UNCHANGED <<next, sends, wire, ethSkb, ethQueue, ipSkb, ipQueue, tcpVars,
                 gone>>

Lose ==
  /\ Lossy /\ wire # <<>>
  /\ gone' = gone \cup Carried(Head(wire))
  /\ wire' = Tail(wire)
  /\ UNCHANGED <<peerVars, ethSkb, ethQueue, ipSkb, ipQueue, tcpVars>>

-----------------------------------------------------------------------------
(* ethernet.receive *)

(* log.Fatal in one goroutine ends all of them. *)
Up == loop # "dead"

EthReceive ==
  /\ Up /\ wire # <<>> /\ ethSkb = None
  /\ ethSkb' = [frame |-> Head(wire), blen |-> Captured(Head(wire)),
                PayloadLen |-> 0, NetworkIndex |-> LEN_ETHHDR,
                TransportIndex |-> 0, AppIndex |-> 0]
  /\ gone' = gone \cup Missing(Head(wire))
  /\ wire' = Tail(wire)
  /\ UNCHANGED <<peerVars, ethQueue, ipSkb, ipQueue, tcpVars>>

(* c <- skbuf *)
EthSendOrDrop ==
  /\ Up /\ ethSkb # None
  /\ ethQueue' = IF Len(ethQueue) < QueueCap THEN Append(ethQueue, ethSkb)
                                            ELSE ethQueue
  /\ ethSkb' = None
  /\ UNCHANGED <<peerVars, wire, ipSkb, ipQueue, tcpVars, gone>>

EthSend ==
  /\ Up /\ ethSkb # None /\ Len(ethQueue) < QueueCap
  /\ ethQueue' = Append(ethQueue, ethSkb)
  /\ ethSkb' = None
  /\ UNCHANGED <<peerVars, wire, ipSkb, ipQueue, tcpVars, gone>>

(* ip.receive: uint16 arithmetic on two header fields *)
NoWrap(s) == TotLength(s.frame) - 4 * s.frame.ihl
HdrCounted(s) == TotLength(s.frame)
PayloadOf(s) == (TotLength(s.frame) - 4 * s.frame.ihl) % LenMod

IPReceive ==
  /\ Up /\ ethQueue # <<>> /\ ipSkb = None
  /\ LET s == Head(ethQueue)
     IN ipSkb' = [s EXCEPT !.PayloadLen = PayloadOf(s),
                           !.TransportIndex =
                             (4 * s.frame.ihl + s.NetworkIndex) % LenMod]
  /\ ethQueue' = Tail(ethQueue)
  /\ UNCHANGED <<peerVars, wire, ethSkb, ipQueue, tcpVars, gone>>

(* out <- skbuf *)
IPSendOutLater ==
  /\ Up /\ ipSkb # None /\ Len(ipQueue) < QueueCap - 1
  /\ ipQueue' = Append(ipQueue, ipSkb)
  /\ ipSkb' = None
  /\ UNCHANGED <<peerVars, wire, ethSkb, ethQueue, tcpVars, gone>>

IPSendOut ==
  /\ Up /\ ipSkb # None /\ Len(ipQueue) < QueueCap
  /\ ipQueue' = Append(ipQueue, ipSkb)
  /\ ipSkb' = None
  /\ UNCHANGED <<peerVars, wire, ethSkb, ethQueue, tcpVars, gone>>

-----------------------------------------------------------------------------
(* listenForPackets: Parse, and case STATE_ESTABLISHED *)

Parse(s) ==
  [s EXCEPT !.PayloadLen = (@ - 4 * s.frame.off) % LenMod,
            !.AppIndex = (s.TransportIndex + 4 * s.frame.off) % LenMod]

AckFor(s) == s.frame.seq + s.PayloadLen

(* The length of skbuf.Buffer[skbuf.AppIndex:], which readChan is given:    *)
(* bytes of the segment, then the padding of the frame.                    *)
InBuffer(s) == s.blen - s.AppIndex

(* The bytes of the stream among those from index i to j - 1 of it.        *)
OfStream(s, i, j) == (s.frame.seq + i)..(s.frame.seq + Smaller(j, s.frame.len) - 1)

(* Line 294, and lines 356 to 365: the acknowledgement is sent before the  *)
(* bytes go anywhere, or sendAck fails and log.Fatal ends the process.     *)
TCPAck ==
  /\ loop = "recv" /\ ipQueue # <<>>
  /\ LET s == Parse(Head(ipQueue))
     IN /\ cur' = s
        /\ recvNextSeq' = AckFor(s)
        /\ \/ loop' = "dead" /\ UNCHANGED <<acks, todo>>
           \/ /\ loop' = "lock" /\ todo' = InBuffer(s)
              /\ acks' = acks \cup {AckFor(s)}
  /\ ipQueue' = Tail(ipQueue)
  /\ UNCHANGED <<peerVars, wire, ethSkb, ethQueue, ipSkb, fill, delivered, gone>>

LoopLock ==
  /\ loop = "lock" /\ loop' = "copy"
  /\ UNCHANGED <<peerVars, wire, ethSkb, ethQueue, ipSkb, ipQueue, cur, todo,
                 fill, recvNextSeq, acks, delivered, gone>>

(* As many bytes as readChan takes without waiting.  No Read comes between *)
(* them: it would need sem.                                                *)
LoopCopy ==
  /\ loop = "copy" /\ todo > 0 /\ fill < ChanCap
  /\ LET n == Smaller(todo, ChanCap - fill)
         i == InBuffer(cur) - todo
     IN /\ todo' = todo - n /\ fill' = fill + n
        /\ delivered' = delivered \cup OfStream(cur, i, i + n)
  /\ UNCHANGED <<peerVars, wire, ethSkb, ethQueue, ipSkb, ipQueue, cur, loop,
                 recvNextSeq, acks, gone>>

LoopUnlock ==
  /\ loop = "copy" /\ todo = 0 /\ loop' = "recv"
  /\ UNCHANGED <<peerVars, wire, ethSkb, ethQueue, ipSkb, ipQueue, cur, todo,
                 fill, recvNextSeq, acks, delivered, gone>>

(* Read by a goroutine that has no rival: n bytes that are there leave     *)
(* readChan while it holds sem.                                            *)
Read(n) ==
  /\ loop \in {"recv", "lock"} /\ n <= fill
  /\ fill' = fill - n
  /\ UNCHANGED <<peerVars, wire, ethSkb, ethQueue, ipSkb, ipQueue, cur, loop,
                 todo, recvNextSeq, acks, delivered, gone>>

-----------------------------------------------------------------------------
Next ==
  \/ \E f \in Frame : PeerSend(f) \/ PeerResend(f)
  \/ \E a \in acks : PeerAcked(a)
  \/ Lose
  \/ EthReceive \/ EthSend
  \/ IPReceive \/ IPSendOut
  \/ TCPAck \/ LoopLock \/ LoopCopy \/ LoopUnlock
  \/ \E n \in 1..ChanCap : Read(n)

Spec == Init /\ [][Next]_vars

(* Each goroutine of the stack goes on as long as it can: the Go scheduler *)
(* runs every runnable goroutine, and the device hands over what it has    *)
(* captured.  Nothing makes the application read, the peer send or the     *)
(* network lose.                                                           *)
FairSpec ==
  /\ Spec
  /\ WF_vars(EthReceive) /\ WF_vars(EthSend)
  /\ WF_vars(IPReceive) /\ WF_vars(IPSendOut)
  /\ WF_vars(TCPAck \/ LoopLock \/ LoopCopy \/ LoopUnlock)

-----------------------------------------------------------------------------
(* The variables have values of their types.                               *)
TypeOK ==
  /\ next \in 0..StreamLen /\ una \in 0..next /\ sends \in 0..MaxSends
  /\ wire \in Seq(Frame)
  /\ ethSkb \in SkBuff \cup {None} /\ ipSkb \in SkBuff \cup {None}
  /\ ethQueue \in Seq(SkBuff) /\ Len(ethQueue) <= QueueCap
  /\ ipQueue \in Seq(SkBuff) /\ Len(ipQueue) <= QueueCap
  /\ cur \in SkBuff \cup {None}
  /\ loop \in {"recv", "lock", "copy", "dead"}
  /\ todo \in Nat /\ fill \in 0..ChanCap
  /\ recvNextSeq \in Nat /\ acks \subseteq Nat
  /\ delivered \subseteq 0..(StreamLen - 1) /\ gone \subseteq Nat

(* The three layers together count right: after ip.receive and Parse have  *)
(* each taken their header off in uint16 arithmetic, PayloadLen is what    *)
(* the peer's length field says of the payload, also where one of the two  *)
(* differences wraps around, and AppIndex is inside the buffer.  The bytes *)
(* given to readChan are as many as the segment has, whatever PayloadLen   *)
(* is, unless the frame was padded (then more) or cut by the capture (then *)
(* fewer).                                                                 *)
ParsedExactly ==
  cur # None =>
    LET f == cur.frame
        onWire == LEN_ETHHDR + Headers(f) + f.len
    IN /\ cur.PayloadLen = Claimed(f)
       /\ cur.AppIndex <= cur.blen
       /\ InBuffer(cur) > f.len <=> onWire < MinFrame
       /\ InBuffer(cur) < f.len <=> onWire > SnapLen

(* What listenForPackets has acknowledged and not put in readChan yet.     *)
InHand ==
  IF cur = None THEN {}
  ELSE OfStream(cur, InBuffer(cur) - todo, InBuffer(cur))

(* The goroutines and their channels lose nothing of their own: a byte     *)
(* below an acknowledgement that has been sent is in readChan or past it,  *)
(* or in the hand of listenForPackets, which may wait for ever there, or   *)
(* was lost by the network, or counted by a length field and not captured. *)
(* It rests on the channels being first in, first out and blocking when    *)
(* full.                                                                   *)
AckedIsAccountedFor ==
  \A a \in acks : 0..(a - 1) \subseteq delivered \cup InHand \cup gone

(* What the device captures is parsed in the end, however small the        *)
(* channels, unless the process ends or the reader lets readChan fill up,  *)
(* which stops the loop for good (tcpconn.go:367-371).                     *)
Drained ==
  /\ wire = <<>> /\ ethSkb = None /\ ethQueue = <<>>
  /\ ipSkb = None /\ ipQueue = <<>> /\ loop = "recv"
Wedged == loop = "copy" /\ todo > 0 /\ fill = ChanCap
Drains == <>[]Drained \/ <>[]Wedged \/ <>[](loop = "dead")
=============================================================================
