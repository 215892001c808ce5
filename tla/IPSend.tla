------------------------------- MODULE IPSend -------------------------------
(***************************************************************************)
(* The way out of a segment: sendSynAck or sendAck (tcpconn.go) writes the *)
(* TCP header, IPConn.Send (ipconn.go) writes the IP header and the two    *)
(* checksums, verifies them with the same function, and EthConn.Send hands *)
(* the frame to the device.  A checksum that does not verify ends the      *)
(* process.                                                                *)
(*                                                                         *)
(* A header is its ten 16-bit words in network order.  The stack stores    *)
(* them byte-swapped on the hosts it runs on and swaps them back (Htons,   *)
(* Ntohs) where it computes, so the words are what is on the wire.         *)
(***************************************************************************)
EXTENDS Integers, Sequences

W == 65536            \* 2^16
Word == 0..(W - 1)

CONSTANTS
  Conn,    \* connections: [src, dst, sport, dport], an address is two words
  ISN,     \* values of initialSequenceNumber, two words
  Answer,  \* [ack, win]: recvNextSeq and recvWindow when a segment is sent
  Window,  \* windows
  MaxSends \* bound on the number of segments sent

Header == [1..10 -> Word]
Double == Word \X Word

ASSUME ConnAssumption ==
  Conn \subseteq [src : Double, dst : Double, sport : Word, dport : Word]
ASSUME SeqAssumption == ISN \subseteq Double
ASSUME AnswerAssumption == Answer \subseteq [ack : Double, win : Window]
ASSUME WindowAssumption == Window \subseteq Word
ASSUME BoundAssumption == MaxSends \in Nat

VARIABLES
  pc,       \* "idle", "fill", "verifyIP", "verifyTCP", "write", or "badIP",
            \* "badTCP", "writeFailed" when the process has ended
  conn,     \* the connection that sends
  next,     \* its sendNextSeq
  ip, tcp,  \* the two headers in skbuf.Buffer
  sends     \* how many segments were begun

vars == <<pc, conn, next, ip, tcp, sends>>

-----------------------------------------------------------------------------
(* util.Checksum on a slice of 20 or 40 bytes: the words are added up, the *)
(* carries are added in once, and the result is complemented.              *)
Sum(h) == h[1] + h[2] + h[3] + h[4] + h[5] + h[6] + h[7] + h[8] + h[9] + h[10]
Fold(sum) == (sum \div W) + (sum % W)
(* A fault: the carries are dropped.  It still verifies against itself.    *)
CarriesDropped(sum) == (W - 1) - (sum % W)
Checksum(sum) == (W - 1) - (Fold(sum) % W)
VerifyChecksum(sum) == Checksum(sum) = 0

(* Ntohl, + 1, Htonl: on 32 bits *)
NoWrap(d) == <<d[1], d[2] + 1>>
Plus1(d) == IF d[2] = W - 1 THEN <<(d[1] + 1) % W, 0>> ELSE <<d[1], d[2] + 1>>

(* NewIPConn's header as Send fills it in: version 4 and length 20, no TOS, *)
(* total length 20 + 20, no identification, don't fragment, TTL 64 and TCP. *)
IPHeader(c) == <<17664, 40, 0, 16384, 16390, 0,
                 c.src[1], c.src[2], c.dst[1], c.dst[2]>>

ACK == 20496     \* 0x5010: five words of header, ACK
SYNACK == 20498  \* 0x5012
TCPHeader(c, flags, seq, a) ==
  <<c.sport, c.dport, seq[1], seq[2], a.ack[1], a.ack[2], flags, a.win, 0, 0>>

-----------------------------------------------------------------------------
Blank == [i \in 1..10 |-> 0]

Init ==
  /\ pc = "idle"
  /\ conn \in Conn
  /\ next = <<0, 0>>
  /\ ip = Blank /\ tcp = Blank
  /\ sends = 0

(* pool.Alloc: the segment is written to memory that was never used.       *)
Build(flags, seq, a) ==
  /\ pc = "idle" /\ sends < MaxSends
  /\ sends' = sends + 1
  /\ tcp' = TCPHeader(conn, flags, seq, a)
  /\ next' = Plus1(seq)
  /\ ip' = Blank
  /\ pc' = "fill"
  /\ UNCHANGED conn

SendSynAck(isn, a) == Build(SYNACK, isn, a)
SendAck(a) == Build(ACK, next, a)

(* The TCP checksum is computed over both headers, after the IP checksum   *)
(* was stored.                                                             *)
Fill ==
  /\ pc = "fill"
  /\ LET h == IPHeader(conn)
         check == Checksum(Sum(h))
     IN /\ ip' = [h EXCEPT ![6] = check]
        /\ tcp' = [tcp EXCEPT ![9] = Checksum(Sum(h) + check + Sum(tcp))]
  /\ pc' = "verifyIP"
  /\ UNCHANGED <<conn, next, sends>>

VerifyIP ==
  /\ pc = "verifyIP"
  /\ pc' = IF VerifyChecksum(Sum(ip)) THEN "verifyTCP" ELSE "badIP"
  /\ UNCHANGED <<conn, next, ip, tcp, sends>>

VerifyTCP ==
  /\ pc = "verifyTCP"
  /\ pc' = IF VerifyChecksum(Sum(ip) + Sum(tcp)) THEN "write" ELSE "badTCP"
  /\ UNCHANGED <<conn, next, ip, tcp, sends>>

Write ==
  /\ pc = "write"
  /\ pc' \in {"idle", "writeFailed"}
  /\ UNCHANGED <<conn, next, ip, tcp, sends>>

Next ==
  \/ \E isn \in ISN, a \in Answer : SendSynAck(isn, a)
  \/ \E a \in Answer : SendAck(a)
  \/ Fill
  \/ VerifyIP
  \/ VerifyTCP
  \/ Write

Spec == Init /\ [][Next]_vars

-----------------------------------------------------------------------------
TypeOK ==
  /\ pc \in {"idle", "fill", "verifyIP", "verifyTCP", "write", "badIP",
             "badTCP", "writeFailed"}
  /\ conn \in Conn
  /\ next \in Double
  /\ ip \in Header /\ tcp \in Header
  /\ sends \in 0..MaxSends

(* What a receiver asks of the words it adds up: they are a multiple of    *)
(* 2^16 - 1.  For an IP header these are its ten words; for a segment      *)
(* (RFC 793, tcp.go:3) its words and those of a pseudo-header.             *)
Valid(sum) == sum % (W - 1) = 0

(* Adding the carries in made another carry. *)
SecondCarry(sum) == Fold(sum) >= W

Filled == pc \in {"verifyIP", "verifyTCP", "write", "badIP", "badTCP"}
IPSum == Sum(IPHeader(conn))
TCPSum == (IPSum + ip[6] + Sum(tcp)) - tcp[9]

(* Every frame handed to the device has an IP header that its receiver     *)
(* accepts: VerifyChecksum, which is all that ipconn.go:48 asks, folds     *)
(* once like Checksum itself, and lets nothing else pass.  Of a segment    *)
(* that cannot be said: its receiver adds a pseudo-header (RFC 793), for   *)
(* which ipconn.go:42 has the IP header.                                   *)
WrittenIPVerifies == pc = "write" => Valid(Sum(ip))

(* The process ends with log.Fatal at ipconn.go:50 or 55 exactly for the   *)
(* segments whose sum needs its carry added in a second time, which        *)
(* util.go:111 does not do: no other segment is lost, none of these sent.  *)
FatalIsSecondCarry ==
  /\ pc = "badIP" => SecondCarry(IPSum)
  /\ pc \in {"verifyTCP", "write", "badTCP"} => ~SecondCarry(IPSum)
  /\ pc = "badTCP" => SecondCarry(TCPSum)
  /\ pc = "write" => ~SecondCarry(TCPSum)

(* util.Checksum is a one's complement sum: a header with its result in    *)
(* place verifies (util.go:96, 110).                                       *)
ChecksumsAreOnesComplement ==
  Filled => Valid(Sum(ip)) /\ Valid(Sum(ip) + Sum(tcp))
=============================================================================
