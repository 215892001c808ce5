----------------------------- MODULE TCPOptions -----------------------------
(***************************************************************************)
(* tcpParseOpt: the options of a SYN, read byte by byte.  listenForPackets *)
(* calls it for the first segment of a connection (tcpconn.go:314-317), in *)
(* the goroutine that serves all connections.                              *)
(*                                                                         *)
(* Indices count from 0, as in the source: Byte(i) is opt[i].              *)
(***************************************************************************)
EXTENDS Integers, Sequences

CONSTANT Segment
  \* Segments with SYN set, which is all that tcpParseOpt is called for:
  \* opt, the bytes of Buffer after the fixed TCP header (options, payload,
  \* padding of the frame); off, the data offset in words; and, for the
  \* properties, wrote, the options in the order the peer wrote them, and
  \* at, where in opt each of them is and where they end.

TCPOPT_EOL == 0
TCPOPT_NOP == 1
TCPOPT_MSS == 2
TCPOPT_WINDOW == 3
TCPOPT_SACK_PERM == 4
TCPOPT_SACK == 5
TCPOPT_TIMESTAMP == 8
TCPOLEN_MSS == 4
TCPOLEN_WINDOW == 3
TCPOLEN_SACK_PERM == 2
TCPOLEN_TIMESTAMP == 10
TCPOLEN_SACK_BASE == 2
TCPOLEN_SACK_PERBLOCK == 8

U8 == 256
U16 == 65536
Area(s) == (4 * s.off - 20) % U16

ASSUME SegmentAssumption ==
  \A s \in Segment : s.opt \in Seq(0..(U8 - 1)) /\ s.off \in 0..15

(* The header is as long as the fixed one, and the frame as long as it.    *)
(* Nothing in the code looks: for an offset below 5 the length of the area *)
(* wraps around, and it may be longer than what was captured.              *)
Fits(s) == s.off >= 5 /\ Area(s) <= Len(s.opt)

(* opt begins with what the peer wrote: options of one byte (NOP) and of   *)
(* more, which have their length in the second.  Behind them the area ends *)
(* or has the end of options, or what no option can begin with.  All bytes *)
(* that an area can have are of this form.                                 *)
IsOption(o) == \/ o = <<TCPOPT_NOP>>
               \/ Len(o) >= 2 /\ o[2] = Len(o) /\ o[1] \notin {TCPOPT_EOL, TCPOPT_NOP}
IsEnd(s, e) ==
  \/ e = Area(s) \/ s.opt[e + 1] = TCPOPT_EOL
  \/ /\ s.opt[e + 1] # TCPOPT_NOP
     /\ e + 1 = Area(s) \/ s.opt[e + 2] \notin 2..(Area(s) - e)
ASSUME WroteAssumption ==
  \A s \in Segment : Fits(s) =>
    LET n == Len(s.wrote)
    IN /\ s.wrote \in Seq(Seq(0..(U8 - 1))) /\ s.at \in [1..(n + 1) -> 0..Area(s)]
       /\ s.at[1] = 0 /\ IsEnd(s, s.at[n + 1])
       /\ \A i \in 1..n :
            /\ IsOption(s.wrote[i]) /\ s.at[i + 1] = s.at[i] + Len(s.wrote[i])
            /\ \A j \in 1..Len(s.wrote[i]) : s.opt[s.at[i] + j] = s.wrote[i][j]

VARIABLES
  seg,      \* skbuf
  pc,       \* "loop", "done" or "panic"
  index, length,
  opt_rx,   \* the TCPOptionsReceived
  sacked,   \* TCP_SKB_CB(skbuf).sacked
  furthest  \* history: the largest index of opt that was read, or -1

vars == <<seg, pc, index, length, opt_rx, sacked, furthest>>

-----------------------------------------------------------------------------
(* util: the bytes as a little-endian number, swapped *)

Byte2uint16(lo, hi) == hi * U8 + lo
NotSwapped(a) == a
Ntohs(a) == (a % U8) * U8 + a \div U8

Byte(i) == seg.opt[i + 1]
InBuffer(i) == i < Len(seg.opt)

(* A slice may reach beyond the buffer, into its capacity: the pool's      *)
(* chunks of 1500 bytes are longer than any capture, and never used twice. *)
Slice(i) == IF InBuffer(i) THEN Byte(i) ELSE 0
Uint16At(i) == Ntohs(Byte2uint16(Slice(i), Slice(i + 1)))

(* What listenForPackets passes: cleared options, the default mss, no mss  *)
(* of the user.  dsack and num_sacks, which are only ever reset, are not   *)
(* here, nor are the time stamps, which tstamp_ok keeps from being read.   *)
Cleared ==
  [mss_clamp |-> 536, user_mss |-> 0, wscale_ok |-> FALSE, snd_wscale |-> 0,
   sack_ok |-> 0, tstamp_ok |-> FALSE, saw_tstamp |-> 0]

Init ==
  /\ seg \in Segment
  /\ pc = "loop" /\ index = 0 /\ length = Area(seg)
  /\ opt_rx = Cleared /\ sacked = 0
  /\ furthest = -1

-----------------------------------------------------------------------------
(* One round of the loop.  In a round, opcode and opsize are two bytes.    *)

opcode == Byte(index)
opsize == Byte(index + 1)
Round == pc = "loop" /\ length > 0

(* the last of the bytes that are read before the option is looked at      *)
LengthByte ==
  IF InBuffer(index) /\ opcode \in {TCPOPT_EOL, TCPOPT_NOP}
  THEN index ELSE index + 1
HasOption == Round /\ InBuffer(LengthByte) /\ LengthByte = index + 1

SillyAllowed == FALSE
Silly == opsize < 2
PartialAllowed == opsize > length + 1
Partial == opsize > length

(* The values are at index + 2 on; each option that is not the one an      *)
(* operator is for, or is not of its length, leaves r as it is.            *)
Clamp(r, mss) == IF r.user_mss > 0 /\ r.user_mss < mss THEN r.user_mss ELSE mss
Mss(r) ==
  IF opcode = TCPOPT_MSS /\ opsize = TCPOLEN_MSS /\ Uint16At(index + 2) > 0
  THEN [r EXCEPT !.mss_clamp = Clamp(r, Uint16At(index + 2))]
  ELSE r

AnyScale(w) == w
LegalScale(w) == IF w > 14 THEN 14 ELSE w
Window(r) ==
  IF opcode = TCPOPT_WINDOW /\ opsize = TCPOLEN_WINDOW
  THEN [r EXCEPT !.wscale_ok = TRUE, !.snd_wscale = LegalScale(Byte(index + 2))]
  ELSE r

Timestamp(r) ==
  IF opcode = TCPOPT_TIMESTAMP /\ opsize = TCPOLEN_TIMESTAMP /\ r.tstamp_ok
  THEN [r EXCEPT !.saw_tstamp = 1]
  ELSE r

SackPerm(r) ==
  IF opcode = TCPOPT_SACK_PERM /\ opsize = TCPOLEN_SACK_PERM
  THEN [r EXCEPT !.sack_ok = 1]
  ELSE r

HasBlocks ==
  /\ opcode = TCPOPT_SACK
  /\ opsize >= TCPOLEN_SACK_BASE + TCPOLEN_SACK_PERBLOCK
  /\ (opsize - TCPOLEN_SACK_BASE) % TCPOLEN_SACK_PERBLOCK = 0
  /\ opt_rx.sack_ok > 0
(* in a uint8                                                              *)
SackedAt == (20 + (index % U8)) % U8

ReadsValue ==
  \/ opcode = TCPOPT_MSS /\ opsize = TCPOLEN_MSS
  \/ opcode = TCPOPT_WINDOW /\ opsize = TCPOLEN_WINDOW

(* the index of line 242, which is not a slice                             *)
ScaleMissing ==
  opcode = TCPOPT_WINDOW /\ opsize = TCPOLEN_WINDOW /\ ~InBuffer(index + 2)

-----------------------------------------------------------------------------
LoopEnd ==
  /\ pc = "loop" /\ length <= 0
  /\ pc' = "done"
  /\ UNCHANGED <<seg, index, length, opt_rx, sacked, furthest>>

(* opt[index] past the end of the buffer                                   *)
IndexOutOfRange ==
  /\ Round
  /\ \/ ~InBuffer(LengthByte)
     \/ HasOption /\ ~Silly /\ ~Partial /\ ScaleMissing
  /\ pc' = "panic"
  /\ UNCHANGED <<seg, index, length, opt_rx, sacked, furthest>>

EndOfOptions ==
  /\ Round /\ InBuffer(index) /\ opcode = TCPOPT_EOL
  /\ pc' = "done" /\ furthest' = index
  /\ UNCHANGED <<seg, index, length, opt_rx, sacked>>

Nop ==
  /\ Round /\ InBuffer(index) /\ opcode = TCPOPT_NOP
  /\ index' = index + 1 /\ length' = length - 1
  /\ furthest' = index
  /\ UNCHANGED <<seg, pc, opt_rx, sacked>>

(* "silly options", "don't parse partial options"                          *)
GiveUp ==
  /\ HasOption /\ (Silly \/ Partial)
  /\ pc' = "done" /\ furthest' = index + 1
  /\ UNCHANGED <<seg, index, length, opt_rx, sacked>>

Option ==
  /\ HasOption /\ ~Silly /\ ~Partial /\ ~ScaleMissing
  /\ opt_rx' = SackPerm(Timestamp(Window(Mss(opt_rx))))
  /\ sacked' = IF HasBlocks THEN SackedAt ELSE sacked
  /\ index' = index + opsize /\ length' = length - opsize
  /\ furthest' = IF ReadsValue THEN index + opsize - 1 ELSE index + 1
  /\ UNCHANGED <<seg, pc>>

Next == \/ LoopEnd \/ IndexOutOfRange \/ EndOfOptions \/ Nop \/ GiveUp \/ Option

(* A function that runs goes on running.                                   *)
Spec == Init /\ [][Next]_vars
FairSpec == Spec /\ WF_vars(Next)

-----------------------------------------------------------------------------
(* Properties *)

TypeOK ==
  /\ pc \in {"loop", "done", "panic"}
  /\ index \in Nat /\ length \in Nat /\ furthest \in Nat \cup {-1}
  /\ opt_rx \in [mss_clamp : 1..(U16 - 1), user_mss : {0},
                 wscale_ok : BOOLEAN, snd_wscale : 0..14, sack_ok : 0..1,
                 tstamp_ok : {FALSE}, saw_tstamp : {0}]
  /\ sacked \in 0..(U8 - 1)

(* The parser keeps to the area it computed: index and length never drift  *)
(* apart (tcpconn.go:210-219, 276-277), whatever the data offset is, and   *)
(* no byte behind it is taken for one of an option.  The one exception is  *)
(* an area that ends with a kind and no length: line 218 then reads the    *)
(* byte after the area and gives up, or runs out of the buffer if there is *)
(* none.  A header that fits its frame runs out of the buffer in no other  *)
(* way.                                                                    *)
StaysInArea ==
  LET area == Area(seg)
      NoLength == index = area - 1 /\ opcode \notin {TCPOPT_EOL, TCPOPT_NOP}
  IN /\ index + length = area
     /\ furthest < area \/ (pc = "done" /\ NoLength)
     /\ pc = "panic" /\ Fits(seg) => NoLength /\ Len(seg.opt) = area

(* What the peer wrote, read as RFC 793, 7323 and 2018 have it: of the     *)
(* options of a kind, with the length of their kind, the last one counts.  *)
Valid(o, kind, size) ==
  o[1] = kind /\ Len(o) = size /\ (kind = TCPOPT_MSS => <<o[3], o[4]>> # <<0, 0>>)
LastOf(kind, size) ==
  LET those == {i \in DOMAIN seg.wrote : Valid(seg.wrote[i], kind, size)}
  IN IF those = {} THEN <<>>
     ELSE seg.wrote[CHOOSE i \in those : \A j \in those : j <= i]

(* After the loop opt_rx is what the options of a header that fits its     *)
(* frame say, whatever order and padding they came in: each option is      *)
(* found where the one before it ends, 16-bit values are read in network   *)
(* order, scales are bounded, and sacked is the place of a SACK option in  *)
(* the TCP header (line 271).                                              *)
ReadsWhatWasWritten ==
  pc = "done" /\ Fits(seg) =>
    LET mss == LastOf(TCPOPT_MSS, TCPOLEN_MSS)
        scale == LastOf(TCPOPT_WINDOW, TCPOLEN_WINDOW)
    IN /\ opt_rx.mss_clamp = IF mss = <<>> THEN 536 ELSE mss[3] * U8 + mss[4]
       /\ opt_rx.wscale_ok = (scale # <<>>)
       /\ scale # <<>> => opt_rx.snd_wscale = (IF scale[3] < 14 THEN scale[3] ELSE 14)
       /\ opt_rx.sack_ok = 1 <=>
            LastOf(TCPOPT_SACK_PERM, TCPOLEN_SACK_PERM) # <<>>
       /\ sacked # 0 => Byte(sacked - 20) = TCPOPT_SACK

(* The call comes back: no options, however malformed, keep the goroutine  *)
(* that serves all connections in this loop (line 220 is what an option    *)
(* of length 0 meets).                                                     *)
ParseEnds == <>(pc # "loop")
=============================================================================
