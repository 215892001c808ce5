# A TLA+ model of gotcpip

gotcpip is a small TCP/IP stack in Go that runs in user space over libpcap. A
program calls `tcp.Start`, `tcp.Listen`, `Accept` and `Read`; goroutines of the
stack capture frames, find the connection each segment belongs to, answer it
and buffer its bytes. This directory holds TLA+ modules for the parts that keep
state, TLC runs over small instances of them, and proofs for every value of
their constants.

Paths below are relative to `src/gotcpip/src/tcpip/` unless they start with
`src/`.

## Inventory

| Component | State | Operations | Interacts with |
|---|---|---|---|
| TCP receive path, `net/tcp/tcpconn.go` | maps `listeners`, `connections`; per listener a channel of 5 connections; per connection `state`, the sequence numbers and window, `readChan` (10240 bytes), `sem` (a channel of 1 used as a lock) | `Listen`, `Accept`, `Read` by application goroutines; `listenForPackets` by one goroutine | receives `*SkBuff` from `ip.receive`; calls the send path in the same goroutine |
| IP and Ethernet send path, `net/ip/ipconn.go`, `net/ethernet/ethconn.go`, `util/util.go` | the frame buffer, the connection's `sendNextSeq` | `sendAck`, `sendSynAck`, `IPConn.Send`, `Checksum`, `VerifyChecksum`, `EthConn.Send` | called by `listenForPackets`; ends the process with `log.Fatal` |
| Packet pipeline, `net/ethernet/eth.go`, `net/ip/ip.go`, `Parse` in `net/tcp/tcp.go` | two channels of 2048 buffers; the indices and `PayloadLen` of each buffer | `ethernet.receive`, `ip.receive`, `Parse` | three goroutines in a row |
| TCP options, `tcpParseOpt` in `net/tcp/tcpconn.go` | index and remaining length, the options received | one loop over the bytes after the fixed header | called by `listenForPackets` for the first segment of a connection; its result is dropped |
| Red-black tree, `src/gotcpip/src/rbtree/rbtree.go` (the same file is also at `rbtree/rbtree.go`) | linked nodes from a slab pool | `Insert`, `Delete`, `FindKey`, `FindNode`, `TreeFirstNode`, `TreeLastNode`, `TreeNext`, `TreePrev` | used by the protocol registry |
| Protocol registry and scheduler, `net/protocol`, `stack` | per layer a tree of protocols and two round-robin positions; the protocols' queues | `ProtocolInit`, `ProtocolLoop` | `InitStack` registers IPv4 and then TCP; nothing calls `ProtocolLoop`; the package does not compile at this commit |
| Socket layer, function map | none, or a map | none used by the stack | - |

What is hard here, and to test: `listenForPackets` shares maps, channels and a
lock with goroutines of the application and may block in three places while it
serves every connection; segments may be repeated, reordered or never come; the
checksum misbehaves for a few headers in many thousands; a tree goes wrong only
after a sequence of calls, a repair of it only in trees of fourteen nodes; a
malformed option may lead the parser out of the options; what a protocol loop
does depends on the order of registrations. `PROJECT.json` lists these hazards at their lines
with the properties that watch over them.

What makes each part correct:

- TCP: a connection is handed to one `Accept`, of the listener its SYN was sent
  to; its peer's segments find it; `Read`s take contiguous batches of the
  stream; the loop always comes back for the next segment.
- Send path: a frame that is written is one that its receiver accepts, IP
  header and segment, and every segment is written. (The first is true of the IP
  header only, the second fails for sums that carry twice.)
- Tree: a set to its caller; a search tree in every round of every call; no
  node lost or freed in use; no red node under a red one between calls; black
  heights equal between calls, which `Insert` keeps and `Delete` does not.
- Pipeline: the lengths that the layers compute are those of the segment, the
  goroutines lose none of the bytes acknowledged, an acknowledgement covers what
  has arrived (the code's does not), and what was captured is parsed in the end.
- Options: no byte outside the options is read as one of them (a data offset
  below 5 makes the code do so), the values are those the peer wrote, and the
  parser comes back.
- Protocols: a loop serves the protocols of its layer, all that were registered
  (the code's does neither), and comes back.

## Modules

| Module | What it models |
|---|---|
| `TCPConn` | package `tcp` after `Start` |
| `ReadStream` | what `Read` promises: a queue of bytes from which a batch is taken at once |
| `TCPConnProofs` | theorems about `TCPConn`, and the invariant the next two build on |
| `TCPConnKeyProofs` | theorems about the keys of the maps `listeners` and `connections` |
| `TCPConnReadProofs` | theorems about `readChan`, `sem` and `Read`; that `TCPConn` implements `ReadStream` |
| `MCTCPConn` | the segments and buffers of its runs |
| `IPSend` | a segment's way out, from `sendAck` or `sendSynAck` to the device |
| `IPSendProofs` | theorems about `IPSend` |
| `MCIPSend` | the headers of its runs |
| `Pipeline` | a frame's way in, from the capture to `readChan` |
| `PipelineProofs` | theorems about `Pipeline` |
| `MCPipeline` | the header lengths and segment sizes of its runs |
| `RBTree` | package `rbtree` |
| `KeySet` | what a tree promises: a set of keys |
| `RBTreeProofs` | theorems about `RBTree`; that it implements `KeySet` |
| `MCRBTree` | keys, comparison and calls of its runs |
| `TCPOptions` | `tcpParseOpt` |
| `TCPOptionsProofs` | theorems about `TCPOptions` |
| `MCTCPOptions` | the SYNs of its runs |
| `Protocols` | package `protocol` |
| `ProtocolsProofs` | theorems about `Protocols` |
| `MCProtocols` | the protocols of its runs |

### TCPConn

State. `listeners` and `connections` are the two maps, functions from keys to
objects or nil. A key is what the source prints: `PortString` maps all
surrogate ports to U+FFFD as `string(port)` does, and a connection's key
carries the format it was printed with, because `ident` uses `%d` and
`listenForPackets` uses `%s`. `conn` has the scalar fields of each `TCPConn`;
`sem`, `readChan` and `backlog` its channels and the listener's; `loop`, `cur`,
`tl`, `todo` the place and the locals of `listenForPackets`; `writing` the
listeners that calls of `Listen` are storing; `rd` the place and
the locals of each goroutine in `Read`. `taken` is a history variable: what the
Reads of a connection returned.

Actions. One per stretch of code between two operations that can block:

| Action | Code (`net/tcp/tcpconn.go`) |
|---|---|
| `ListenBegin`, `ListenEnd` | `Listen`, any number of calls at once; the store in the map at 164 has a beginning and an end, since other `Listen`s write and `listenForPackets` reads the map with no lock |
| `ListenRace` | two stores of 164 at once, if the runtime detects it |
| `Accept` | 151 |
| `RecvSyn` | 294-355 for the first segment of a connection, `sendSynAck` included |
| `RecvSynNoListener` | 331-334 |
| `RecvUnknown` | 338 with `tcpConn` nil: the process ends |
| `RecvDuringListen` | 300 while 164 is under way and the runtime detects it |
| `RecvHandshake` | 339-355 for a later segment |
| `RecvData` | 356-365, `sendAck` included |
| `LoopOffer`, `LoopLock`, `LoopCopy`, `LoopUnlock` | 348, 367, 370, 373 |
| `ReadBegin`, `ReadLock`, `ReadByte`, `ReadReturn` | 125, 127, 130, 133 |

The network is a set of segments any of which may come at any time, any number
of times: loss, duplication and reordering need no action of their own.
`sendAck` and `sendSynAck` may fail, which ends the process. Sequence numbers
are held in host order and wrap at `SeqMod`.

Left out of the data: the acknowledgement number, FIN and RST (the package
never reads them), options (parsed into a local that is dropped: `TCPOptions`;
`RecvSyn` takes that call as one that returns), MAC addresses.

Two settings. As the source is, `IdentFormat` and `LookupFormat` differ, no
connection is ever found, and most of the package is dead code; so it is in the
runs `key_formats` and `no_handshake`, and the theorems are for any two formats.
The runs `handshake` and `two_readers` give both constants the same value. They
are about what the rest of the package does once the one line 301 prints as
`ident` does; they are not about the program as it is, and are needed because
everything behind that line would otherwise go unchecked. No property that is
about that lookup itself is checked in them. `EstablishedOnce`, which matters in
both settings, is proved for both.

### IPSend

A header is its ten 16-bit words in network order, the value that `Htons` and
`Ntohs` convert to and from. `SendSynAck` and `SendAck` write the TCP header,
`Fill` the IP header and both checksums (`ipconn.go:25-42`), `VerifyIP` and
`VerifyTCP` are the two tests that end the process (48-56), `Write` is
`EthConn.Send`. The TCP checksum is over both headers and no pseudo-header, as
line 42 has it. `Valid` is what a receiver asks of a sum; which words it adds up
is the property's: the ten of an IP header in `WrittenIPVerifies`. No property
says the like of a segment, because it is false of every one of them: see below.

### Pipeline

`EthReceive` and `EthSend` are `ethernet.receive` up to and at `c <- skbuf`,
`IPReceive` and `IPSendOut` are `ip.receive` up to and at `out <- skbuf`. The
established case of `listenForPackets` has the steps that it has in the code:
`TCPAck` is `Parse` and lines 356 to 365, which send the acknowledgement or end
the process; `LoopLock` takes `sem` (367); `LoopCopy` puts into `readChan` what
fits (369-371), and waits when it is full; `LoopUnlock` is 373. `Read` takes
bytes out, in one go, while the loop does not hold `sem`. So a byte can have
been acknowledged and not be in `readChan`, for ever.

An `skbuf` has its indices and `PayloadLen`, computed as in the source in
`uint16` (`LenMod`), and the length of its `Buffer`; the bytes themselves are
numbers in the peer's stream. The frame may be longer than its IP packet
(Ethernet pads to 60 bytes) or shorter (the capture stops at `snapshot_len`), and
the total length in its IP header may differ from both by any of the amounts in
`Wrong`: nothing in the code compares them. `delivered` and `gone` are history
variables: the stream's bytes that `readChan` was given, and those in a frame
that was lost, or that a length counted and the capture does not have.

The peer, external, sends its stream in order, and sends again from the first
byte not acknowledged. Its two header lengths are at least five words and lie
inside the capture; what a data offset below five does to the options is in
`TCPOptions`. Lost frames include those that libpcap drops when its own buffer
is full. The connection is taken to be established (`TCPConn` says that with the
key formats of the source no segment finds its connection), and has one reader,
which may stop reading; what several do to each other is in `TCPConn`.

### RBTree

The tree is one record of functions from nodes to pointers, keys and colours
(`child["left"]` is `leftChild`); `LEAF` is a node with nil children, as in the
source, so that following one of them is visible. A loop `n = next[n]`, be it a
search or a walk, is `Follow` of its `next`. `Compare` is any linear order, which
is what the callers' comparison functions are. `Insert` and `Delete` are split at the rounds of
`fixInsertCollisions` and `fixDeleteCollisions`. A branch and its mirror image
are one action with the side as data; where the two differ (`rotateToRight`
overwrites a missing child before it returns, `rotateToLeft` does not) so does
the model. `temp.parent.rightChild` at line 408, which is `temp`, is kept as
written. A freed node's contents are forgotten, because `createNode` overwrites
them all and `NodesAccounted` with `SearchTree` shows that no pointer to it is
left.

### TCPOptions

`opt` is the slice of bytes of line 203, which goes on to the end of the
buffer, and `Area` the length of line 200. Each way through a round of the loop
is an action: `Nop`, `EndOfOptions`, `GiveUp` (both early returns, 220 and
223), `Option` (the inner switch and the advance of 276 and 277), and
`IndexOutOfRange`, where line 208, 218 or 242 reads past the buffer and panics.
Line 230 does not: a slice may reach past the length of the buffer into its
capacity (the pool's chunks of 1500 bytes), where it finds zeros.
`furthest` is a history variable, the last byte that was read. A segment also
carries what the peer wrote, as a list `wrote` of options, and where in `opt`
each of them is, `at`; no action looks at these, only the reference reading in
`ReadsWhatWasWritten` does. `WroteAssumption` says that the two describe `opt`.
That is no restriction on the bytes: any area is read greedily as options that
have a length, up to its end, an end of options, or a byte that no option can
begin with.

The one caller passes SYNs only, with cleared options; so `tcpHdr.IsSYN()` is
true in every round, and `tstamp_ok` is false, which keeps time stamps from
being read. The data offset is any value of its four bits. `Fits` says that it
is at least 5 and lies inside the frame: where it does not, `Area` is what
line 200 computes all the same (65516 for an offset of 0), and there are no
options that the peer can be said to have written.

### Protocols

`rr` is the four `ProtoRR*` variables: per layer the tree in use and the
positions `in` and `out`. `ProtocolInit` makes four trees at each call and puts
the protocol into one, so a tree is `Empty` or one protocol, and the node of a
protocol has no neighbours: `TreeNext` of it is `LEAF`, in an old tree as in
the one in use. `Begin` is `ProtocolLoop` up to line 138 (`roundrobinInit`
included), `LoopTest` line 141, `Counted` and `NotCounted` a round of
`protoLoopIn` or `protoLoopOut`, `NextProto` lines 143 to 154 (`roundrobinEnd`
included). `BeginPanics` and `NextPanics` are `TreeFirstNode` of an empty tree,
which follows the nil child of `LEAF`, or of a tree that is nil, as the socket
layer's always is. A nil queue behaves as an empty one.

The package does not compile at this commit: it imports `constant`, which is
not in the repository, and uses unexported names of `rbtree` and functions that
`skb` lacks. The model is of the text with these names resolved: `constant`
has the layers of `net/socket/protocol.go:12-17`, `skb` a first-in first-out
queue. One goroutine makes all calls, others (external) fill the queues.

## Runs

All runs of `MCTCPConn`, `MCIPSend` and `MCPipeline` turn the deadlock check
off: the process may end, the network or the peer may fall silent, and an application need not call
`Accept` or `Read`. So do the runs of the tree, the options
and the protocols, where a call may panic or return for good.

| Run | Shows |
|---|---|
| `handshake` | one format, two peers, three ports of which two are surrogates, a backlog of one, under fairness: `OfferHasListener`, `OnlySurrogatesMix`, `EstablishedOnce` across handshakes of several, repeated segments, while `Listen` replaces listeners; `SoleReadIsServed` when data follows; `LoopReturns` when a second connection has to wait for the backlog |
| `two_readers` | one format, two readers of one connection, under fairness: `SemExclusive`, `FullBufferIsForever`, `AtomicReads` (implements `ReadStream`), `LoopReturns`, `ReadReturns` |
| `checksums` | `WrittenIPVerifies`, `FatalIsSecondCarry` |
| `pipeline` | a lossy network, channels of one buffer, a reader that may stop, length fields that are right or so small that one or the other difference wraps, under fairness: `ParsedExactly`, `AckedIsAccountedFor`, `Drains` |
| `tree_calls` | every sequence of calls on six keys, and deletions from trees of ten and fourteen: `SearchTree`, `NodesAccounted`, `RedsApart`, `WalksInOrder`, `InsertKeepsHeights`, `ShortAtNode`, `LoopIsSkipped`, `RoundsMend`, `IsAKeySet` (implements `KeySet`) |
| `options` | up to three options and all ends of the area, well formed or not, and data offsets that do not fit the frame, under fairness: `StaysInArea`, `ReadsWhatWasWritten`, `ParseEnds` |
| `protocols` | any three registrations and loops over all layers between them while packets arrive, under fairness: `ServesLatest`, `LoopReturns` |

Runs whose property the code does not have, each with the line that says it
should (quoted in `PROJECT.json`):

| Run | Property | What happens |
|---|---|---|
| `key_formats` | `SegmentsFindConn` | `%d` against `%s`: the ACK of a handshake finds no connection |
| `no_handshake` | `HandshakeBeforeAccept` | SYN with ACK is established at once |
| `one_fold` | `ChecksumsAreOnesComplement` | a sum that carries twice: 10.0.0.1 cannot answer 192.168.112.40, the process ends |
| `tree_heights` | `BlackPathsKept` | four inserts and one delete unbalance the tree |
| `dropped_layers` | `RegisteredAreServed` | the second registration of `InitStack` drops the protocol of the first |

Seen while modelling, with no run of its own:

- Two ports whose network-order values are surrogates (0xD800 to 0xDFFF) have
  one key in `listeners`, and `Accept` on one gets a connection to the other;
  `OnlySurrogatesMix` has them as its only exception.
- The sum of a segment (`ipconn.go:42`) is over the IP header where RFC 793,
  which `tcp.go:3` cites, has the pseudo-header. `VerifyChecksum` sums the same
  bytes and finds nothing; a peer that follows the RFC drops the segment.
- `recvNextSeq` is set to the end of whatever segment arrives (358, with a TODO
  at 357): a segment behind a lost one acknowledges both. `AckedIsAccountedFor`
  takes what the network lost for accounted for.
- A data offset below 5 wraps line 200, and payload is read as options.
- Options that end with a kind at the end of the frame make line 218 panic,
  before the test of line 223 ("don't parse partial options"). `StaysInArea` has
  this as its exception.
- A delete in a tree that an earlier one has left uneven can meet `LEAF` as the
  sibling, whose children are nil, and panics at line 400 (`DeleteNoSibling`,
  fired by `tree_calls`).
- Line 408 takes the wrong node after an inner rotation under a red parent, and
  that round leaves paths that differ (`TurnUnderRed`, the exception of
  `RoundsMend`).
- Line 47 of `protocol_impl.go` gives the socket layer's tree to the transport
  layer, whose loop then serves socket protocols, or none; a loop that starts at
  a transport position left from an earlier tree never meets it again and, with
  empty queues, does not return (`LostStart`, the exception of `LoopReturns`).
- The window of a segment sent is the peer's own (341, 405, 445), while
  `tcp.go:117` calls it "how many octets we can handle". So ordinary traffic
  can fill `readChan`, and `FullBufferIsForever` says what follows; what the loop
  then holds has already been acknowledged (`AckedIsAccountedFor`).
- `tcp.go:96` calls `tstamp_ok` "TIMESTAMP seen on SYN packet"; nothing sets
  it, so no time stamp is ever read.
- `ProtocolLoop` panics on a layer whose tree is empty, though line 131 provides
  for no node. After `InitStack`, which registers IPv4 and then TCP, all trees
  are empty or nil, and the loops of all layers panic.

### Bounds

- `Backlog = 1` (5 in the code), `ChanCap` 2 or 4 (10240): small enough to be
  full within the run, which is where the loop stops. Nothing depends on the
  value other than by being reached.
- `MaxSegs` 3 or 4 segments received: SYN, ACK and one more opening segment,
  from either peer; or an opening and three with data, one more than fill the
  buffer.
- `handshake` has three listeners' addresses: two surrogates, which share a key,
  and one that is none, so that `OnlySurrogatesMix` tells the two apart.
- `SeqMod = 4` or `8`; in `handshake` the initial number is the last one, so that
  the first increment wraps.
- Three connection objects, two peers, two listeners that may share a port:
  repeated SYNs can use up objects that a second connection then lacks.
- Headers at the corners of their words, and some whose sums carry twice at the
  SYN/ACK, the first and a later ACK; `MaxSends = 5`.
- `pipeline`: `MinFrame = 60`, `SnapLen = 64` (1024) and segments of 1, 6 and 11
  bytes behind a TCP header with an option: padded, fitting, and cut by the
  capture. `LenMod = 128` (2^16): a length field too small by 30 wraps in
  `ip.receive` for the least of them, in `Parse` for the others. `QueueCap = 1`
  (2048), `MaxSends = 3`: both channels fill, and a loss can lie between or
  before deliveries. `ChanCap = 10` (10240): two segments overfill it.
- `tree_calls`: any calls on six keys (the panic needs five; with seven, which
  takes some minutes, the same properties hold), and `Scripts`: insertions into
  trees of ten and fourteen keys and two deletions from them, after which
  `DeleteRecolour` and `DeleteRotate` meet an even tree with a red sibling, with
  a red far child, and with a red near child under a black and under a red
  parent. `RoundsMend` is void without these. Nodes are interchangeable, so the
  node given for a key is the one of its number.
- `options`: three options are enough for each to follow and precede each
  other one and an unknown or ill-sized one; the area ends in every way the
  code tells apart, with and without a payload byte after it. Where the header
  does not fit (offsets 0, 4 and 15), the buffer is two options cut anywhere from
  the sixth byte on; one buffer is long enough for `index` to exceed a `uint8`.
- `protocols`: one protocol each of network and transport, two of the socket
  layer, which is where a tree can be replaced under a position that is kept;
  three registrations, `Score` 1 and 3 (at and above the test of line 141),
  two packets waiting. The data link layer is treated as the network layer is.

### Fairness

`FairSpec` of `TCPConn` assumes that a goroutine that can go on does (`WF` of
each `ListenEnd`, the loop's steps and each reader's steps: the Go scheduler), and
that one waiting to send on `sem` gets its turn if `sem` is freed again and
again (`SF` of `LoopLock` and `ReadLock`: a Go channel queues its waiting
senders first in, first out). Nothing is assumed of the network, or of an
application that is not inside a call: `Accept` and `ReadBegin` have no
fairness, and `LoopReturns` has a full backlog among its outcomes for that
reason. `StrandedRead` among the outcomes is transient if more data arrives.

`FairSpec` of `Pipeline` assumes `WF` of each goroutine's steps, which are
disabled while the goroutine has to wait, and nothing of the peer, of losses or
of the reader: `Drains` has a `readChan` that stays full, and a process that
ended, among its outcomes. `FairSpec` of `TCPOptions` and `Protocols` assume that a
call that was made goes on (`WF` of its steps); of `ProcessIn` and `ProcessOut`
nothing is assumed but that they return, so `LoopReturns` has packets that
never count among its outcomes.

## Proofs

`tlapm` checks all of them. They hold for any sets and any capacities that
satisfy the `ASSUME`s of the modules: capacities positive, segments, buffers and
addresses of their types, nil not an object, in `Pipeline` headers that fit in the
capture, a
least frame no longer than the capture (60 and 1024 bytes in the code; without
it a padded frame would be cut and `ParsedExactly` would not hold), `Compare` a
linear order, finitely many nodes of trees. Where the third column of the table has
nothing, that is all.

| Property | Theorem | Hypotheses beyond the `ASSUME`s |
|---|---|---|
| `TypeOK` of each module | `TypeCorrect` of its proof module | - |
| `OfferHasListener`, `SemExclusive`, `EstablishedOnce` | `OfferNotNil`, `SemIsALock`, `AcceptedOnce` | - |
| `OnlySurrogatesMix` | `AcceptsOwnPort` | - |
| `FullBufferIsForever`, `SoleReadIsServed`, `AtomicReads` | `FullIsForever`, `SoleReadServed`, `ReadsAreAtomic` | - |
| `FatalIsSecondCarry`, `WrittenIPVerifies` | `FatalExactly`, `WrittenVerifies` | - |
| `ParsedExactly`, `AckedIsAccountedFor` | `LengthsAgree`, `AcksAreAccountedFor` | - |
| `StaysInArea`, `ReadsWhatWasWritten` | `KeepsToArea`, `ReadsTheOptions` | - |
| `SearchTree`, `NodesAccounted`, `RedsApart`, `WalksInOrder` | `KeepsSearchTree`, `AccountsForNodes`, `KeepsRedsApart`, `WalksGoInOrder` | - |
| `IsAKeySet` | `ImplementsKeySet` | - |
| `InsertKeepsHeights`, `ShortAtNode`, `LoopIsSkipped`, `RoundsMend` | `InsertKeepsEven`, `DeleteKnowsWhatIsShort`, `EvenTreesSkipTheLoop`, `RoundsRestoreHeights` | - |
| `ServesLatest` | `LatestServed` | - |

`TCPConnProofs`:

- `TypeCorrect`, `OfferNotNil`, `SemIsALock`, `AcceptedOnce`:
  `Spec => [](...)` for `TypeOK`, `OfferHasListener`, `SemExclusive` and
  `EstablishedOnce`. They share one inductive invariant `IInv`. What has to be
  added to the properties themselves: that an entry of `listeners` is never
  taken out, and that every connection in `SYN_RECEIVED` has a listener under
  its own key, so that the second lookup of line 300 finds one; that `sem` is
  `"nil"` until the connection is established and that only established
  connections are in a backlog, accepted or read; that the loop's locals are set
  exactly while it is inside a case of the switch.

`IPSendProofs`: `TypeCorrect`, `FatalExactly` and `WrittenVerifies`, for all
addresses, ports, sequence numbers and windows. The invariant says what each
checksum was computed from and what each test saw; the rest is arithmetic: one
fold of at most twenty words is below `2 * 2^16`, a sum with its checksum added
folds to `2^16 - 1` exactly if the fold of the sum alone did not carry, and
folding does not change a sum modulo `2^16 - 1`. `WrittenVerifies` is about the
IP header alone: of a segment the like is false.

`TCPConnKeyProofs`: `AcceptsOwnPort`, `Spec => []OnlySurrogatesMix`, for any
addresses and ports, surrogates among them, and whatever the key formats are. To
be added: a connection's destination and the listener that line 300 finds, for
the first segment or, by then perhaps another one, for a later segment, have the
same key. The lemma `SameKey` says what two ports with one key are: the same
port, or two that print as U+FFFD.

`TCPConnReadProofs`:

- `FullIsForever`, the action property `FullBufferIsForever`: the one step that
  could take a byte is a Read that holds the same connection's `sem`, and
  `SemExclusive` excludes it.
- `SoleReadServed`: a Read that is alone on its connection finds what it counted
  at line 125. The counted bytes stay because only Reads take bytes out and no
  later handshake replaces `readChan`: an accepted connection is established
  and, by `EstablishedOnce`, is not established again.
- `ReadsAreAtomic`: `Spec => AtomicReads`, the refinement. The queue of
  `ReadStream` is `readChan` with what the one Read that holds `sem` has taken
  but not returned put back in front of it (`HeldBytes`; that there is one such
  Read is `SemExclusive`). `LoopCopy` maps to `Put`, `ReadReturn` to `Take`, all
  other steps to stuttering (`StepSimulation`). The handshake makes a new
  `readChan`, which loses nothing because it was empty until then (`NoneYet`)
  and nobody reads a connection that is not established (`ReadsEstablished`).

`PipelineProofs`:

- `TypeCorrect`, `LengthsAgree`: the invariant `Goods` says what each goroutine
  has written into the `skbuf` it holds or has passed on. The length field may be
  anything, so either difference may wrap; lemmas on `%` show that taking two
  header lengths off modulo 2^16, one after the other, gives what taking them off
  at once does.
- `AcksAreAccountedFor`: the property speaks of acknowledgements, but a byte
  below one may be in no frame any more. The invariant (`Order`) says it of every
  place a frame can be, front to back: a byte before the first one of a frame was
  delivered, is in the loop's hand (`InHand`), is gone, or is in a frame ahead of
  it in the five places (the parsed buffer, the two queues, the two hands, the
  wire). It is inductive only because the goroutines hand frames on in order and
  block on a full channel. It holds while the process is `Up`; after that
  nothing is acknowledged any more.

`TCPOptionsProofs`:

- `TypeCorrect`, `KeepsToArea`, for any bytes and any data offset. The two
  together are inductive:
  as `index + length` is the area, a round begins inside it, and an option that
  passes the tests of lines 220 and 223 ends inside it. The lemma `NetworkOrder`
  says that `Ntohs` of `Byte2uint16` is the number written in network order, for
  all bytes.
- `ReadsTheOptions`: `Spec => []ReadsWhatWasWritten`, for headers that fit their
  frames. The invariant relates the
  parser to the writer: while the loop runs, `index` is where the next option
  begins, `seg.at[i]`, and `opt_rx` is what the first `i - 1` options say. `at`
  is the witness that makes this provable: where an option starts is a sum of
  any number of lengths, but with `at` each round needs only that the next start
  is one length on.

`RBTreeProofs`. What a subtree is, and its black height, are recursive. Neither
needs induction over trees in the step of an action, because each can be given by a
witness that only relates neighbours:

- `B[n]`, the nodes under `n`: `n` itself and the disjoint `B` of its children.
  `Good(u, S, B)` says this of every node, with the links that agree and the
  keys of `B` of a child on their side. A rotation or a link changes a few
  links, so it changes `B` at a few nodes and leaves a few conditions to check.
  Lemmas for `Hang`, `switchNodes`, `Rotate`, `Link` and `deleteNode` do that; no
  property of the whole tree is opened up in the proof of an action.
- `H[n]`, the black nodes on a path from `n` down: `H[n]` is `H` of either child
  and what `n` weighs (`Level`). `EvenIs` shows that a tree has such an `H`
  exactly if `EvenWith` says that its paths are even.

Where induction is needed after all, to show that the recursive `Below`,
`Follow` and `EvenWith` agree with the witnesses, it is over the sizes of the
sets `B[n]`: `UpFromLeaves` and `DownFromRoot` take the set of the nodes that
have the property, and look at a node outside it with the least such size.

- `TypeCorrect`, `KeepsSearchTree`, `AccountsForNodes`, `KeepsRedsApart`: one
  inductive invariant. There is a `B` with `Good(t, Linked, B)`, where the
  linked nodes are all but the free ones and the one being deleted (`Held`);
  and the colours are as the place in the call has them (`Coloured`): while they
  are restored, each red node with a red child is, or has as that child, `node`,
  and a red root is `node`.
  The invariant was checked on `tree_calls` first, with
  `[n |-> IF n \in Linked THEN Below(n) ELSE {}]` for `B`.
- `ImplementsKeySet`: `Spec => IsAKeySet`, the refinement. The keys of `Good`
  are those of the linked nodes; `FindNode` finds exactly them, because a search
  that has come to `n` has left aside only keys that are on the other side of
  one it has passed. Rounds map to stuttering: none of them changes `Linked` or a key.
- `WalksGoInOrder`: a walk that goes up ends at the first ancestor that has `n`
  on the other side, and all nodes that are not under it are before both or
  behind both.
- `InsertKeepsEven`, `RoundsRestoreHeights`: `HoistHeights` moves a black from
  both children of a node to the node, or back, and `RotateHeights` turns two
  nodes of which one is red; every round of the two loops is composed of these,
  for a weight that counts `node` twice in those of `Delete`.
- `DeleteKnowsWhatIsShort`: `SpliceLevel` and `ReplaceLevel` give the `H` of the
  tree without the node, from that of the tree with it. A node that has one
  child only has a red one, if the tree is even.
- `EvenTreesSkipTheLoop`: in an even tree a black node that has no two children
  has none or a red one; so either `temp` is `LEAF`, or it is red.

Together: `Delete` keeps the heights of a red-black tree unless what is taken
from its place is a black node without children, other than the root; the run
`tree_heights` shows this with four nodes. `RedsApart` has no such exception, so
the uneven trees keep the other half of the definition.

`ProtocolsProofs`: `LatestServed`. The invariant says what trees and positions
can be after any number of registrations, for the two layers that have their own
trees: a tree that has a protocol has positions that are unset or name it. A
position may outlive its tree, but while it does the layer's tree is empty, and
the registration that fills it again resets the positions.

Only model-checked: liveness under fairness, which is out of the prover's reach
(`LoopReturns`, `ReadReturns`, `Drains`, `ParseEnds`, `LoopReturns` of
`Protocols`), and the properties that the code does not have.

## Plan

1. `DeleteNoSibling` from both sides: that it happens only under a node whose
   two sides differ in black nodes, as a property of the uneven trees.
2. `Pipeline` composed with `TCPConn`, so that the length and the bytes of a
   segment come from one frame and what is read is compared with the peer's
   stream. The two have the same steps from line 356 to 373 now; what is left
   to join is the bytes (numbers here, values there) and the readers.
3. Header lengths in `Pipeline` that lie outside the capture, with the panics
   and reads of other memory that follow from them.

## Not modelled

`TCPSocket` (no code uses it), the socket layer (declarations only), the
function map (reflection, unused), `Ip2long` and the printing functions (text),
`IS_IPV4` and `IS_IPV6` (one byte, not called), `protocmp` (never called, since
no tree of protocols has two nodes),
the slab pool (external; any free node or fresh buffer), libpcap (external; a
write succeeds or fails).
