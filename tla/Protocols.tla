----------------------------- MODULE Protocols ------------------------------
(***************************************************************************)
(* Package protocol: protocols are registered per layer, and ProtocolLoop  *)
(* lets the protocols of a layer, in turn, take packets off their queues.  *)
(* One goroutine makes all calls; others put packets on the queues.        *)
(*                                                                         *)
(* ProtocolInit makes new trees and inserts one protocol into one of them, *)
(* so a tree is empty or one node, and protocmp is never called.  A node   *)
(* is known by its protocol: it has no children and no parent, so its      *)
(* TreeNext is LEAF, whether or not its tree is still in use.  The package *)
(* is modelled with the names it fails to import resolved.                 *)
(***************************************************************************)
EXTENDS Integers, FiniteSetsExt

CONSTANTS
  Proto,      \* the ZBProtocols
  LayerOf,    \* p.Layer
  Score,      \* values of loopScore the caller gives
  QueueCap,   \* bound on the packets that wait, all queues together
  MaxInits,   \* bound on the calls of ProtocolInit
  Nil

Layer == {"datalink", "network", "transport", "socket"}
Direction == {"in", "out"}   \* LOOP_DIR_IN, LOOP_DIR_OUT
Empty == "empty"             \* a tree whose root is LEAF

ASSUME LayerAssumption == LayerOf \in [Proto -> Layer]
ASSUME NilAssumption == Nil \notin Proto /\ Empty \notin Proto \cup {Nil}
ASSUME BoundAssumption == QueueCap \in Nat /\ MaxInits \in Nat /\ Score \subseteq Nat

VARIABLES
  rr,      \* ProtoRR*: per layer the tree, nodeIn and nodeOut
  queue,   \* QueueIn and QueueOut: how many packets; a nil queue has none
  pc,      \* "idle", in ProtocolLoop at line 141 ("test") or 142 ("serve"), "panic"
  call,    \* arguments and locals of ZBProtocolGenericLoop
  inits,   \* calls of ProtocolInit so far
  registered  \* history: the protocols ProtocolInit was called for

vars == <<rr, queue, pc, call, inits, registered>>

Node == Proto \cup {Nil}
NoCall == [layer |-> Nil, dir |-> Nil, score |-> 0, next |-> Nil, start |-> Nil]

TypeOK ==
  /\ rr \in [Layer -> [tree : Node \cup {Empty}, in : Node, out : Node]]
  /\ queue \in [Proto -> [Direction -> Nat]]
  /\ pc \in {"idle", "test", "serve", "panic"}
  /\ IF pc \in {"test", "serve"}
     THEN call \in [layer : Layer, dir : Direction, score : Nat,
                    next : Proto, start : Proto]
     ELSE call = NoCall
  /\ inits \in 0..MaxInits /\ registered \subseteq Proto

Init ==
  /\ rr = [l \in Layer |-> [tree |-> Nil, in |-> Nil, out |-> Nil]]
  /\ queue = [p \in Proto |-> [d \in Direction |-> 0]]
  /\ pc = "idle" /\ call = NoCall
  /\ inits = 0 /\ registered = {}

-----------------------------------------------------------------------------
(* The tree that ProtocolInit(p) makes for the protocols of layer l.       *)
NewTree(l, p) == IF LayerOf[p] = l THEN p ELSE Empty

(* Lines 44 to 47: the variable of the socket layer is never assigned, and *)
(* the one of the transport layer gets the tree of the socket layer.       *)
Trees(p) == [l \in Layer |->
               CASE l = "socket"    -> rr[l].tree
                 [] l = "transport" -> NewTree("socket", p)
                 [] OTHER           -> NewTree(l, p)]

(* The positions in p's own layer are forgotten, no others.  (NoReset is a *)
(* fault, and so are the definitions below that precede what they replace: *)
(* what the code could have been by mistake.)                              *)
NoReset(l, p) == rr[l]
Reset(l, p) ==
  IF LayerOf[p] = l THEN [rr[l] EXCEPT !.in = Nil, !.out = Nil] ELSE rr[l]

ProtocolInit(p) ==
  /\ pc = "idle" /\ inits < MaxInits
  /\ inits' = inits + 1 /\ registered' = registered \cup {p}
  /\ rr' = [l \in Layer |-> [Reset(l, p) EXCEPT !.tree = Trees(p)[l]]]
  /\ UNCHANGED <<queue, pc, call>>

(* A packet for p, from another goroutine.                                 *)
Waiting == MapThenSumSet(LAMBDA p : queue[p]["in"] + queue[p]["out"], Proto)
Enqueue(p, d) ==
  /\ pc # "panic" /\ Waiting < QueueCap
  /\ queue' = [queue EXCEPT ![p][d] = @ + 1]
  /\ UNCHANGED <<rr, pc, call, inits, registered>>

-----------------------------------------------------------------------------
(* TreeFirstNode(rr.rbtree.Root): for an empty tree it follows LEAF's nil  *)
(* child, and where ProtocolInit left no tree, the nil tree: both panic.   *)
HasFirst(l) == rr[l].tree \in Proto
FirstNode(l) == rr[l].tree

(* roundrobinInit sets both positions, whatever the direction.             *)
NeedsFirst(l) == Nil \in {rr[l].in, rr[l].out}
Positions(l) ==
  [rr[l] EXCEPT !.in  = IF @ = Nil THEN FirstNode(l) ELSE @,
                !.out = IF @ = Nil THEN FirstNode(l) ELSE @]

Begin(l, d, s) ==
  /\ pc = "idle" /\ (NeedsFirst(l) => HasFirst(l))
  /\ rr' = [rr EXCEPT ![l] = Positions(l)]
  /\ pc' = "test"
  /\ call' = [layer |-> l, dir |-> d, score |-> s,
              next |-> Positions(l)[d], start |-> Positions(l)[d]]
  /\ UNCHANGED <<queue, inits, registered>>

Panic == pc' = "panic" /\ call' = NoCall /\ UNCHANGED <<rr, queue, inits, registered>>

BeginPanics(l) == pc = "idle" /\ NeedsFirst(l) /\ ~HasFirst(l) /\ Panic

(* roundrobinEnd, and the return *)
End(node) ==
  /\ rr' = [rr EXCEPT ![call.layer][call.dir] = node]
  /\ pc' = "idle" /\ call' = NoCall

LoopTest ==
  /\ pc = "test"
  /\ \/ call.score > 1 /\ pc' = "serve" /\ UNCHANGED <<rr, call>>
     \/ call.score <= 1 /\ End(call.next)
  /\ UNCHANGED <<queue, inits, registered>>

(* protoLoopIn and protoLoopOut: the loop takes a packet off the queue;    *)
(* the score falls if ProcessIn or ProcessOut counts it.                   *)
ScoreOrZero == call.score >= 0
ScoreLeft == call.score > 0
Packets == queue[call.next][call.dir]

Process(s) ==
  /\ pc = "serve" /\ ScoreLeft /\ Packets > 0
  /\ queue' = [queue EXCEPT ![call.next][call.dir] = @ - 1]
  /\ call' = [call EXCEPT !.score = s]
  /\ UNCHANGED <<rr, pc, inits, registered>>
Counted == Process(call.score - 1)
NotCounted == Process(call.score)

(* After a protocol comes, as TreeNext is LEAF, the first of the tree that *)
(* its layer now has; the loop ends when that is where it started.         *)
ServeEnd == pc = "serve" /\ (~ScoreLeft \/ Packets = 0)

NeverTraversed(next) == FALSE
Traversed(next) == next = call.start

NextProto ==
  LET next == FirstNode(call.layer)
  IN /\ ServeEnd /\ HasFirst(call.layer)
     /\ \/ Traversed(next) /\ End(next)
        \/ /\ ~Traversed(next)
           /\ pc' = "test" /\ call' = [call EXCEPT !.next = next]
           /\ UNCHANGED rr
     /\ UNCHANGED <<queue, inits, registered>>

NextPanics == ServeEnd /\ ~HasFirst(call.layer) /\ Panic

-----------------------------------------------------------------------------
LoopStep == LoopTest \/ Counted \/ NotCounted \/ NextProto \/ NextPanics

Next ==
  \/ \E p \in Proto : ProtocolInit(p) \/ \E d \in Direction : Enqueue(p, d)
  \/ \E l \in Layer : \/ BeginPanics(l)
                       \/ \E d \in Direction, s \in Score : Begin(l, d, s)
  \/ LoopStep

Spec == Init /\ [][Next]_vars

(* A call that was made goes on.                                           *)
FairSpec == Spec /\ WF_vars(LoopStep)

-----------------------------------------------------------------------------
(* Properties *)

Looping == pc \in {"test", "serve"}

(* A registration is seen by the loops of its layer: they start at the     *)
(* protocol that the layer's tree has, and serve no other, also where a    *)
(* position was left from an earlier tree (protocol_impl.go:52-62, 102).   *)
(* Line 47 gives the transport layer the socket layer's tree; what its     *)
(* loop serves has no such rule, and the socket layer's no tree.           *)
ServesLatest ==
  Looping /\ call.layer \in {"datalink", "network"}
          /\ rr[call.layer].tree # Empty
    => {call.start, call.next} = {rr[call.layer].tree}

(* A protocol that was registered is among "all layer protocols" that the  *)
(* loop of its layer serves (protocol_impl.go:140): the one of InitStack's *)
(* first registration too, after the second.  For the two layers that have *)
(* their own trees.                                                        *)
RegisteredAreServed ==
  \A p \in registered :
    LayerOf[p] \in {"datalink", "network"} => rr[LayerOf[p]].tree = p

(* A call returns or panics (protocol_impl.go:140: "break if traversed all *)
(* protocols"), whatever was registered before it, unless packets that do  *)
(* not count (lines 166, 181) come for ever.  The one start that is never  *)
(* met again (line 150) is a position of the transport layer in a tree     *)
(* that line 47 has replaced; in the other layers there is none.           *)
LostStart == call.layer = "transport" /\ call.start # rr["transport"].tree
LoopReturns ==
  (Looping /\ ~LostStart ~> ~Looping) \/ []<><<NotCounted>>_vars
=============================================================================
