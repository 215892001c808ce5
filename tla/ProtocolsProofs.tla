--------------------------- MODULE ProtocolsProofs ---------------------------
(***************************************************************************)
(* What the scheduler of package protocol does for any set of protocols,   *)
(* in any layers, and any number of calls of ProtocolInit.                 *)
(***************************************************************************)
EXTENDS Protocols, TLAPS

(* A registration in layer datalink or network resets the positions of     *)
(* that layer, and any other one empties its tree: while the tree has a    *)
(* protocol, the positions are that protocol or unset.                     *)
OwnTree == {"datalink", "network"}
PositionsLatest ==
  \A l \in OwnTree :
    rr[l].tree \in Proto => {rr[l].in, rr[l].out} \subseteq {Nil, rr[l].tree}
(* Before the first registration no position is set.                       *)
PositionsHaveTree ==
  \A l \in OwnTree : rr[l].tree = Nil => rr[l].in = Nil /\ rr[l].out = Nil
IInv == TypeOK /\ PositionsLatest /\ PositionsHaveTree /\ ServesLatest

RR == [tree : Node \cup {Empty}, in : Node, out : Node]
Call == [layer : Layer, dir : Direction, score : Nat, next : Proto, start : Proto]

LEMMA InitIInv == Init => IInv
BY NilAssumption, BoundAssumption
DEF Init, IInv, TypeOK, PositionsLatest, PositionsHaveTree, ServesLatest,
    Looping, Node, Layer, Direction, NoCall, Empty, OwnTree

(* What ProtocolInit leaves of a layer's entry.                            *)
LEMMA InitRR ==
  ASSUME IInv, NEW p \in Proto, NEW l \in Layer, ProtocolInit(p)
  PROVE  /\ rr'[l] \in RR
         /\ l \in OwnTree /\ rr'[l].tree \in Proto =>
              rr'[l].in = Nil /\ rr'[l].out = Nil
         /\ l \in OwnTree => rr'[l].tree # Nil
<1>1. rr[l] \in RR
  BY DEF IInv, TypeOK, RR
<1>2. /\ Reset(l, p) \in RR
      /\ LayerOf[p] = l => Reset(l, p).in = Nil /\ Reset(l, p).out = Nil
  BY <1>1 DEF Reset, RR, Node
<1>3. Trees(p)[l] \in Node \cup {Empty}
  <2>1. rr[l].tree \in Node \cup {Empty}
    BY <1>1 DEF RR
  <2> QED BY <2>1 DEF Trees, NewTree, Node
<1>4. l \in OwnTree => Trees(p)[l] = NewTree(l, p)
  BY DEF Trees, OwnTree
<1>5. rr'[l] = [Reset(l, p) EXCEPT !.tree = Trees(p)[l]]
  BY DEF ProtocolInit
<1> HIDE DEF Trees, Reset
<1>6. /\ rr'[l] \in RR /\ rr'[l].tree = Trees(p)[l]
      /\ rr'[l].in = Reset(l, p).in /\ rr'[l].out = Reset(l, p).out
  BY <1>2, <1>3, <1>5 DEF RR
<1> QED BY <1>2, <1>4, <1>6, NilAssumption DEF NewTree

LEMMA InitStep ==
  ASSUME IInv, NEW p \in Proto, ProtocolInit(p)
  PROVE  IInv'
<1>1. \A l \in Layer : rr'[l] \in RR
  BY InitRR
<1>2. rr' \in [Layer -> RR]
  <2>1. rr' = [l \in Layer |-> rr'[l]]
    BY DEF ProtocolInit
  <2> QED BY <1>1, <2>1
<1>3. TypeOK'
  BY <1>2, BoundAssumption DEF IInv, TypeOK, ProtocolInit, Node, RR
<1>4. PositionsLatest' /\ PositionsHaveTree'
  BY InitRR DEF PositionsLatest, PositionsHaveTree, OwnTree, Layer
<1>5. ServesLatest'
  BY DEF ServesLatest, Looping, ProtocolInit
<1> QED BY <1>3, <1>4, <1>5 DEF IInv

LEMMA EnqueueStep ==
  ASSUME IInv, NEW p \in Proto, NEW d \in Direction, Enqueue(p, d)
  PROVE  IInv'
<1>1. queue' \in [Proto -> [Direction -> Nat]]
  BY DEF IInv, TypeOK, Enqueue
<1>2. TypeOK'
  BY <1>1 DEF IInv, TypeOK, Enqueue
<1> QED
  BY <1>2 DEF IInv, Enqueue, PositionsLatest, PositionsHaveTree, ServesLatest,
     Looping

(* roundrobinInit gives the latest protocol, in the layers that have one.  *)
LEMMA PositionsFacts ==
  ASSUME IInv, NEW l \in Layer, NeedsFirst(l) => HasFirst(l)
  PROVE  /\ Positions(l) \in RR
         /\ Positions(l).tree = rr[l].tree
         /\ Positions(l).in \in Proto /\ Positions(l).out \in Proto
         /\ l \in OwnTree /\ rr[l].tree # Empty =>
              /\ Positions(l).in = rr[l].tree /\ Positions(l).out = rr[l].tree
              /\ rr[l].tree \in Proto
<1>1. rr[l] \in RR
  BY DEF IInv, TypeOK, RR
<1>2. /\ Positions(l) \in RR /\ Positions(l).tree = rr[l].tree
      /\ Positions(l).in = IF rr[l].in = Nil THEN rr[l].tree ELSE rr[l].in
      /\ Positions(l).out = IF rr[l].out = Nil THEN rr[l].tree ELSE rr[l].out
  BY <1>1 DEF Positions, FirstNode, RR, NeedsFirst, HasFirst, Node
<1>3. Positions(l).in \in Proto /\ Positions(l).out \in Proto
  BY <1>1, <1>2 DEF NeedsFirst, HasFirst, RR, Node
<1>4. ASSUME l \in OwnTree, rr[l].tree # Empty
      PROVE  /\ Positions(l).in = rr[l].tree /\ Positions(l).out = rr[l].tree
             /\ rr[l].tree \in Proto
  <2>1. rr[l].tree \in Proto
    BY <1>1, <1>4, NilAssumption DEF IInv, PositionsHaveTree, RR, Node, NeedsFirst,
       HasFirst
  <2>2. {rr[l].in, rr[l].out} \subseteq {Nil, rr[l].tree}
    BY <1>4, <2>1 DEF IInv, PositionsLatest
  <2> QED BY <1>2, <2>1, <2>2
<1> QED BY <1>2, <1>3, <1>4

LEMMA BeginStep ==
  ASSUME IInv, NEW l \in Layer, NEW d \in Direction, NEW sc \in Score,
         Begin(l, d, sc)
  PROVE  IInv'
<1> DEFINE pos == Positions(l)
<1>1. /\ pos \in RR /\ pos.tree = rr[l].tree
      /\ pos.in \in Proto /\ pos.out \in Proto
      /\ l \in OwnTree /\ rr[l].tree # Empty =>
           pos.in = rr[l].tree /\ pos.out = rr[l].tree /\ rr[l].tree \in Proto
  BY PositionsFacts DEF Begin
<1>2. /\ rr' = [rr EXCEPT ![l] = pos] /\ pc' = "test"
      /\ call' = [layer |-> l, dir |-> d, score |-> sc,
                  next |-> pos[d], start |-> pos[d]]
      /\ UNCHANGED <<queue, inits, registered>>
  BY DEF Begin
<1>3. pos[d] = pos.in \/ pos[d] = pos.out
  BY DEF Direction
<1> HIDE DEF pos
<1>4. rr \in [Layer -> RR]
  BY DEF IInv, TypeOK, RR
<1>5. rr' \in [Layer -> RR]
  BY <1>1, <1>2, <1>4
<1>6. call' \in Call
  BY <1>1, <1>2, <1>3, BoundAssumption DEF Call
<1>7. TypeOK'
  BY <1>2, <1>5, <1>6 DEF IInv, TypeOK, RR, Call
<1>8. \A k \in Layer : /\ rr'[k].tree = rr[k].tree
                       /\ k # l => rr'[k] = rr[k]
                       /\ k = l => rr'[k] = pos
  BY <1>1, <1>2, <1>4
<1>9. PositionsLatest' /\ PositionsHaveTree'
  BY <1>1, <1>8, NilAssumption DEF IInv, PositionsLatest, PositionsHaveTree, OwnTree, Layer
<1>10. ServesLatest'
  BY <1>1, <1>2, <1>3, <1>8 DEF ServesLatest, OwnTree
<1> QED BY <1>7, <1>9, <1>10 DEF IInv

LEMMA PanicStep == IInv /\ Panic => IInv'
BY DEF IInv, TypeOK, Panic, PositionsLatest, PositionsHaveTree, ServesLatest, Looping

(* roundrobinEnd stores the latest protocol, in the layers that have one.  *)
LEMMA EndStep ==
  ASSUME IInv, Looping, NEW n \in Proto, End(n),
         call.layer \in OwnTree /\ rr[call.layer].tree # Empty =>
           n = rr[call.layer].tree,
         UNCHANGED <<queue, inits, registered>>
  PROVE  IInv'
<1> DEFINE l == call.layer
           d == call.dir
<1>1. l \in Layer /\ d \in {"in", "out"} /\ rr \in [Layer -> RR]
  BY DEF IInv, TypeOK, RR, Looping, Direction
<1>2. /\ rr' = [rr EXCEPT ![l] = [rr[l] EXCEPT ![d] = n]]
      /\ pc' = "idle" /\ call' = NoCall
      /\ l \in OwnTree /\ rr[l].tree # Empty => n = rr[l].tree
  BY DEF End
<1> HIDE DEF l, d
<1> DEFINE r == [rr[l] EXCEPT ![d] = n]
<1>3. /\ r \in RR /\ r.tree = rr[l].tree
      /\ r.in \in {rr[l].in, n} /\ r.out \in {rr[l].out, n}
  <2>1. rr[l] \in RR
    BY <1>1
  <2>2. CASE d = "in"
    BY <2>1, <2>2 DEF RR, Node
  <2>3. CASE d = "out"
    BY <2>1, <2>3 DEF RR, Node
  <2> QED BY <1>1, <2>2, <2>3
<1> HIDE DEF r
<1>4. rr' \in [Layer -> RR]
  BY <1>1, <1>2, <1>3 DEF r
<1>5. TypeOK'
  BY <1>2, <1>4 DEF IInv, TypeOK, RR
<1>6. \A k \in Layer : /\ rr'[k].tree = rr[k].tree
                       /\ k # l => rr'[k] = rr[k]
                       /\ k = l => rr'[k] = r
  BY <1>1, <1>2, <1>3 DEF r
<1>7. PositionsLatest' /\ PositionsHaveTree'
  BY <1>2, <1>3, <1>6, NilAssumption
  DEF IInv, PositionsLatest, PositionsHaveTree, OwnTree, Layer
<1>8. ServesLatest'
  BY <1>2 DEF ServesLatest, Looping
<1> QED BY <1>5, <1>7, <1>8 DEF IInv

LEMMA LoopTestStep ==
  ASSUME IInv, LoopTest
  PROVE  IInv'
<1>1. Looping /\ call \in Call
  BY DEF IInv, TypeOK, Looping, LoopTest, Call
<1>2. /\ call.next \in Proto
      /\ call.layer \in OwnTree /\ rr[call.layer].tree # Empty =>
           call.next = rr[call.layer].tree
  BY <1>1 DEF Call, IInv, ServesLatest, OwnTree
<1>3. CASE End(call.next)
  BY <1>1, <1>2, <1>3, EndStep DEF LoopTest
<1>4. CASE pc' = "serve" /\ UNCHANGED <<rr, call>>
  BY <1>1, <1>4 DEF LoopTest, IInv, TypeOK, PositionsLatest, PositionsHaveTree,
     ServesLatest, Looping, Call
<1> QED BY <1>3, <1>4 DEF LoopTest

LEMMA ProcessStep ==
  ASSUME IInv, NEW sc \in Nat, Process(sc)
  PROVE  IInv'
<1>1. Looping /\ call \in Call
  BY DEF IInv, TypeOK, Looping, Process, Call
<1>2. /\ call' \in Call /\ call'.layer = call.layer
      /\ call'.next = call.next /\ call'.start = call.start
  BY <1>1 DEF Process, Call
<1>3. queue' \in [Proto -> [Direction -> Nat]]
  <2>1. /\ call.next \in Proto /\ call.dir \in Direction
        /\ queue \in [Proto -> [Direction -> Nat]]
    BY <1>1 DEF IInv, TypeOK, Call
  <2>2. queue[call.next][call.dir] - 1 \in Nat
    BY <2>1 DEF Process, Packets
  <2> QED BY <2>1, <2>2 DEF Process
<1>4. TypeOK'
  BY <1>2, <1>3 DEF IInv, TypeOK, Process, Call
<1>5. ServesLatest'
  BY <1>1, <1>2 DEF IInv, ServesLatest, Process
<1> QED
  BY <1>4, <1>5 DEF IInv, Process, PositionsLatest, PositionsHaveTree

LEMMA NextProtoStep ==
  ASSUME IInv, NextProto
  PROVE  IInv'
<1> DEFINE n == FirstNode(call.layer)
<1>1. Looping /\ call \in Call /\ n \in Proto /\ n = rr[call.layer].tree
  BY DEF IInv, TypeOK, Looping, ServeEnd, Call, NextProto, HasFirst, FirstNode
<1>2. CASE End(n)
  BY <1>1, <1>2, EndStep DEF NextProto
<1>3. CASE pc' = "test" /\ call' = [call EXCEPT !.next = n] /\ UNCHANGED rr
  <2>1. /\ call' \in Call /\ call'.layer = call.layer
        /\ call'.next = n /\ call'.start = call.start
    BY <1>1, <1>3 DEF Call
  <2>2. TypeOK'
    BY <1>3, <2>1 DEF IInv, TypeOK, NextProto, Call
  <2>3. ServesLatest'
    BY <1>1, <1>3, <2>1 DEF IInv, ServesLatest
  <2> QED
    BY <1>3, <2>2, <2>3 DEF IInv, NextProto, PositionsLatest, PositionsHaveTree
<1> QED BY <1>2, <1>3 DEF NextProto

LEMMA NextIInv == IInv /\ [Next]_vars => IInv'
<1> SUFFICES ASSUME IInv, [Next]_vars PROVE IInv'
  OBVIOUS
<1>1. CASE UNCHANGED vars
  BY <1>1 DEF vars, IInv, TypeOK, PositionsLatest, PositionsHaveTree,
     ServesLatest, Looping
<1>2. CASE \E p \in Proto : ProtocolInit(p) \/ \E d \in Direction : Enqueue(p, d)
  BY <1>2, InitStep, EnqueueStep
<1>3. CASE \E l \in Layer : \/ BeginPanics(l)
                            \/ \E d \in Direction, sc \in Score : Begin(l, d, sc)
  BY <1>3, BeginStep, PanicStep DEF BeginPanics
<1>4. CASE LoopTest
  BY <1>4, LoopTestStep
<1>5. CASE Counted \/ NotCounted
  <2>1. pc = "serve" /\ call.score > 0
    BY <1>5 DEF Counted, NotCounted, Process, ScoreLeft
  <2>2. call \in Call
    BY <2>1 DEF IInv, TypeOK, Call
  <2>3. call.score \in Nat /\ call.score - 1 \in Nat
    BY <2>1, <2>2 DEF Call
  <2> QED BY <1>5, <2>3, ProcessStep DEF Counted, NotCounted
<1>6. CASE NextProto
  BY <1>6, NextProtoStep
<1>7. CASE NextPanics
  BY <1>7, PanicStep DEF NextPanics
<1> QED BY <1>1, <1>2, <1>3, <1>4, <1>5, <1>6, <1>7 DEF Next, LoopStep

LEMMA SpecIInv == Spec => []IInv
BY InitIInv, NextIInv, PTL DEF Spec

(* The variables of package protocol keep their types: in particular a     *)
(* call of ProtocolLoop that goes on has a protocol to serve, never a nil  *)
(* or LEAF node (protocol_impl.go:128-158).                                *)
THEOREM TypeCorrect == Spec => []TypeOK
<1>1. IInv => TypeOK
  BY DEF IInv
<1> QED BY <1>1, SpecIInv, PTL

(* Through any registrations, in any order and any layers, a loop over     *)
(* datalink or network starts at the protocol that the layer's tree has    *)
(* and serves no other one: the resets of protocol_impl.go:55-61 leave no  *)
(* position of an earlier tree that a later tree of that layer could meet. *)
THEOREM LatestServed == Spec => []ServesLatest
<1>1. IInv => ServesLatest
  BY DEF IInv
<1> QED BY <1>1, SpecIInv, PTL
=============================================================================
