------------------------------- MODULE RBTree -------------------------------
(***************************************************************************)
(* Package rbtree: a red-black tree of linked nodes, used by one goroutine. *)
(* A call is split at the iterations of the two loops that restore the     *)
(* colours, so that what they do to a tree is seen one round at a time.    *)
(*                                                                         *)
(* "left" and "right" are data: where the source has a branch and its      *)
(* mirror image (rbtree.go:346 and 363, 390 and 417), there is one action  *)
(* and the side is a parameter.                                            *)
(***************************************************************************)
EXTENDS Integers, FiniteSets

CONSTANTS
  Key,             \* keyValues
  Compare(_, _),   \* tree.Compare: negative, zero or positive
  Deletable,       \* keys the caller deletes
  Node,            \* nodes rbPool.Alloc can return; bounds the tree's size
  LEAF, Nil

Ptr == Node \cup {LEAF}
Side == {"left", "right"}

ASSUME PointerAssumption == LEAF \notin Node /\ Nil \notin Ptr /\ LEAF # Nil
ASSUME DeletableAssumption == Deletable \subseteq Key
ASSUME CompareAssumption ==
  \A a, b \in Key : /\ Compare(a, b) \in Int
                    /\ Compare(a, b) = 0 <=> a = b
                    /\ Compare(a, b) < 0 <=> Compare(b, a) > 0
                    /\ \A c \in Key : Compare(a, b) < 0 /\ Compare(b, c) < 0
                                         => Compare(a, c) < 0
ASSUME NodeAssumption == IsFiniteSet(Node)

VARIABLES
  t,       \* the tree and its nodes: [root, key, parent, child, color]
  free,    \* nodes rbPool has to give
  pc,      \* "idle", "insertFix", "deleteFix", "free", or "panic"
  node,    \* the loop variable of fixInsertCollisions, fixDeleteCollisions
  doomed,  \* Delete's local variable delete
  call     \* the last call, its key and whether the key was there

vars == <<t, free, pc, node, doomed, call>>

-----------------------------------------------------------------------------
(* Searching and walking *)

(* The node where a loop n = next[n] ends.                                 *)
Follow(next, n) ==
  LET go[m \in Node] == IF next[m] \in Node THEN go[next[m]] ELSE m
  IN go[n]

FindNode(k) ==
  LET next == [n \in Node |->
                 LET result == Compare(t.key[n], k)
                 IN IF result = 0 THEN Nil
                    ELSE t.child[IF result < 0 THEN "right" ELSE "left"][n]]
      last == Follow(next, t.root)
  IN IF t.root # LEAF /\ Compare(t.key[last], k) = 0 THEN last ELSE Nil

(* the last_node of Insert *)
Toward(k, n) == IF Compare(k, t.key[n]) < 0 THEN "left" ELSE "right"
LastNode(k) == IF t.root = LEAF THEN LEAF
               ELSE Follow([n \in Node |-> t.child[Toward(k, n)][n]], t.root)

(* TreeFirstNode, TreeLastNode of a subtree that is not LEAF *)
Outermost(n, side) == Follow(t.child[side], n)

IsChild(n, side) == t.parent[n] # LEAF /\ n = t.child[side][t.parent[n]]

(* TreeNext goes to the right and then left; TreePrev is its mirror image. *)
Beside(n, side, other) ==
  LET up == [m \in Node |-> IF IsChild(m, side) THEN t.parent[m] ELSE LEAF]
  IN IF t.child[side][n] # LEAF THEN Outermost(t.child[side][n], other)
     ELSE t.parent[Follow(up, n)]
TreeNext(n) == Beside(n, "right", "left")
TreePrev(n) == Beside(n, "left", "right")

-----------------------------------------------------------------------------
(* Linking: each returns the tree after the assignments *)

Other(side) == IF side = "left" THEN "right" ELSE "left"
SideOf(u, n) == IF n = u.child["left"][u.parent[n]] THEN "left" ELSE "right"
SetParent(u, n, p) == IF n = LEAF THEN u ELSE [u EXCEPT !.parent[n] = p]
Paint(u, n, c) == [u EXCEPT !.color[n] = c]
Relink(u, side, n, c, m, p) == [u EXCEPT !.child[side][n] = c, !.parent[m] = p]

(* Faults, here and below: what a definition could have been by mistake;   *)
(* the checks put each in the place of the definition it precedes.         *)
(* b takes the place of a under a's parent, or as the root.                *)
RootKept(u, a, b) ==
  IF u.parent[a] = LEAF THEN u
  ELSE [u EXCEPT !.child[SideOf(u, a)][u.parent[a]] = b]
Hang(u, a, b) ==
  IF u.parent[a] = LEAF
  THEN [u EXCEPT !.root = b]
  ELSE [u EXCEPT !.child[SideOf(u, a)][u.parent[a]] = b]

ParentKept(u, a, b) == Hang(u, a, b)
switchNodes(u, a, b) == SetParent(Hang(u, a, b), b, u.parent[a])

(* rotateToLeft, rotateToRight: the latter overwrites the missing child    *)
(* of node before it returns.                                              *)
Rotate(u, n, side) ==
  LET temp  == u.child[Other(side)][n]
      inner == u.child[side][temp]
      moved == SetParent(Relink(u, Other(side), n, inner, temp, u.parent[n]), inner, n)
  IN IF temp = LEAF
     THEN IF side = "left" THEN u ELSE [u EXCEPT !.child["left"][n] = u.child["right"][LEAF]]
     ELSE Relink(Hang(moved, n, temp), side, temp, n, n, temp)

(* "by default every new node is red" *)
BlackNode == "black"
NodeColor == "red"

(* createNode, and the connections Insert makes                            *)
Link(n, k) ==
  LET p == LastNode(k)
      u == [t EXCEPT !.key[n] = k, !.parent[n] = p, !.child["left"][n] = LEAF,
                     !.child["right"][n] = LEAF, !.color[n] = NodeColor]
  IN IF p = LEAF THEN [u EXCEPT !.root = n]
     ELSE [u EXCEPT !.child[Toward(k, p)][p] = n]

(* min.color = ltemp.color at the end of deleteNode                        *)
OwnColor(d, min) == t.color[min]
NewColor(d, min) == t.color[d]

(* deleteNode: min, the successor of d, takes d's place and colour.        *)
deleteNode(d, min) ==
  LET right == t.child["right"][min]
      out == switchNodes(t, min, right)
      u == IF t.parent[min] = d /\ right # LEAF
           THEN SetParent(t, right, min)
           ELSE SetParent([out EXCEPT !.child["right"][min] = out.child["right"][d]],
                          out.child["right"][d], min)
  IN SetParent([switchNodes(u, d, min) EXCEPT !.child["left"][min] = u.child["left"][d],
                                              !.color[min] = NewColor(d, min)],
               u.child["left"][d], min)

(* deleteCheckSwitch: the tree without d, the node that moved up (temp),   *)
(* and the colour that the tree has lost.                                  *)
Removed(d) ==
  LET left == t.child["left"][d]
      right == t.child["right"][d]
      only == IF left = LEAF THEN right ELSE left
      min == Outermost(right, "left")
  IN IF left = LEAF \/ right = LEAF
     THEN [tree |-> switchNodes(t, d, only), temp |-> only, color |-> t.color[d]]
     ELSE [tree |-> deleteNode(d, min), temp |-> t.child["right"][min],
           color |-> t.color[min]]

-----------------------------------------------------------------------------
NoCall == [op |-> "none"]
Calls == [op : {"Insert", "Delete", "Find"}, key : Key, found : BOOLEAN]

TypeOK ==
  /\ t \in [root : Ptr, key : [Node -> Key \cup {Nil}],
            parent : [Ptr -> Ptr \cup {Nil}],
            child : [Side -> [Ptr -> Ptr \cup {Nil}]],
            color : [Ptr -> {"red", "black"}]]
  /\ free \subseteq Node
  /\ pc \in {"idle", "insertFix", "deleteFix", "free", "panic"}
  /\ node \in Ptr
  /\ doomed \in Ptr
  /\ call \in Calls \cup {NoCall}

Init ==
  /\ t = [root |-> LEAF, key |-> [n \in Node |-> Nil],
          parent |-> [n \in Ptr |-> Nil],
          child |-> [s \in Side |-> [n \in Ptr |-> Nil]],
          color |-> [n \in Ptr |-> "black"]]
  /\ free = Node
  /\ pc = "idle" /\ node = LEAF /\ doomed = LEAF
  /\ call = NoCall

Begin(op, k) ==
  /\ pc = "idle"
  /\ call' = [op |-> op, key |-> k, found |-> FindNode(k) # Nil]

(* FindNode, FindKey *)
Find(k) == Begin("Find", k) /\ UNCHANGED <<t, free, pc, node, doomed>>

-----------------------------------------------------------------------------
(* Insert *)

InsertPresent(k) ==
  /\ Begin("Insert", k) /\ FindNode(k) # Nil
  /\ UNCHANGED <<t, free, pc, node, doomed>>

(* n is the node that rbPool.Alloc returns.                                *)
InsertNew(k, n) ==
  /\ Begin("Insert", k) /\ FindNode(k) = Nil
  /\ n \in free /\ free' = free \ {n}
  /\ t' = Link(n, k)
  /\ node' = n
  /\ pc' = "insertFix"
  /\ UNCHANGED doomed

(* One round of fixInsertCollisions: node and its parent p are red.        *)
RedParent ==
  LET p == t.parent[node] IN t.color[p] = "red" /\ t.parent[p] # LEAF

InsertRecolour ==
  LET p == t.parent[node]
      g == t.parent[p]
      temp == t.child[Other(SideOf(t, p))][g]
  IN /\ pc = "insertFix" /\ RedParent
     /\ t.color[temp] = "red"
     /\ t' = Paint(Paint(Paint(t, p, "black"), temp, "black"), g, "red")
     /\ node' = g
     /\ UNCHANGED <<free, pc, doomed, call>>

InsertRotate ==
  LET p == t.parent[node]
      g == t.parent[p]
      s == SideOf(t, p)
      Straighten == node = t.child[Other(s)][p]
      u == IF Straighten THEN Rotate(t, p, s) ELSE t
      n == IF Straighten THEN p ELSE node
  IN /\ pc = "insertFix" /\ RedParent
     /\ t.color[t.child[Other(s)][g]] = "black"
     /\ t' = Rotate(Paint(Paint(u, u.parent[n], "black"), g, "red"),
                    g, Other(s))
     /\ node' = n
     /\ UNCHANGED <<free, pc, doomed, call>>

InsertEnd ==
  /\ pc = "insertFix" /\ ~RedParent
  /\ t' = Paint(t, t.root, "black")
  /\ pc' = "idle" /\ node' = LEAF
  /\ UNCHANGED <<free, doomed, call>>

-----------------------------------------------------------------------------
(* Delete *)

DeleteAbsent(k) ==
  /\ Begin("Delete", k) /\ FindNode(k) = Nil
  /\ UNCHANGED <<t, free, pc, node, doomed>>

DeletePresent(k) ==
  /\ Begin("Delete", k) /\ FindNode(k) # Nil
  /\ LET d == FindNode(k)
         removed == Removed(d)
     IN /\ t' = removed.tree
        /\ doomed' = d
        /\ node' = removed.temp
        /\ pc' = IF removed.color = "black" THEN "deleteFix" ELSE "free"
  /\ UNCHANGED free

(* One round of fixDeleteCollisions: the paths through node are one black  *)
(* node short.  temp is its sibling, made black by a rotation if need be.  *)
ShortLeaf == node # t.root /\ t.color[node] = "black"
Short == node # t.root /\ t.color[node] = "black" /\ node # LEAF

BlackSibling ==
  LET p == t.parent[node]
      s == SideOf(t, node)
      temp == t.child[Other(s)][p]
      u == IF t.color[temp] = "red"
           THEN Rotate(Paint(Paint(t, temp, "black"), p, "red"), p, s)
           ELSE t
  IN [tree |-> u, p |-> p, side |-> s, temp |-> u.child[Other(s)][p]]

(* temp is LEAF, whose children are nil: temp.leftChild.color panics.      *)
DeleteNoSibling ==
  /\ pc = "deleteFix" /\ Short
  /\ BlackSibling.temp = LEAF
  /\ pc' = "panic"
  /\ UNCHANGED <<t, free, node, doomed, call>>

DeleteRecolour ==
  LET b == BlackSibling
      u == b.tree
  IN /\ pc = "deleteFix" /\ Short
     /\ b.temp # LEAF
     /\ \A s \in Side : u.color[u.child[s][b.temp]] = "black"
     /\ t' = Paint(u, b.temp, "red")
     /\ node' = u.parent[node]
     /\ UNCHANGED <<free, pc, doomed, call>>

(* Where the near child of temp is the red one, temp is turned over; the   *)
(* source then takes temp.parent's child on that side, which is temp.      *)
Turn == LET b == BlackSibling
        IN b.tree.color[b.tree.child[Other(b.side)][b.temp]] = "black"

FarKept(u, temp, far) == u
PaintFar(u, temp, far) == Paint(u, u.child[far][temp], "black")

DeleteRotate ==
  LET b == BlackSibling
      u == b.tree
      near == b.side
      far == Other(near)
      v == IF Turn
           THEN Rotate(Paint(Paint(u, u.child[near][b.temp], "black"), b.temp, "red"),
                       b.temp, far)
           ELSE u
      temp == IF Turn THEN v.child[far][v.parent[b.temp]] ELSE b.temp
      w == Paint(Paint(v, temp, v.color[b.p]), b.p, "black")
      x == Rotate(PaintFar(w, temp, far), b.p, near)
  IN /\ pc = "deleteFix" /\ Short
     /\ b.temp # LEAF
     /\ \E s \in Side : u.color[u.child[s][b.temp]] = "red"
     /\ t' = x
     /\ node' = x.root
     /\ UNCHANGED <<free, pc, doomed, call>>

DeleteFixed ==
  /\ pc = "deleteFix" /\ ~Short
  /\ t' = Paint(t, node, "black")
  /\ pc' = "free"
  /\ UNCHANGED <<free, node, doomed, call>>

(* RBNodeFree.  The memory keeps its contents; createNode overwrites all   *)
(* of them, and Linked says nothing points there, so they are forgotten.   *)
Forget(u, n) ==
  [u EXCEPT !.key[n] = Nil, !.parent[n] = Nil, !.child["left"][n] = Nil,
            !.child["right"][n] = Nil, !.color[n] = "black"]
NotFreed == UNCHANGED <<free, t>>
FreesTemp == free' = free \cup {node} /\ UNCHANGED t
RBNodeFree == free' = free \cup {doomed} /\ t' = Forget(t, doomed)

DeleteEnd ==
  /\ pc = "free"
  /\ RBNodeFree
  /\ pc' = "idle" /\ node' = LEAF /\ doomed' = LEAF
  /\ UNCHANGED call

-----------------------------------------------------------------------------
Step == \/ InsertRecolour \/ InsertRotate \/ InsertEnd
        \/ DeleteNoSibling \/ DeleteRecolour \/ DeleteRotate \/ DeleteFixed
        \/ DeleteEnd

Next ==
  \/ \E k \in Key : \/ Find(k) \/ InsertPresent(k)
                   \/ \E n \in free : InsertNew(k, n)
  \/ \E k \in Deletable : DeleteAbsent(k) \/ DeletePresent(k)
  \/ Step

Spec == Init /\ [][Next]_vars

-----------------------------------------------------------------------------
(* Properties *)

Below(n) ==
  LET all[m \in Ptr \cup {Nil}] ==
        IF m \notin Node THEN {}
        ELSE {m} \cup all[t.child["left"][m]] \cup all[t.child["right"][m]]
  IN all[n]
InTree == Below(t.root)
KeysOf(S) == {t.key[n] : n \in S}

(* In every round of every call the tree is a search tree: a child hangs   *)
(* under its parent and has it as parent, keys are in order.               *)
SearchTree ==
  /\ t.root # LEAF => t.parent[t.root] = LEAF
  /\ \A n \in InTree :
       /\ \A s \in Side : t.child[s][n] # LEAF => t.parent[t.child[s][n]] = n
       /\ \A k \in KeysOf(Below(t.child["left"][n])) : Compare(k, t.key[n]) < 0
       /\ \A k \in KeysOf(Below(t.child["right"][n])) : Compare(k, t.key[n]) > 0

(* A node is in the tree, in the pool, or being deleted, and only one of   *)
(* these: no node of the tree is freed (rbtree.go:270), none is lost.      *)
NodesAccounted ==
  /\ InTree \cap free = {} /\ doomed \notin InTree \cup free
  /\ Node \subseteq InTree \cup free \cup {doomed}

Idle == pc = "idle"
NoRedPair == \A n \in InTree : t.color[n] = "red" =>
               \A s \in Side : t.color[t.child[s][n]] = "black"
(* All paths of u have as many black nodes, if x is counted once more.     *)
EvenWith(u, x) ==
  LET one(b) == IF b THEN 1 ELSE 0
      bh[m \in Ptr \cup {Nil}] ==
        IF m \notin Node THEN {0}
        ELSE {h + one(u.color[m] = "black") + one(m = x) :
              h \in bh[u.child["left"][m]] \cup bh[u.child["right"][m]]}
  IN Cardinality(bh[u.root]) = 1
SameBlackHeight == EvenWith(t, Nil)

(* No round of an Insert makes paths differ in their black nodes. With     *)
(* RedsApart: a tree that was red-black before an Insert is so after it    *)
(* (rbtree.go:342-384).                                                    *)
InsertKeepsHeights ==
  [][call'.op = "Insert" /\ SameBlackHeight => SameBlackHeight']_vars

(* Whatever was deleted, between calls the root is black and "if a node is *)
(* red his children must be black" (rbtree.go:340).                        *)
RedsApart == Idle => t.color[t.root] = "black" /\ NoRedPair

(* Delete leaves every path with as many black nodes as it was with:       *)
(* rbtree.go:265 sees that taking out a black node breaks this, and calls  *)
(* fixDeleteCollisions for it.                                             *)
BlackPathsKept == Idle => SameBlackHeight

(* What is short after a node is taken out (deleteCheckSwitch,             *)
(* rbtree.go:274-317) is what Delete takes it to be: nothing, if the       *)
(* colour returned is red, and if not the paths through temp, by one.      *)
ShortAtNode ==
  [][Idle /\ SameBlackHeight
       => /\ pc' = "free" => SameBlackHeight'
          /\ pc' = "deleteFix" /\ node' # LEAF => EvenWith(t', node')]_vars

(* The loop of fixDeleteCollisions is never entered for a tree that was    *)
(* red-black: rbtree.go:389 stops at LEAF, which is all that takes the     *)
(* place of a black node there when it has no red child.  So the panic at  *)
(* line 400 needs a tree that an earlier Delete has left unbalanced.       *)
IsRedBlack == /\ t.color[t.root] = "black" /\ NoRedPair /\ SameBlackHeight
LoopIsSkipped == [][Idle /\ IsRedBlack /\ pc' = "deleteFix" => ~Short']_vars

(* Once the loop is entered, a round is right: if all paths are even when  *)
(* node is counted twice, they are after it, for the node of the next      *)
(* round or, at the end, for none.  Left uneven are only the trees where   *)
(* line 389 stops at LEAF, and those where temp was turned over under a    *)
(* red parent: rbtree.go:408 and 434 then take temp again, and not the     *)
(* node now above it, to give it the parent's colour.                      *)
TurnUnderRed ==
  Short /\ BlackSibling.temp # LEAF
        /\ BlackSibling.tree.color[BlackSibling.p] = "red" /\ Turn
RoundsMend ==
  [][pc = "deleteFix" /\ node # LEAF /\ EvenWith(t, node) /\ ~TurnUnderRed
       => EvenWith(t', IF pc' = "deleteFix" THEN node' ELSE Nil)]_vars

(* TreeNext and TreePrev go through the keys in order and end at LEAF.     *)
WalksInOrder ==
  Idle => \A n \in InTree :
    LET above == {m \in InTree : Compare(t.key[m], t.key[n]) > 0}
        below == {m \in InTree : Compare(t.key[m], t.key[n]) < 0}
    IN /\ IF above = {} THEN TreeNext(n) = LEAF
          ELSE /\ TreeNext(n) \in above
               /\ \A m \in above : Compare(t.key[TreeNext(n)], t.key[m]) <= 0
       /\ IF below = {} THEN TreePrev(n) = LEAF
          ELSE /\ TreePrev(n) \in below
               /\ \A m \in below : Compare(t.key[TreePrev(n)], t.key[m]) >= 0

(* To its caller the tree is a set: each call answers for, and changes,    *)
(* exactly the key it names (FindKey, Insert and Delete, rbtree.go:170,    *)
(* 194, 250), through all rotations and moves of nodes.                    *)
KS == INSTANCE KeySet WITH keys <- KeysOf(InTree)
IsAKeySet == KS!Spec
=============================================================================
