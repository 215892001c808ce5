---------------------------- MODULE RBTreeProofs ----------------------------
(***************************************************************************)
(* What package rbtree does to its trees, for every set of keys, every     *)
(* linear order on them and every finite pool of nodes.                    *)
(***************************************************************************)
EXTENDS RBTree, FiniteSetTheorems, WellFoundedInduction, TLAPS

(* The nodes that are linked, and what it is for them to be a tree u whose *)
(* subtree at n has the nodes B[n].  Only neighbours are related, so that  *)
(* a change of a few links is a change of a few conditions.                *)
Linked == Node \ (free \cup {doomed})

Tree == [root : Ptr, key : [Node -> Key \cup {Nil}],
         parent : [Ptr -> Ptr \cup {Nil}],
         child : [Side -> [Ptr -> Ptr \cup {Nil}]],
         color : [Ptr -> {"red", "black"}]]

Before(s, a, b) == IF s = "left" THEN Compare(a, b) < 0 ELSE Compare(a, b) > 0

Hung(u, S, n) ==
  /\ \A s \in Side : u.child[s][n] \in S \cup {LEAF}
  /\ \A s \in Side : u.child[s][n] # LEAF => u.parent[u.child[s][n]] = n
  /\ u.parent[n] \in S \cup {LEAF}
  /\ u.parent[n] = LEAF <=> n = u.root
  /\ u.parent[n] # LEAF => \E s \in Side : u.child[s][u.parent[n]] = n

Nested(u, B, n) ==
  /\ B[n] = {n} \cup B[u.child["left"][n]] \cup B[u.child["right"][n]]
  /\ B[u.child["left"][n]] \cap B[u.child["right"][n]] = {}
  /\ \A s \in Side : n \notin B[u.child[s][n]]

Sorted(u, B, n) ==
  /\ u.key[n] \in Key
  /\ \A s \in Side : \A m \in B[u.child[s][n]] : Before(s, u.key[m], u.key[n])

Good(u, S, B) ==
  /\ S \subseteq Node
  /\ B \in [Ptr -> SUBSET S] /\ B[LEAF] = {}
  /\ u.root \in S \cup {LEAF} /\ B[u.root] = S
  /\ \A n \in S : Hung(u, S, n) /\ Nested(u, B, n) /\ Sorted(u, B, n)

-----------------------------------------------------------------------------
(* The order of the keys *)

LEMMA Sides ==
  ASSUME NEW s \in Side
  PROVE  /\ Other(s) \in Side /\ Other(s) # s /\ Other(Other(s)) = s
         /\ \A r \in Side : r = s \/ r = Other(s)
BY DEF Side, Other

LEMMA BeforeFacts ==
  ASSUME NEW s \in Side, NEW a \in Key, NEW b \in Key
  PROVE  /\ Before(s, a, b) <=> Before(Other(s), b, a)
         /\ ~(Before(s, a, b) /\ Before(Other(s), a, b))
         /\ ~Before(s, a, a)
         /\ a # b => Before(s, a, b) \/ Before(Other(s), a, b)
         /\ \A c \in Key : Before(s, a, b) /\ Before(s, b, c) => Before(s, a, c)
<1>1. /\ Compare(a, b) \in Int /\ Compare(b, a) \in Int
      /\ Compare(a, b) = 0 <=> a = b
      /\ Compare(a, b) < 0 <=> Compare(b, a) > 0
      /\ Compare(b, a) < 0 <=> Compare(a, b) > 0
      /\ Compare(a, a) = 0
  BY CompareAssumption
<1>2. s = "left" \/ s = "right"
  BY DEF Side
<1>3. ASSUME NEW c \in Key, Before(s, a, b), Before(s, b, c)
      PROVE  Before(s, a, c)
  <2>1. /\ Compare(a, b) < 0 /\ Compare(b, c) < 0 => Compare(a, c) < 0
        /\ Compare(c, b) < 0 /\ Compare(b, a) < 0 => Compare(c, a) < 0
        /\ Compare(b, c) < 0 <=> Compare(c, b) > 0
        /\ Compare(c, b) < 0 <=> Compare(b, c) > 0
        /\ Compare(a, c) < 0 <=> Compare(c, a) > 0
        /\ Compare(c, a) < 0 <=> Compare(a, c) > 0
    BY CompareAssumption
  <2> QED BY <1>1, <1>2, <1>3, <2>1 DEF Before
<1> QED BY <1>1, <1>2, <1>3 DEF Before, Other

-----------------------------------------------------------------------------
(* Neighbours *)

LEMMA Neighbours ==
  ASSUME NEW u, NEW S, NEW B, Good(u, S, B), NEW n \in S, NEW s \in Side
  PROVE  LET c == u.child[s][n]
             o == u.child[Other(s)][n]
         IN /\ n \in B[n] /\ n \notin B[c] /\ n \notin B[o]
            /\ B[n] = {n} \cup B[c] \cup B[o]
            /\ B[c] \cap B[o] = {}
            /\ c \in S \cup {LEAF} /\ c # n
            /\ c # LEAF => c \in B[c] /\ u.parent[c] = n /\ c # o
            /\ \A m \in B[c] : Before(s, u.key[m], u.key[n])
            /\ u.key[n] \in Key
<1> DEFINE c == u.child[s][n]
           o == u.child[Other(s)][n]
<1>1. Hung(u, S, n) /\ Nested(u, B, n) /\ Sorted(u, B, n)
  BY DEF Good
<1>2. B[n] = {n} \cup B[c] \cup B[o] /\ B[c] \cap B[o] = {}
  BY <1>1 DEF Nested, Side, Other
<1>3. n \notin B[c] /\ n \notin B[o] /\ n \in B[n]
  BY <1>1, <1>2, Sides DEF Nested
<1>4. c \in S \cup {LEAF} /\ (c # LEAF => u.parent[c] = n)
  BY <1>1 DEF Hung
<1>5. c # LEAF => c \in B[c]
  <2>1. c # LEAF => Nested(u, B, c)
    BY <1>4 DEF Good
  <2> QED BY <2>1 DEF Nested
<1>6. c # LEAF => c # o /\ c # n
  BY <1>2, <1>3, <1>5
<1>7. c # n
  <2>1. LEAF # n
    BY PointerAssumption DEF Good
  <2> QED BY <1>6, <2>1
<1>8. /\ \A m \in B[c] : Before(s, u.key[m], u.key[n])
      /\ u.key[n] \in Key
  BY <1>1 DEF Sorted
<1> QED BY <1>2, <1>3, <1>4, <1>5, <1>6, <1>7, <1>8

(* A node has one parent, and is one of its children.                      *)
LEMMA OneParent ==
  ASSUME NEW u, NEW S, NEW B, Good(u, S, B), NEW n \in S, NEW s \in Side,
         NEW m \in S, NEW r \in Side, u.child[s][n] # LEAF,
         u.child[r][m] = u.child[s][n]
  PROVE  m = n /\ r = s
<1>1. u.parent[u.child[s][n]] = n /\ u.parent[u.child[r][m]] = m
  BY Neighbours
<1>2. u.child[s][n] # u.child[Other(s)][n]
  BY Neighbours
<1> QED BY <1>1, <1>2, Sides

LEMMA SideOfIs ==
  ASSUME NEW u, NEW S, NEW B, Good(u, S, B), NEW n \in S, u.parent[n] # LEAF
  PROVE  /\ SideOf(u, n) \in Side /\ u.parent[n] \in S
         /\ u.child[SideOf(u, n)][u.parent[n]] = n
         /\ \A m \in S, s \in Side :
              u.child[s][m] = n => m = u.parent[n] /\ s = SideOf(u, n)
<1>1. Hung(u, S, n)
  BY DEF Good
<1>2. u.parent[n] \in S /\ SideOf(u, n) \in Side
      /\ u.child[SideOf(u, n)][u.parent[n]] = n
  BY <1>1 DEF Hung, SideOf, Side
<1>3. n # LEAF
  BY PointerAssumption DEF Good
<1> QED BY <1>2, <1>3, OneParent

-----------------------------------------------------------------------------
(* Induction along the links *)

LEMMA Least ==
  ASSUME NEW T \in SUBSET Nat, T # {}
  PROVE  \E x \in T : \A y \in T : x <= y
<1> DEFINE R == OpToRel(<, Nat)
<1>1. PICK x \in T : \A y \in T : ~(<<y, x>> \in R)
  <2>1. IsWellFoundedOn(R, Nat)
    BY NatLessThanWellFounded
  <2> HIDE DEF R
  <2> QED BY <2>1, WFMin
<1>2. ASSUME NEW y \in T PROVE x <= y
  <2>1. ~(y < x)
    BY <1>1 DEF OpToRel
  <2> QED BY <2>1
<1> QED BY <1>2

LEMMA Sizes ==
  ASSUME NEW u, NEW S, NEW B, Good(u, S, B), NEW n \in S
  PROVE  /\ Cardinality(B[n]) \in Nat
         /\ IsFiniteSet(S) /\ Cardinality(S) \in Nat
         /\ Cardinality(B[n]) <= Cardinality(S)
         /\ \A s \in Side :
              /\ Cardinality(B[u.child[s][n]]) \in Nat
              /\ Cardinality(B[u.child[s][n]]) < Cardinality(B[n])
<1>1. IsFiniteSet(S)
  BY NodeAssumption, FS_Subset DEF Good
<1>2. B[n] \in SUBSET S
  <2>1. n \in Ptr /\ B \in [Ptr -> SUBSET S]
    BY DEF Good, Ptr
  <2> QED BY <2>1
<1>3. /\ IsFiniteSet(B[n]) /\ Cardinality(B[n]) \in Nat
      /\ Cardinality(B[n]) <= Cardinality(S) /\ Cardinality(S) \in Nat
  BY <1>1, <1>2, FS_Subset, FS_CardinalityType
<1>4. ASSUME NEW s \in Side
      PROVE  /\ Cardinality(B[u.child[s][n]]) \in Nat
             /\ Cardinality(B[u.child[s][n]]) < Cardinality(B[n])
  <2> DEFINE C == B[u.child[s][n]]
  <2>1. C \in SUBSET B[n] /\ C # B[n]
    BY Neighbours
  <2> HIDE DEF C
  <2>2. /\ IsFiniteSet(C) /\ Cardinality(C) <= Cardinality(B[n])
        /\ Cardinality(C) # Cardinality(B[n])
    BY <1>3, <2>1, FS_Subset
  <2>3. Cardinality(C) \in Nat
    BY <2>2, FS_CardinalityType
  <2> QED BY <1>3, <2>2, <2>3 DEF C
<1> QED BY <1>1, <1>3, <1>4

(* What holds of a node when it does of its children holds of all.         *)
LEMMA UpFromLeaves ==
  ASSUME NEW u, NEW S, NEW B, Good(u, S, B), NEW T \in SUBSET S,
         \A n \in S : (\A s \in Side : u.child[s][n] \in S => u.child[s][n] \in T)
                        => n \in T
  PROVE  T = S
<1> SUFFICES ASSUME S \ T # {} PROVE FALSE
  OBVIOUS
<1> DEFINE sizes == {Cardinality(B[n]) : n \in S \ T}
<1>1. sizes \in SUBSET Nat /\ sizes # {}
  BY Sizes
<1>2. PICK k \in sizes : \A j \in sizes : k <= j
  BY <1>1, Least
<1>3. PICK n \in S \ T : k = Cardinality(B[n])
  BY <1>2
<1>4. ASSUME NEW s \in Side, u.child[s][n] \in S PROVE u.child[s][n] \in T
  <2>1. /\ Cardinality(B[u.child[s][n]]) < Cardinality(B[n])
        /\ Cardinality(B[u.child[s][n]]) \in Nat /\ Cardinality(B[n]) \in Nat
    BY Sizes
  <2>2. u.child[s][n] \notin T => Cardinality(B[u.child[s][n]]) \in sizes
    BY <1>4
  <2> HIDE DEF sizes
  <2> QED BY <1>2, <1>3, <2>1, <2>2
<1> QED BY <1>3, <1>4

(* And what holds of a node when it does of its parent.                    *)
LEMMA DownFromRoot ==
  ASSUME NEW u, NEW S, NEW B, Good(u, S, B), NEW T \in SUBSET S,
         \A n \in S : (n = u.root \/ u.parent[n] \in T) => n \in T
  PROVE  T = S
<1> SUFFICES ASSUME S \ T # {} PROVE FALSE
  OBVIOUS
<1> DEFINE sizes == {Cardinality(S) - Cardinality(B[n]) : n \in S \ T}
<1>1. sizes \in SUBSET Nat /\ sizes # {}
  <2>1. ASSUME NEW n \in S PROVE Cardinality(S) - Cardinality(B[n]) \in Nat
    BY Sizes
  <2> QED BY <2>1
<1>2. PICK k \in sizes : \A j \in sizes : k <= j
  BY <1>1, Least
<1>3. PICK n \in S \ T : k = Cardinality(S) - Cardinality(B[n])
  BY <1>2
<1>4. n # u.root
  BY <1>3
<1>5. u.parent[n] # LEAF
  BY <1>4 DEF Good, Hung
<1> DEFINE p == u.parent[n]
<1>6. p \in S /\ SideOf(u, n) \in Side /\ u.child[SideOf(u, n)][p] = n
  BY <1>5, SideOfIs
<1>7. p \notin T
  BY <1>3
<1>8. /\ Cardinality(B[n]) < Cardinality(B[p])
      /\ Cardinality(B[n]) \in Nat /\ Cardinality(B[p]) \in Nat
      /\ Cardinality(S) \in Nat
  BY <1>6, Sizes
<1>9. Cardinality(S) - Cardinality(B[p]) \in sizes
  BY <1>6, <1>7
<1> HIDE DEF sizes, p
<1> QED BY <1>2, <1>3, <1>8, <1>9

(* The subtree of a node of a subtree is part of it, and of every node but *)
(* the topmost of a subtree the parent is in it.                           *)
LEMMA Subtrees ==
  ASSUME NEW u, NEW S, NEW B, Good(u, S, B), NEW a \in S, NEW b \in B[a]
  PROVE  /\ b \in S /\ B[b] \subseteq B[a]
         /\ b # a => u.parent[b] \in B[a] /\ u.parent[b] \in S
<1> DEFINE T == {x \in S : \A y \in B[x] :
                    /\ y \in S /\ B[y] \subseteq B[x]
                    /\ y # x => u.parent[y] \in B[x] /\ u.parent[y] \in S}
<1>1. ASSUME NEW n \in S,
             \A s \in Side : u.child[s][n] \in S => u.child[s][n] \in T
      PROVE  n \in T
  <2> SUFFICES ASSUME NEW y \in B[n], y # n
               PROVE  /\ y \in S /\ B[y] \subseteq B[n]
                      /\ u.parent[y] \in B[n] /\ u.parent[y] \in S
    OBVIOUS
  <2>1. PICK s \in Side : y \in B[u.child[s][n]]
    <3>1. "left" \in Side
      BY DEF Side
    <3> QED BY <3>1, Neighbours, Sides
  <2> DEFINE c == u.child[s][n]
  <2>2. c \in S
    BY <2>1, Neighbours DEF Good
  <2>3. c \in T /\ y \in B[c]
    BY <1>1, <2>1, <2>2
  <2>4. /\ B[c] \subseteq B[n] /\ n \in B[n]
        /\ u.parent[c] = n
    BY <2>2, Neighbours, PointerAssumption DEF Good
  <2> QED BY <2>3, <2>4
<1>2. T = S
  <2> HIDE DEF T
  <2>1. T \in SUBSET S
    BY DEF T
  <2> QED BY <1>1, <2>1, UpFromLeaves
<1> QED BY <1>2

(* Of two nodes one is below the other or their paths part at a third.     *)
Parted(u, B, a, x, y) ==
  \E s \in Side : /\ x \in B[u.child[s][a]] \cup {a}
                  /\ y \in B[u.child[Other(s)][a]] \cup {a}

LEMMA PathsPart ==
  ASSUME NEW u, NEW S, NEW B, Good(u, S, B), NEW r \in S,
         NEW x \in B[r], NEW y \in B[r]
  PROVE  \E a \in B[r] : Parted(u, B, a, x, y)
<1> DEFINE T == {r0 \in S : \A x0, y0 \in B[r0] :
                    \E a \in B[r0] : Parted(u, B, a, x0, y0)}
<1>1. ASSUME NEW n \in S,
             \A s \in Side : u.child[s][n] \in S => u.child[s][n] \in T
      PROVE  n \in T
  <2> SUFFICES ASSUME NEW x0 \in B[n], NEW y0 \in B[n]
               PROVE  \E a \in B[n] : Parted(u, B, a, x0, y0)
    OBVIOUS
  <2> DEFINE c(s) == u.child[s][n]
  <2>1. n \in B[n] /\ "left" \in Side /\ "right" \in Side
        /\ Other("left") = "right" /\ Other("right") = "left"
    BY Neighbours DEF Side, Other
  <2>2. B[n] = {n} \cup B[c("left")] \cup B[c("right")]
    BY <2>1, Neighbours
  <2>3. CASE \E s \in Side : x0 \in B[c(s)] /\ y0 \in B[c(s)]
    <3>1. PICK s \in Side : x0 \in B[c(s)] /\ y0 \in B[c(s)]
      BY <2>3
    <3>2. c(s) \in S /\ B[c(s)] \subseteq B[n]
      BY <3>1, Neighbours DEF Good
    <3>3. c(s) \in T
      BY <1>1, <3>2
    <3> HIDE DEF c
    <3> QED BY <3>1, <3>2, <3>3
  <2>4. CASE ~\E s \in Side : x0 \in B[c(s)] /\ y0 \in B[c(s)]
    <3>1. Parted(u, B, n, x0, y0)
      BY <2>1, <2>2, <2>4 DEF Parted
    <3> QED BY <2>1, <3>1
  <2> QED BY <2>3, <2>4
<1>2. T = S
  <2> HIDE DEF T
  <2>1. T \in SUBSET S
    BY DEF T
  <2> QED BY <1>1, <2>1, UpFromLeaves
<1> QED BY <1>2

-----------------------------------------------------------------------------
(* Loops that follow links: where rank decreases along next, Follow ends at *)
(* a node of every set that next stays in, and next leads nowhere there.   *)
Ends(next, go) ==
  go = [m \in Node |-> IF next[m] \in Node THEN go[next[m]] ELSE m]

LEMMA FollowExists ==
  ASSUME NEW next, NEW rank \in [Node -> Nat], NEW top \in Nat,
         \A m \in Node : rank[m] <= top,
         \A m \in Node : next[m] \in Node => rank[next[m]] < rank[m]
  PROVE  \E go : Ends(next, go)
<1> DEFINE Upto(k) == \E go \in [Node -> Node] : \A m \in Node :
              rank[m] < k => go[m] = IF next[m] \in Node THEN go[next[m]] ELSE m
           bad == {k \in Nat : ~Upto(k)}
<1>1. Upto(0)
  <2>1. [m \in Node |-> m] \in [Node -> Node]
    OBVIOUS
  <2>2. \A m \in Node : ~(rank[m] < 0)
    OBVIOUS
  <2> QED BY <2>1, <2>2
<1>2. ASSUME NEW k \in Nat, Upto(k) PROVE Upto(k + 1)
  <2>1. PICK go \in [Node -> Node] : \A m \in Node :
           rank[m] < k => go[m] = IF next[m] \in Node THEN go[next[m]] ELSE m
    BY <1>2
  <2> DEFINE new == [m \in Node |-> IF next[m] \in Node THEN go[next[m]] ELSE m]
  <2>2. new \in [Node -> Node]
    BY <2>1
  <2>3. ASSUME NEW m \in Node, rank[m] < k + 1
        PROVE  new[m] = IF next[m] \in Node THEN new[next[m]] ELSE m
    <3>1. ASSUME next[m] \in Node PROVE go[next[m]] = new[next[m]]
      <4>1. rank[next[m]] < k
        <5>1. rank[next[m]] \in Nat /\ rank[m] \in Nat
          BY <3>1
        <5> QED BY <2>3, <3>1, <5>1
      <4> QED BY <2>1, <3>1, <4>1
    <3> QED BY <3>1
  <2> HIDE DEF new
  <2> QED BY <2>2, <2>3
<1>3. bad = {}
  <2> SUFFICES ASSUME bad # {} PROVE FALSE
    OBVIOUS
  <2>1. PICK k \in bad : \A j \in bad : k <= j
    <3> HIDE DEF Upto
    <3>1. bad \in SUBSET Nat
      OBVIOUS
    <3> QED BY <3>1, Least
  <2> HIDE DEF Upto
  <2>2. k # 0
    BY <1>1, <2>1
  <2>3. k - 1 \in Nat /\ k - 1 \notin bad
    BY <2>1, <2>2
  <2>4. Upto(k - 1 + 1)
    BY <1>2, <2>3
  <2>5. k - 1 + 1 = k
    BY <2>1
  <2> QED BY <2>1, <2>4, <2>5
<1>4. Upto(top + 1)
  <2> HIDE DEF Upto
  <2> QED BY <1>3
<1>5. PICK go \in [Node -> Node] : \A m \in Node :
         rank[m] < top + 1 => go[m] = IF next[m] \in Node THEN go[next[m]] ELSE m
  BY <1>4
<1>6. \A m \in Node : rank[m] < top + 1
  OBVIOUS
<1>7. go = [m \in Node |-> IF next[m] \in Node THEN go[next[m]] ELSE m]
  BY <1>5, <1>6
<1> QED BY <1>7 DEF Ends

LEMMA EndsIn ==
  ASSUME NEW next, NEW rank \in [Node -> Nat],
         \A m \in Node : next[m] \in Node => rank[next[m]] < rank[m],
         NEW go, Ends(next, go), NEW Q \in SUBSET Node,
         \A m \in Q : next[m] \in Node => next[m] \in Q, NEW n \in Q
  PROVE  go[n] \in Q /\ next[go[n]] \notin Node
<1> DEFINE Right(m) == go[m] \in Q /\ next[go[m]] \notin Node
           bad == {rank[m] : m \in {x \in Q : ~Right(x)}}
<1> SUFFICES ASSUME ~Right(n) PROVE FALSE
  OBVIOUS
<1>1. bad \in SUBSET Nat /\ bad # {}
  OBVIOUS
<1>2. PICK k \in bad : \A j \in bad : k <= j
  BY <1>1, Least
<1>3. PICK m \in Q : k = rank[m] /\ ~Right(m)
  BY <1>2
<1>4. go[m] = IF next[m] \in Node THEN go[next[m]] ELSE m
  BY DEF Ends
<1>5. next[m] \in Node
  BY <1>3, <1>4
<1>6. next[m] \in Q /\ ~Right(next[m])
  BY <1>3, <1>4, <1>5
<1>7. rank[next[m]] \in bad
  BY <1>6
<1>8. rank[next[m]] < rank[m] /\ rank[m] \in Nat /\ rank[next[m]] \in Nat
  BY <1>5
<1> HIDE DEF bad
<1> QED BY <1>2, <1>3, <1>7, <1>8

LEMMA FollowIn ==
  ASSUME NEW next, NEW rank \in [Node -> Nat], NEW top \in Nat,
         \A m \in Node : rank[m] <= top,
         \A m \in Node : next[m] \in Node => rank[next[m]] < rank[m],
         NEW Q \in SUBSET Node,
         \A m \in Q : next[m] \in Node => next[m] \in Q, NEW n \in Q
  PROVE  Follow(next, n) \in Q /\ next[Follow(next, n)] \notin Node
<1>1. \E go : Ends(next, go)
  BY FollowExists
<1>2. \E go : Ends(next, go) /\ Follow(next, n) = go[n]
  BY <1>1 DEF Follow, Ends
<1> QED BY <1>2, EndsIn

(* Unlinked nodes may still point into the tree, but not at one another.   *)
Outside(u, S) ==
  \A m \in Node \ S, s \in Side : u.child[s][m] \in S \cup {LEAF, Nil}

LEMMA FollowDown ==
  ASSUME NEW u, NEW S, NEW B, Good(u, S, B), Outside(u, S), NEW next,
         \A m \in Node : next[m] \in Node => \E s \in Side : next[m] = u.child[s][m],
         NEW Q \in SUBSET S,
         \A m \in Q : next[m] \in Node => next[m] \in Q, NEW n \in Q
  PROVE  Follow(next, n) \in Q /\ next[Follow(next, n)] \notin Node
<1> DEFINE top == Cardinality(Node) + 1
           rank == [m \in Node |-> IF m \in S THEN Cardinality(B[m]) ELSE top]
<1>1. Cardinality(Node) \in Nat /\ S \in SUBSET Node
  BY NodeAssumption, FS_CardinalityType DEF Good
<1>2. Cardinality(S) <= Cardinality(Node)
  BY <1>1, NodeAssumption, FS_Subset
<1>3. ASSUME NEW m \in S
      PROVE  Cardinality(B[m]) \in Nat /\ Cardinality(B[m]) < top
  <2>1. /\ Cardinality(B[m]) \in Nat /\ Cardinality(S) \in Nat
        /\ Cardinality(B[m]) <= Cardinality(S)
    BY Sizes
  <2> QED BY <1>1, <1>2, <2>1
<1>4. rank \in [Node -> Nat] /\ \A m \in Node : rank[m] <= top
  BY <1>1, <1>3
<1>5. ASSUME NEW m \in Node, next[m] \in Node PROVE rank[next[m]] < rank[m]
  <2>1. PICK s \in Side : next[m] = u.child[s][m]
    BY <1>5
  <2>2. next[m] \in S
    <3>1. u.child[s][m] \in S \cup {LEAF, Nil}
      BY Neighbours DEF Outside
    <3> QED BY <1>5, <2>1, <3>1, PointerAssumption DEF Ptr
  <2>3. CASE m \in S
    <3>1. Cardinality(B[u.child[s][m]]) < Cardinality(B[m])
      BY <2>3, Sizes
    <3> QED BY <2>1, <2>2, <2>3, <3>1, <1>1
  <2>4. CASE m \notin S
    BY <2>2, <2>4, <1>1, <1>3
  <2> QED BY <2>3, <2>4
<1> HIDE DEF rank
<1>6. Q \in SUBSET Node /\ top \in Nat
  BY <1>1
<1> HIDE DEF top
<1> QED BY <1>4, <1>5, <1>6, FollowIn

LEMMA FollowUp ==
  ASSUME NEW u, NEW S, NEW B, Good(u, S, B), NEW next,
         \A m \in Node : next[m] \in Node => m \in S /\ next[m] = u.parent[m],
         NEW Q \in SUBSET S,
         \A m \in Q : next[m] \in Node => next[m] \in Q, NEW n \in Q
  PROVE  Follow(next, n) \in Q /\ next[Follow(next, n)] \notin Node
<1> DEFINE top == Cardinality(S)
           rank == [m \in Node |-> IF m \in S THEN top - Cardinality(B[m]) ELSE 0]
<1>1. top \in Nat /\ S \in SUBSET Node
  BY Sizes DEF Good
<1>3. ASSUME NEW m \in S
      PROVE  top - Cardinality(B[m]) \in Nat /\ top - Cardinality(B[m]) <= top
  <2>1. /\ Cardinality(B[m]) \in Nat /\ Cardinality(S) \in Nat
        /\ Cardinality(B[m]) <= Cardinality(S)
    BY Sizes
  <2> QED BY <2>1
<1>4. rank \in [Node -> Nat] /\ \A m \in Node : rank[m] <= top
  BY <1>1, <1>3
<1>5. ASSUME NEW m \in Node, next[m] \in Node PROVE rank[next[m]] < rank[m]
  <2> DEFINE p == u.parent[m]
  <2>1. m \in S /\ next[m] = p /\ p # LEAF
    BY <1>5, PointerAssumption
  <2>2. p \in S /\ SideOf(u, m) \in Side /\ u.child[SideOf(u, m)][p] = m
    BY <2>1, SideOfIs
  <2>3. /\ Cardinality(B[m]) < Cardinality(B[p])
        /\ Cardinality(B[m]) \in Nat /\ Cardinality(B[p]) \in Nat
    BY <2>2, Sizes
  <2>4. rank[m] = top - Cardinality(B[m]) /\ rank[next[m]] = top - Cardinality(B[p])
    BY <1>1, <2>1, <2>2
  <2> HIDE DEF rank, top, p
  <2> QED BY <1>1, <2>3, <2>4
<1> HIDE DEF rank
<1>6. Q \in SUBSET Node /\ top \in Nat
  BY <1>1
<1> HIDE DEF top
<1> QED BY <1>4, <1>5, <1>6, FollowIn

-----------------------------------------------------------------------------
(* What the searches and walks return *)

LEMMA FindNodeIs ==
  ASSUME NEW S, NEW B, Good(t, S, B), Outside(t, S), NEW k \in Key
  PROVE  \/ FindNode(k) \in S /\ t.key[FindNode(k)] = k
            /\ \A m \in S : t.key[m] = k => m = FindNode(k)
         \/ FindNode(k) = Nil /\ \A m \in S : t.key[m] # k
<1> DEFINE next == [n \in Node |->
                 LET result == Compare(t.key[n], k)
                 IN IF result = 0 THEN Nil
                    ELSE t.child[IF result < 0 THEN "right" ELSE "left"][n]]
           last == Follow(next, t.root)
<1>1. FindNode(k) = IF t.root # LEAF /\ Compare(t.key[last], k) = 0 THEN last ELSE Nil
  BY DEF FindNode
<1>2. CASE t.root = LEAF
  <2>1. S = {}
    BY <1>2 DEF Good
  <2> QED BY <1>1, <1>2, <2>1
<1>3. CASE t.root # LEAF
  <2> DEFINE Q == {x \in S : \A m \in S : t.key[m] = k => m \in B[x]}
  <2>1. t.root \in Q
    BY <1>3 DEF Good
  <2>2. ASSUME NEW x \in Q, NEW m \in S, t.key[m] = k, Compare(t.key[x], k) # 0
        PROVE  \E s \in Side : next[x] = t.child[s][x] /\ m \in B[t.child[s][x]]
    <3>1. t.key[x] \in Key /\ Compare(t.key[x], k) \in Int
      BY CompareAssumption DEF Good, Sorted
    <3>2. x \in Node /\ m \in B[x] /\ m # x
      BY <2>2, CompareAssumption, <3>1 DEF Good
    <3> DEFINE s == IF Compare(t.key[x], k) < 0 THEN "right" ELSE "left"
    <3>3. s \in Side /\ next[x] = t.child[s][x]
      BY <2>2, <3>2 DEF Side
    <3>4. Compare(t.key[x], k) < 0 <=> Compare(k, t.key[x]) > 0
      BY <3>1, CompareAssumption
    <3>5. Compare(k, t.key[x]) < 0 <=> Compare(t.key[x], k) > 0
      BY <3>1, CompareAssumption
    <3>6. ~Before(Other(s), k, t.key[x])
      BY <2>2, <3>1, <3>4, <3>5, CompareAssumption DEF Before, Other
    <3>7. m \notin B[t.child[Other(s)][x]]
      BY <2>2, <3>3, <3>6, Sides DEF Good, Sorted
    <3>8. m \in B[t.child[s][x]]
      BY <3>2, <3>3, <3>7, Neighbours
    <3> QED BY <3>3, <3>8
  <2>3. ASSUME NEW x \in Q, next[x] \in Node PROVE next[x] \in Q
    <3>1. Compare(t.key[x], k) # 0 /\ next[x] \in S
      BY <2>3, PointerAssumption DEF Good, Hung, Ptr, Side
    <3> HIDE DEF next
    <3> QED BY <2>2, <3>1
  <2>4. \A m \in Node : next[m] \in Node => \E s \in Side : next[m] = t.child[s][m]
    BY PointerAssumption DEF Ptr, Side
  <2>5. last \in Q /\ next[last] \notin Node
    <3> HIDE DEF next, Q
    <3>1. Q \in SUBSET S
      BY DEF Q
    <3>2. \A m \in Q : next[m] \in Node => next[m] \in Q
      BY <2>3
    <3>3. Follow(next, t.root) \in Q /\ next[Follow(next, t.root)] \notin Node
      BY <2>1, <2>4, <3>1, <3>2, FollowDown, SMTT(30)
    <3> QED BY <3>3
  <2> HIDE DEF next, last
  <2>6. t.key[last] \in Key
    BY <2>5 DEF Good, Sorted
  <2>7. CASE Compare(t.key[last], k) = 0
    <3>1. t.key[last] = k
      BY <2>6, <2>7, CompareAssumption
    <3>2. ASSUME NEW m \in S, t.key[m] = k, m # last PROVE FALSE
      <4>1. m \in B[last]
        BY <2>5, <3>2
      <4>2. PICK s \in Side : m \in B[t.child[s][last]]
        <5>1. "left" \in Side
          BY DEF Side
        <5>2. last \in S
          BY <2>5
        <5> QED BY <3>2, <4>1, <5>1, <5>2, Neighbours, Sides
      <4>3. Before(s, k, k)
        <5>1. last \in S
          BY <2>5
        <5> QED BY <3>1, <3>2, <4>2, <5>1, Neighbours
      <4> QED BY <4>3, BeforeFacts
    <3> HIDE DEF Q
    <3> QED BY <1>1, <1>3, <2>5, <2>7, <3>1, <3>2 DEF Q
  <2>8. CASE Compare(t.key[last], k) # 0
    <3>1. ASSUME NEW m \in S, t.key[m] = k PROVE FALSE
      <4>1. PICK s \in Side : next[last] = t.child[s][last] /\ m \in B[t.child[s][last]]
        BY <2>2, <2>5, <2>8, <3>1
      <4>2. t.child[s][last] \in S
        <5>1. last \in S
          BY <2>5
        <5> QED BY <4>1, <5>1, Neighbours DEF Good
      <4>3. S \subseteq Node
        BY DEF Good
      <4> QED BY <2>5, <4>1, <4>2, <4>3
    <3> QED BY <1>1, <2>8, <3>1
  <2> QED BY <2>7, <2>8
<1> QED BY <1>2, <1>3

LEMMA TowardIs ==
  ASSUME NEW k \in Key, NEW x, t.key[x] \in Key, t.key[x] # k
  PROVE  Toward(k, x) \in Side /\ Before(Toward(k, x), k, t.key[x])
<1>1. "left" \in Side /\ "right" \in Side /\ Other("left") = "right"
  BY DEF Side, Other
<1>2. Before("left", k, t.key[x]) \/ Before("right", k, t.key[x])
  BY <1>1, BeforeFacts
<1>3. Before("left", k, t.key[x]) <=> Compare(k, t.key[x]) < 0
  BY DEF Before
<1> QED BY <1>1, <1>2, <1>3 DEF Toward

(* Where a new key belongs: at the side of last_node that has no child,    *)
(* and there it is between the same keys as everything linked there.       *)
LEMMA LastNodeIs ==
  ASSUME NEW S, NEW B, Good(t, S, B), Outside(t, S), NEW k \in Key,
         \A m \in S : t.key[m] # k
  PROVE  LET p == LastNode(k)
         IN \/ p = LEAF /\ t.root = LEAF
            \/ /\ t.root # LEAF /\ p \in S /\ Toward(k, p) \in Side
               /\ t.child[Toward(k, p)][p] = LEAF
               /\ Before(Toward(k, p), k, t.key[p])
               /\ \A m \in S, s \in Side :
                    p \in B[t.child[s][m]] => Before(s, k, t.key[m])
<1>1. CASE t.root = LEAF
  BY <1>1 DEF LastNode
<1>2. CASE t.root # LEAF
  <2> DEFINE next == [n \in Node |-> t.child[Toward(k, n)][n]]
             last == Follow(next, t.root)
             Q == {x \in S : \A m \in S, s \in Side :
                     x \in B[t.child[s][m]] => Before(s, k, t.key[m])}
  <2>1. t.root \in Q
    <3>1. t.root \in S
      BY <1>2 DEF Good
    <3>2. ASSUME NEW m \in S, NEW s \in Side, t.root \in B[t.child[s][m]]
          PROVE  FALSE
      <4>1. t.child[s][m] \in S
        BY <3>2, Neighbours DEF Good
      <4>2. B[t.root] \subseteq B[t.child[s][m]]
        BY <3>2, <4>1, Subtrees
      <4>3. m \in B[t.root] /\ m \notin B[t.child[s][m]]
        BY Neighbours DEF Good
      <4> QED BY <4>2, <4>3
    <3> QED BY <3>1, <3>2
  <2>2. ASSUME NEW x \in S
        PROVE  /\ Toward(k, x) \in Side /\ Before(Toward(k, x), k, t.key[x])
               /\ next[x] = t.child[Toward(k, x)][x]
    BY TowardIs DEF Good, Sorted
  <2> HIDE DEF next
  <2>3. ASSUME NEW x \in Q, next[x] \in Node PROVE next[x] \in Q
    <3> DEFINE r == Toward(k, x)
               y == next[x]
    <3>1. x \in S /\ r \in Side /\ y = t.child[r][x] /\ Before(r, k, t.key[x])
      BY <2>2
    <3>2. y \in S /\ t.parent[y] = x /\ y # LEAF
      <4> HIDE DEF r
      <4> QED BY <2>3, <3>1, Neighbours, PointerAssumption
    <3> HIDE DEF y, r
    <3>3. ASSUME NEW m \in S, NEW s \in Side, y \in B[t.child[s][m]]
          PROVE  Before(s, k, t.key[m])
      <4>1. CASE m = x
        <5>1. y \in B[y] /\ B[y] \cap B[t.child[Other(r)][x]] = {}
          BY <3>1, <3>2, Neighbours
        <5>2. s = r
          BY <3>1, <3>3, <4>1, <5>1, Sides
        <5> QED BY <3>1, <4>1, <5>2
      <4>2. CASE m # x
        <5> DEFINE c == t.child[s][m]
        <5>1. c \in S
          BY <3>3, Neighbours DEF Good
        <5>2. y # c
          BY <3>2, <4>2, Neighbours
        <5>3. x \in B[c]
          BY <3>2, <3>3, <5>1, <5>2, Subtrees
        <5> QED BY <5>3
      <4> QED BY <4>1, <4>2
    <3>4. y \in Q
      BY <3>2, <3>3
    <3> QED BY <3>4 DEF y
  <2>4. \A m \in Node : next[m] \in Node => \E s \in Side : next[m] = t.child[s][m]
    BY DEF next, Toward, Side
  <2>5. Follow(next, t.root) \in Q /\ next[Follow(next, t.root)] \notin Node
    <3>1. Q \in SUBSET S /\ \A m \in Q : next[m] \in Node => next[m] \in Q
      BY <2>3
    <3> HIDE DEF Q
    <3> QED BY <2>1, <2>4, <3>1, FollowDown, SMTT(30)
  <2>6. LastNode(k) = last
    BY <1>2 DEF LastNode, next
  <2> HIDE DEF last
  <2>7. last \in S /\ next[last] \notin Node
    BY <2>5 DEF last
  <2>8. \A m \in S, s \in Side :
          last \in B[t.child[s][m]] => Before(s, k, t.key[m])
    BY <2>5 DEF last
  <2>9. t.child[Toward(k, last)][last] = LEAF
    BY <2>2, <2>7 DEF Good, Hung
  <2> QED BY <1>2, <2>2, <2>6, <2>7, <2>8, <2>9
<1> QED BY <1>1, <1>2

(* The node of a subtree that is before all others on a side.              *)
LEMMA OutermostIs ==
  ASSUME NEW S, NEW B, Good(t, S, B), Outside(t, S), NEW r \in S,
         NEW s \in Side
  PROVE  LET x == Outermost(r, s)
         IN /\ x \in B[r] /\ x \in S /\ t.child[s][x] = LEAF
            /\ \A y \in B[r] : y = x \/ Before(s, t.key[x], t.key[y])
<1> DEFINE Q == {x \in B[r] : \A y \in B[r] : y \in B[x] \/ Before(s, t.key[x], t.key[y])}
           next == t.child[s]
<1>1. B[r] \subseteq S /\ S \subseteq Node /\ r \in B[r]
  BY Subtrees, Neighbours DEF Good
<1>2. ASSUME NEW x \in B[r], NEW y \in B[x]
      PROVE  /\ x \in S /\ y \in S
             /\ y = x \/ y \in B[t.child[s][x]] \/ y \in B[t.child[Other(s)][x]]
             /\ y \in B[t.child[Other(s)][x]] => Before(s, t.key[x], t.key[y])
  <2>1. x \in S /\ y \in S
    BY <1>1, <1>2, Subtrees
  <2>2. Other(s) \in Side
    BY Sides
  <2>3. y = x \/ y \in B[t.child[s][x]] \/ y \in B[t.child[Other(s)][x]]
    BY <2>1, Neighbours
  <2>4. y \in B[t.child[Other(s)][x]] => Before(Other(s), t.key[y], t.key[x])
    BY <2>1, <2>2, Neighbours
  <2>5. t.key[x] \in Key /\ t.key[y] \in Key
    BY <2>1, <2>2, Neighbours
  <2> QED BY <2>1, <2>3, <2>4, <2>5, BeforeFacts
<1>3. r \in Q
  BY <1>1
<1>4. ASSUME NEW x \in Q, next[x] \in Node PROVE next[x] \in Q
  <2>1. x \in S /\ x \in B[r]
    BY <1>1
  <2> DEFINE z == next[x]
  <2>2. z \in S /\ z \in B[z] /\ z \in B[x] /\ Before(s, t.key[z], t.key[x])
    BY <1>4, <2>1, Neighbours, PointerAssumption
  <2>3. z \in B[r]
    BY <2>1, <2>2, Subtrees
  <2>4. t.key[z] \in Key /\ t.key[x] \in Key
    BY <2>1, <2>2 DEF Good, Sorted
  <2>5. ASSUME NEW y \in B[r] PROVE y \in B[z] \/ Before(s, t.key[z], t.key[y])
    <3>1. t.key[y] \in Key
      BY <1>1 DEF Good, Sorted
    <3>2. y \in B[x] \/ Before(s, t.key[x], t.key[y])
      OBVIOUS
    <3>3. y \in B[x] => y = x \/ y \in B[z] \/ Before(s, t.key[x], t.key[y])
      BY <1>2, <2>1
    <3> HIDE DEF z
    <3> QED BY <2>2, <2>4, <3>1, <3>2, <3>3, BeforeFacts
  <2> HIDE DEF next
  <2> QED BY <2>3, <2>5
<1>5. Outermost(r, s) \in Q /\ next[Outermost(r, s)] \notin Node
  <2>1. \A m \in Node : next[m] \in Node => \E o \in Side : next[m] = t.child[o][m]
    OBVIOUS
  <2>2. Q \in SUBSET S /\ \A m \in Q : next[m] \in Node => next[m] \in Q
    BY <1>1, <1>4
  <2> HIDE DEF Q, next
  <2>3. Follow(next, r) \in Q /\ next[Follow(next, r)] \notin Node
    BY <1>3, <2>1, <2>2, FollowDown, SMTT(30)
  <2> QED BY <2>3 DEF Outermost, next
<1> DEFINE x == Outermost(r, s)
<1> HIDE DEF x
<1>6. /\ x \in B[r] /\ x \in S /\ t.child[s][x] \notin Node
      /\ \A y \in B[r] : y \in B[x] \/ Before(s, t.key[x], t.key[y])
  BY <1>1, <1>5 DEF x
<1>7. t.child[s][x] = LEAF
  BY <1>1, <1>6 DEF Good, Hung
<1>8. ASSUME NEW y \in B[r] PROVE y = x \/ Before(s, t.key[x], t.key[y])
  <2>1. B[t.child[s][x]] = {}
    BY <1>7 DEF Good
  <2> QED BY <1>2, <1>6, <2>1
<1> QED BY <1>6, <1>7, <1>8 DEF x

-----------------------------------------------------------------------------
(* Below is what the links say: from every child of a linked node, B.      *)
Collects(all) ==
  all = [m \in Ptr \cup {Nil} |->
           IF m \notin Node THEN {}
           ELSE {m} \cup all[t.child["left"][m]] \cup all[t.child["right"][m]]]

LEMMA CollectExists ==
  ASSUME NEW S, NEW B, Good(t, S, B), Outside(t, S)
  PROVE  \E all : Collects(all)
<1> DEFINE in(m) == IF m \in S THEN B[m] ELSE {}
           c(s, m) == t.child[s][m]
           g == [m \in Ptr \cup {Nil} |->
                   IF m \in S THEN B[m]
                   ELSE IF m \in Node THEN {m} \cup in(c("left", m)) \cup in(c("right", m))
                   ELSE {}]
<1>1. ASSUME NEW m \in Node, NEW s \in Side
      PROVE  c(s, m) \in Ptr \cup {Nil} /\ g[c(s, m)] = in(c(s, m))
  <2>1. c(s, m) \in S \cup {LEAF, Nil}
    BY Neighbours DEF Outside
  <2>2. S \subseteq Node /\ LEAF \notin Node /\ Nil \notin Node
    BY PointerAssumption DEF Good, Ptr
  <2> HIDE DEF c
  <2> QED BY <2>1, <2>2 DEF Ptr
<1>2. ASSUME NEW m \in S
      PROVE  B[m] = {m} \cup in(c("left", m)) \cup in(c("right", m))
  <2>1. B[m] = {m} \cup B[c("left", m)] \cup B[c("right", m)]
    BY DEF Good, Nested
  <2>2. ASSUME NEW s \in Side PROVE B[c(s, m)] = in(c(s, m))
    <3>1. c(s, m) \in S \cup {LEAF} /\ B[LEAF] = {} /\ LEAF \notin S
      BY PointerAssumption DEF Good, Hung
    <3> HIDE DEF c
    <3> QED BY <3>1
  <2> HIDE DEF in, c
  <2> QED BY <2>1, <2>2 DEF Side
<1>3. S \subseteq Node
  BY DEF Good
<1>4. ASSUME NEW m \in Ptr \cup {Nil}
      PROVE  g[m] = IF m \notin Node THEN {}
                    ELSE {m} \cup g[c("left", m)] \cup g[c("right", m)]
  <2>1. CASE m \notin Node
    BY <1>3, <2>1
  <2>2. CASE m \in Node
    <3>1. g[c("left", m)] = in(c("left", m)) /\ g[c("right", m)] = in(c("right", m))
      BY <1>1, <2>2 DEF Side
    <3>2. g[m] = {m} \cup in(c("left", m)) \cup in(c("right", m))
      BY <1>2, <2>2
    <3> HIDE DEF in, c, g
    <3> QED BY <2>2, <3>1, <3>2
  <2> QED BY <2>1, <2>2
<1>5. g = [m \in Ptr \cup {Nil} |->
             IF m \notin Node THEN {} ELSE {m} \cup g[c("left", m)] \cup g[c("right", m)]]
  <2>1. g = [m \in Ptr \cup {Nil} |-> g[m]]
    OBVIOUS
  <2> HIDE DEF g
  <2> QED BY <1>4, <2>1
<1>6. Collects(g)
  <2> HIDE DEF g
  <2> QED BY <1>5 DEF Collects
<1> QED BY <1>6

LEMMA CollectsB ==
  ASSUME NEW S, NEW B, Good(t, S, B), NEW all, Collects(all)
  PROVE  \A n \in S \cup {LEAF} : all[n] = B[n]
<1> DEFINE T == {n \in S : all[n] = B[n]}
<1>0. S \subseteq Node /\ LEAF \notin Node /\ B[LEAF] = {}
  BY PointerAssumption DEF Good
<1>1. all[LEAF] = {}
  BY PointerAssumption DEF Collects, Ptr
<1>2. ASSUME NEW n \in S,
             \A s \in Side : t.child[s][n] \in S => t.child[s][n] \in T
      PROVE  n \in T
  <2>1. \A s \in Side : all[t.child[s][n]] = B[t.child[s][n]]
    <3> SUFFICES ASSUME NEW s \in Side PROVE all[t.child[s][n]] = B[t.child[s][n]]
      OBVIOUS
    <3>1. t.child[s][n] \in S \cup {LEAF}
      BY <1>2, Neighbours
    <3> QED BY <1>0, <1>1, <1>2, <3>1
  <2>2. all[n] = {n} \cup all[t.child["left"][n]] \cup all[t.child["right"][n]]
    BY <1>0 DEF Collects, Ptr
  <2>3. B[n] = {n} \cup B[t.child["left"][n]] \cup B[t.child["right"][n]]
    BY DEF Good, Nested
  <2>4. "left" \in Side /\ "right" \in Side
    BY DEF Side
  <2> QED BY <2>1, <2>2, <2>3, <2>4
<1>3. T = S
  <2>1. T \in SUBSET S
    OBVIOUS
  <2> HIDE DEF T
  <2> QED BY <1>2, <2>1, UpFromLeaves
<1> QED BY <1>0, <1>1, <1>3

LEMMA BelowIs ==
  ASSUME NEW S, NEW B, Good(t, S, B), Outside(t, S)
  PROVE  /\ \A n \in S \cup {LEAF} : Below(n) = B[n]
         /\ InTree = S
<1>1. ASSUME NEW n \in S \cup {LEAF} PROVE Below(n) = B[n]
  <2>1. \E all : Collects(all) /\ Below(n) = all[n]
    BY CollectExists DEF Below, Collects
  <2> QED BY <2>1, CollectsB
<1>2. InTree = S
  BY <1>1 DEF InTree, Good
<1> QED BY <1>1, <1>2

(* What a tree means for the properties.                                   *)
LEMMA GoodIsSearchTree ==
  ASSUME NEW S, NEW B, Good(t, S, B), Outside(t, S)
  PROVE  SearchTree
<1>1. t.root # LEAF => t.parent[t.root] = LEAF
  BY DEF Good, Hung
<1>2. ASSUME NEW n \in InTree
      PROVE  /\ \A s \in Side : t.child[s][n] # LEAF => t.parent[t.child[s][n]] = n
             /\ \A k \in KeysOf(Below(t.child["left"][n])) : Compare(k, t.key[n]) < 0
             /\ \A k \in KeysOf(Below(t.child["right"][n])) : Compare(k, t.key[n]) > 0
  <2>1. n \in S
    BY BelowIs
  <2>2. \A s \in Side : t.child[s][n] # LEAF => t.parent[t.child[s][n]] = n
    BY <2>1, Neighbours
  <2>3. \A s \in Side : Below(t.child[s][n]) = B[t.child[s][n]]
    BY <2>1, Neighbours, BelowIs
  <2>4. \A s \in Side : \A m \in B[t.child[s][n]] : Before(s, t.key[m], t.key[n])
    BY <2>1, Neighbours
  <2>5. "left" \in Side /\ "right" \in Side
    BY DEF Side
  <2>6. \A k \in KeysOf(Below(t.child["left"][n])) : Compare(k, t.key[n]) < 0
    <3>1. \A m \in Below(t.child["left"][n]) : Compare(t.key[m], t.key[n]) < 0
      BY <2>3, <2>4, <2>5 DEF Before
    <3> QED BY <3>1 DEF KeysOf
  <2>7. \A k \in KeysOf(Below(t.child["right"][n])) : Compare(k, t.key[n]) > 0
    <3>1. \A m \in Below(t.child["right"][n]) : Compare(t.key[m], t.key[n]) > 0
      BY <2>3, <2>4, <2>5 DEF Before
    <3> QED BY <3>1 DEF KeysOf
  <2> QED BY <2>2, <2>6, <2>7
<1> QED BY <1>1, <1>2 DEF SearchTree

-----------------------------------------------------------------------------
(* Assignments: what each leaves of a tree *)

(* v is u but for some links.                                              *)
ChildIs(v, u, s, n, x) ==
  \A r \in Side, m \in Ptr :
    v.child[r][m] = IF r = s /\ m = n THEN x ELSE u.child[r][m]
ParentIs(v, u, n, p) ==
  \A m \in Ptr : v.parent[m] = IF m = n THEN p ELSE u.parent[m]

LEMMA SetChild ==
  ASSUME NEW u \in Tree, NEW s \in Side, NEW n \in Ptr, NEW x \in Ptr \cup {Nil}
  PROVE  LET v == [u EXCEPT !.child[s][n] = x]
         IN /\ v \in Tree /\ ChildIs(v, u, s, n, x)
            /\ v.root = u.root /\ v.key = u.key /\ v.parent = u.parent
            /\ v.color = u.color
BY DEF Tree, ChildIs

LEMMA SetBoth ==
  ASSUME NEW u \in Tree, NEW s \in Side, NEW n \in Ptr, NEW x \in Ptr \cup {Nil},
         NEW c \in Ptr, NEW p \in Ptr \cup {Nil}
  PROVE  LET v == Relink(u, s, n, x, c, p)
         IN /\ v \in Tree /\ ChildIs(v, u, s, n, x) /\ ParentIs(v, u, c, p)
            /\ v.root = u.root /\ v.key = u.key /\ v.color = u.color
BY DEF Relink, Tree, ChildIs, ParentIs

LEMMA SetParentField ==
  ASSUME NEW u \in Tree, NEW n \in Ptr, NEW p \in Ptr \cup {Nil}
  PROVE  LET v == [u EXCEPT !.parent[n] = p]
         IN /\ v \in Tree /\ ParentIs(v, u, n, p)
            /\ v.root = u.root /\ v.key = u.key /\ v.child = u.child
            /\ v.color = u.color
BY DEF Tree, ParentIs

LEMMA SetRoot ==
  ASSUME NEW u \in Tree, NEW x \in Ptr
  PROVE  LET v == [u EXCEPT !.root = x]
         IN /\ v \in Tree /\ v.root = x /\ v.key = u.key /\ v.parent = u.parent
            /\ v.child = u.child /\ v.color = u.color
BY DEF Tree

LEMMA PaintIs ==
  ASSUME NEW u \in Tree, NEW n \in Ptr, NEW c \in {"red", "black"}
  PROVE  LET v == Paint(u, n, c)
         IN /\ v \in Tree /\ v.root = u.root /\ v.key = u.key
            /\ v.parent = u.parent /\ v.child = u.child
            /\ \A m \in Ptr : v.color[m] = IF m = n THEN c ELSE u.color[m]
BY DEF Tree, Paint

LEMMA SetParentIs ==
  ASSUME NEW u \in Tree, NEW n \in Ptr, NEW p \in Ptr \cup {Nil}
  PROVE  LET v == SetParent(u, n, p)
         IN /\ v \in Tree /\ v.root = u.root /\ v.key = u.key
            /\ v.child = u.child /\ v.color = u.color
            /\ \A m \in Ptr :
                 v.parent[m] = IF m = n /\ n # LEAF THEN p ELSE u.parent[m]
BY SetParentField DEF SetParent, ParentIs

LEMMA HangIs ==
  ASSUME NEW u \in Tree, NEW a \in Ptr, NEW b \in Ptr, u.parent[a] \in Ptr
  PROVE  LET v == Hang(u, a, b)
             p == u.parent[a]
         IN /\ v \in Tree /\ v.key = u.key /\ v.parent = u.parent
            /\ v.color = u.color
            /\ v.root = IF p = LEAF THEN b ELSE u.root
            /\ \A r \in Side, m \in Ptr :
                 v.child[r][m] = IF p # LEAF /\ m = p /\ r = SideOf(u, a) THEN b
                                 ELSE u.child[r][m]
<1>1. SideOf(u, a) \in Side
  BY DEF SideOf, Side
<1>2. CASE u.parent[a] = LEAF
  BY <1>2, SetRoot DEF Hang
<1>3. CASE u.parent[a] # LEAF
  <2>1. Hang(u, a, b) = [u EXCEPT !.child[SideOf(u, a)][u.parent[a]] = b]
    BY <1>3 DEF Hang
  <2> HIDE DEF Hang
  <2> QED BY <1>1, <1>3, <2>1, SetChild DEF ChildIs
<1> QED BY <1>2, <1>3

LEMMA SwitchIs ==
  ASSUME NEW u \in Tree, NEW a \in Ptr, NEW b \in Ptr, u.parent[a] \in Ptr
  PROVE  LET v == switchNodes(u, a, b)
             p == u.parent[a]
         IN /\ v \in Tree /\ v.key = u.key /\ v.color = u.color
            /\ v.root = IF p = LEAF THEN b ELSE u.root
            /\ \A m \in Ptr :
                 v.parent[m] = IF m = b /\ b # LEAF THEN p ELSE u.parent[m]
            /\ \A r \in Side, m \in Ptr :
                 v.child[r][m] = IF p # LEAF /\ m = p /\ r = SideOf(u, a) THEN b
                                 ELSE u.child[r][m]
<1> DEFINE h == Hang(u, a, b)
<1>1. /\ h \in Tree /\ h.key = u.key /\ h.parent = u.parent /\ h.color = u.color
      /\ h.root = IF u.parent[a] = LEAF THEN b ELSE u.root
      /\ \A r \in Side, m \in Ptr :
           h.child[r][m] = IF u.parent[a] # LEAF /\ m = u.parent[a] /\ r = SideOf(u, a)
                           THEN b ELSE u.child[r][m]
  BY HangIs
<1>2. switchNodes(u, a, b) = SetParent(h, b, u.parent[a])
  BY DEF switchNodes
<1> DEFINE v == SetParent(h, b, u.parent[a])
<1> HIDE DEF h
<1>3. /\ v \in Tree /\ v.root = h.root /\ v.key = h.key
      /\ v.child = h.child /\ v.color = h.color
      /\ \A m \in Ptr :
           v.parent[m] = IF m = b /\ b # LEAF THEN u.parent[a] ELSE h.parent[m]
  <2>1. u.parent[a] \in Ptr \cup {Nil}
    OBVIOUS
  <2> QED BY <1>1, <2>1, SetParentIs
<1> HIDE DEF v
<1>4. switchNodes(u, a, b) = v
  BY <1>2 DEF v
<1> QED BY <1>1, <1>3, <1>4

(* A rotation moves a child of n, temp, into its place.                    *)
LEMMA RotateIs ==
  ASSUME NEW u \in Tree, NEW n \in Ptr \ {LEAF}, NEW s \in Side,
         u.child[Other(s)][n] \in Ptr \ {LEAF, n},
         u.child[s][u.child[Other(s)][n]] \in Ptr \ {n, u.child[Other(s)][n]},
         u.parent[n] \in Ptr \ {n, u.child[Other(s)][n]}
  PROVE  LET v == Rotate(u, n, s)
             o == Other(s)
             temp == u.child[o][n]
             inner == u.child[s][temp]
             p == u.parent[n]
         IN /\ v \in Tree /\ v.key = u.key /\ v.color = u.color
            /\ v.root = IF p = LEAF THEN temp ELSE u.root
            /\ \A m \in Ptr :
                 v.parent[m] = IF m = n THEN temp
                               ELSE IF m = temp THEN p
                               ELSE IF m = inner /\ inner # LEAF THEN n
                               ELSE u.parent[m]
            /\ \A r \in Side, m \in Ptr :
                 v.child[r][m] = IF m = temp /\ r = s THEN n
                                 ELSE IF m = n /\ r = o THEN inner
                                 ELSE IF p # LEAF /\ m = p /\ r = SideOf(u, n)
                                 THEN temp ELSE u.child[r][m]
<1> DEFINE o == Other(s)
           temp == u.child[o][n]
           inner == u.child[s][temp]
           p == u.parent[n]
<1>0. /\ temp \in Ptr /\ inner \in Ptr /\ p \in Ptr
      /\ temp # LEAF /\ n # temp /\ n # inner /\ temp # inner /\ p # n /\ p # temp
      /\ n # LEAF
  OBVIOUS
<1> DEFINE a == Relink(u, o, n, inner, temp, p)
           b == SetParent(a, inner, n)
           h == Hang(b, n, temp)
           x == Relink(h, s, temp, n, n, temp)
<1>1. o \in Side /\ o # s
  BY Sides
<1>2. Rotate(u, n, s) = x
  <2>1. temp # LEAF
    BY <1>0
  <2>2. Rotate(u, n, s) = IF temp # LEAF THEN x ELSE Rotate(u, n, s)
    BY DEF Rotate
  <2> HIDE DEF x, temp
  <2> QED BY <2>1, <2>2
<1>3. /\ inner \in Ptr \cup {Nil} /\ p \in Ptr \cup {Nil}
      /\ n \in Ptr \cup {Nil} /\ temp \in Ptr \cup {Nil}
  BY <1>0
<1>p. u.parent[n] = p
  OBVIOUS
<1> HIDE DEF o, temp, inner, p
<1>4. /\ a \in Tree /\ ChildIs(a, u, o, n, inner) /\ ParentIs(a, u, temp, p)
      /\ a.root = u.root /\ a.key = u.key /\ a.color = u.color
  BY <1>0, <1>1, <1>3, SetBoth
<1> HIDE DEF a
<1>5. /\ b \in Tree /\ b.root = a.root /\ b.key = a.key
      /\ b.child = a.child /\ b.color = a.color
      /\ \A m \in Ptr :
           b.parent[m] = IF m = inner /\ inner # LEAF THEN n ELSE a.parent[m]
  BY <1>0, <1>3, <1>4, SetParentIs
<1> HIDE DEF b
<1>6. b.parent[n] = p
  BY <1>0, <1>4, <1>5, <1>p DEF ParentIs
<1>7. /\ h \in Tree /\ h.key = b.key /\ h.parent = b.parent /\ h.color = b.color
      /\ h.root = IF p = LEAF THEN temp ELSE b.root
      /\ \A r \in Side, m \in Ptr :
           h.child[r][m] = IF p # LEAF /\ m = p /\ r = SideOf(b, n) THEN temp
                           ELSE b.child[r][m]
  BY <1>0, <1>5, <1>6, HangIs
<1>8. SideOf(b, n) = SideOf(u, n)
  <2>1. "left" \in Side
    BY DEF Side
  <2>2. b.child["left"][p] = u.child["left"][p]
    BY <1>0, <1>4, <1>5, <2>1 DEF ChildIs
  <2> QED BY <1>6, <1>p, <2>2 DEF SideOf
<1> HIDE DEF h
<1>9. /\ x \in Tree /\ ChildIs(x, h, s, temp, n) /\ ParentIs(x, h, n, temp)
      /\ x.root = h.root /\ x.key = h.key /\ x.color = h.color
  BY <1>0, <1>3, <1>7, SetBoth, SMTT(30)
<1> HIDE DEF x
<1>11. /\ x \in Tree /\ x.key = u.key /\ x.color = u.color
       /\ x.root = IF p = LEAF THEN temp ELSE u.root
  BY <1>0, <1>4, <1>5, <1>7, <1>9
<1>12. ASSUME NEW m \in Ptr
       PROVE  x.parent[m] = IF m = n THEN temp
                            ELSE IF m = temp THEN p
                            ELSE IF m = inner /\ inner # LEAF THEN n
                            ELSE u.parent[m]
  BY <1>0, <1>4, <1>5, <1>7, <1>9 DEF ParentIs
<1>13. ASSUME NEW r \in Side, NEW m \in Ptr
       PROVE  x.child[r][m] = IF m = temp /\ r = s THEN n
                              ELSE IF m = n /\ r = o THEN inner
                              ELSE IF p # LEAF /\ m = p /\ r = SideOf(u, n)
                              THEN temp ELSE u.child[r][m]
  <2>1. x.child[r][m] = IF r = s /\ m = temp THEN n ELSE h.child[r][m]
    BY <1>9 DEF ChildIs
  <2>2. h.child[r][m] = IF p # LEAF /\ m = p /\ r = SideOf(u, n) THEN temp
                        ELSE b.child[r][m]
    BY <1>7, <1>8
  <2>3. b.child[r][m] = IF r = o /\ m = n THEN inner ELSE u.child[r][m]
    BY <1>4, <1>5 DEF ChildIs
  <2> QED BY <1>0, <2>1, <2>2, <2>3
<1> QED BY <1>2, <1>11, <1>12, <1>13 DEF o, temp, inner, p

LEMMA RotateGood ==
  ASSUME NEW u \in Tree, NEW S, NEW B, Good(u, S, B), NEW n \in S, NEW s \in Side,
         u.child[Other(s)][n] # LEAF
  PROVE  LET v == Rotate(u, n, s)
             temp == u.child[Other(s)][n]
         IN /\ v \in Tree /\ v.key = u.key /\ v.color = u.color
            /\ \E C : Good(v, S, C)
            /\ Outside(u, S) => Outside(v, S)
            /\ \A m \in Node \ S, r \in Side : v.child[r][m] = u.child[r][m]
            /\ temp \in S /\ temp # n
            /\ v.root = IF n = u.root THEN temp ELSE u.root
            /\ v.parent[n] = temp /\ v.parent[temp] = u.parent[n]
            /\ v.child[s][temp] = n
            /\ v.child[Other(s)][temp] = u.child[Other(s)][temp]
            /\ v.child[s][n] = u.child[s][n]
            /\ v.child[Other(s)][n] = u.child[s][temp]
            /\ \A m \in S \ {n, temp}, r \in Side :
                 v.child[r][m] = IF u.child[r][m] = n THEN temp ELSE u.child[r][m]
<1> DEFINE o == Other(s)
           temp == u.child[o][n]
           inner == u.child[s][temp]
           p == u.parent[n]
           near == u.child[s][n]
           far == u.child[o][temp]
           v == Rotate(u, n, s)
           C == [B EXCEPT ![n] = {n} \cup B[inner] \cup B[near], ![temp] = B[n]]
<1>1. /\ S \subseteq Node /\ S \subseteq Ptr /\ LEAF \notin S /\ LEAF \in Ptr
      /\ B \in [Ptr -> SUBSET S] /\ B[LEAF] = {}
      /\ o \in Side /\ o # s /\ Other(o) = s /\ \A r \in Side : r = s \/ r = o
  BY PointerAssumption, Sides DEF Good, Ptr
<1>2. /\ temp \in S /\ temp # LEAF /\ temp # n /\ u.parent[temp] = n
      /\ near \in S \cup {LEAF} /\ near # n /\ near # temp
      /\ near # LEAF => u.parent[near] = n
      /\ n \notin B[temp] /\ n \notin B[near]
      /\ B[n] = {n} \cup B[near] \cup B[temp] /\ B[near] \cap B[temp] = {}
      /\ temp \in B[temp]
      /\ \A m \in B[near] : Before(s, u.key[m], u.key[n])
      /\ \A m \in B[temp] : Before(o, u.key[m], u.key[n])
      /\ u.key[n] \in Key
  BY <1>1, Neighbours
<1>3. /\ inner \in S \cup {LEAF} /\ inner # temp /\ far \in S \cup {LEAF} /\ far # temp
      /\ inner # LEAF => u.parent[inner] = temp /\ inner # far /\ inner \in B[inner]
      /\ far # LEAF => u.parent[far] = temp /\ far \in B[far]
      /\ temp \notin B[inner] /\ temp \notin B[far]
      /\ B[temp] = {temp} \cup B[inner] \cup B[far] /\ B[inner] \cap B[far] = {}
      /\ \A m \in B[inner] : Before(s, u.key[m], u.key[temp])
      /\ \A m \in B[far] : Before(o, u.key[m], u.key[temp])
      /\ u.key[temp] \in Key
  <2>1. temp \in S
    BY <1>2
  <2> HIDE DEF temp, o
  <2> QED BY <1>1, <2>1, Neighbours
<1>4. inner # n /\ far # n
  BY <1>1, <1>2, <1>3
<1>5. /\ p \in S \cup {LEAF} /\ p # n /\ p # temp
      /\ p = LEAF <=> n = u.root
  <2>1. Hung(u, S, n)
    BY DEF Good
  <2>2. p \in S \cup {LEAF} /\ (p = LEAF <=> n = u.root)
    BY <2>1 DEF Hung
  <2>3. p # LEAF => \E r \in Side : u.child[r][p] = n
    BY <2>1 DEF Hung
  <2>4. p \in S => p # n
    BY <2>3, <1>1, Neighbours
  <2>5. p # temp
    <3>1. \A r \in Side : u.child[r][temp] # n
      BY <1>1, <1>4
    <3> QED BY <2>3, <1>2, <3>1
  <2> QED BY <1>1, <2>2, <2>4, <2>5
<1>6. /\ v \in Tree /\ v.key = u.key /\ v.color = u.color
      /\ v.root = IF p = LEAF THEN temp ELSE u.root
      /\ \A m \in Ptr :
           v.parent[m] = IF m = n THEN temp
                         ELSE IF m = temp THEN p
                         ELSE IF m = inner /\ inner # LEAF THEN n
                         ELSE u.parent[m]
      /\ \A r \in Side, m \in Ptr :
           v.child[r][m] = IF m = temp /\ r = s THEN n
                           ELSE IF m = n /\ r = o THEN inner
                           ELSE IF p # LEAF /\ m = p /\ r = SideOf(u, n)
                           THEN temp ELSE u.child[r][m]
  <2>1. /\ n \in Ptr \ {LEAF} /\ temp \in Ptr \ {LEAF, n}
        /\ inner \in Ptr \ {n, temp} /\ p \in Ptr \ {n, temp}
    BY <1>1, <1>2, <1>3, <1>4, <1>5
  <2> QED BY <2>1, RotateIs
<1>7. /\ \A m \in S : m = u.root <=> u.parent[m] = LEAF
      /\ u.root \in S \cup {LEAF} /\ B[u.root] = S
  BY DEF Good, Hung
<1>8. \A m \in S, r \in Side :
        u.child[r][m] = n <=> p # LEAF /\ m = p /\ r = SideOf(u, n)
  <2>1. CASE p = LEAF
    <3>1. \A m \in S, r \in Side : u.child[r][m] # n
      BY <1>1, <1>5, <2>1, Neighbours
    <3> QED BY <2>1, <3>1
  <2>2. CASE p # LEAF
    BY <2>2, SideOfIs
  <2> QED BY <2>1, <2>2
<1>9. ASSUME NEW m \in S \ {n, temp}, NEW r \in Side
      PROVE  /\ u.child[r][m] \in (S \cup {LEAF}) \ {temp}
             /\ u.child[r][m] # LEAF => u.parent[u.child[r][m]] = m
  BY <1>2, Neighbours
<1> HIDE DEF v, o, temp, inner, p, near, far
<1>10. /\ v.child[s][temp] = n /\ v.child[o][temp] = far
       /\ v.child[s][n] = near /\ v.child[o][n] = inner
  BY <1>1, <1>2, <1>5, <1>6 DEF near, far
<1>11. ASSUME NEW m \in S \ {n, temp}, NEW r \in Side
       PROVE  v.child[r][m] = IF u.child[r][m] = n THEN temp ELSE u.child[r][m]
  BY <1>1, <1>6, <1>8
<1>12. /\ C \in [Ptr -> SUBSET S] /\ C[LEAF] = {}
       /\ C[n] = {n} \cup B[inner] \cup B[near] /\ C[temp] = B[n]
       /\ \A m \in Ptr \ {n, temp} : C[m] = B[m]
  <2>1. B[inner] \subseteq S /\ B[near] \subseteq S /\ B[n] \subseteq S
    BY <1>1, <1>2, <1>3
  <2> QED BY <1>1, <1>2, <2>1
<1> HIDE DEF C
<1>13. /\ C[near] = B[near] /\ C[inner] = B[inner] /\ C[far] = B[far]
  BY <1>1, <1>2, <1>3, <1>4, <1>12
<1>14. ASSUME NEW m \in S \ {n, temp}, NEW r \in Side
       PROVE  C[v.child[r][m]] = B[u.child[r][m]]
  BY <1>1, <1>9, <1>11, <1>12
<1>15. v.root \in S \cup {LEAF} /\ C[v.root] = S
  <2>1. CASE p = LEAF
    BY <1>2, <1>5, <1>6, <1>7, <1>12, <2>1
  <2>2. CASE p # LEAF
    <3>1. v.root = u.root /\ u.root # n
      BY <1>5, <1>6, <2>2
    <3>2. u.root # temp
      <4>1. n # LEAF
        BY <1>1
      <4> QED BY <1>2, <1>7, <4>1
    <3>3. u.root \in Ptr
      BY <1>1, <1>7
    <3> QED BY <1>7, <1>12, <3>1, <3>2, <3>3
  <2> QED BY <2>1, <2>2
<1>16. /\ Hung(v, S, n) /\ Hung(v, S, temp)
  <2>1. /\ v.parent[n] = temp /\ v.parent[temp] = p
        /\ inner # LEAF => v.parent[inner] = n
        /\ near # LEAF => v.parent[near] = n
        /\ far # LEAF => v.parent[far] = temp
    BY <1>1, <1>2, <1>3, <1>4, <1>5, <1>6
  <2>2. v.root # n /\ (v.root = temp <=> p = LEAF)
    BY <1>2, <1>5, <1>6, <1>7
  <2>3. Hung(v, S, n)
    <3>1. \A r \in Side : /\ v.child[r][n] \in S \cup {LEAF}
                          /\ v.child[r][n] # LEAF => v.parent[v.child[r][n]] = n
      BY <1>1, <1>2, <1>3, <1>10, <2>1
    <3> QED BY <1>2, <1>1, <1>10, <2>1, <2>2, <3>1 DEF Hung
  <2>4. Hung(v, S, temp)
    <3>1. \A r \in Side : /\ v.child[r][temp] \in S \cup {LEAF}
                          /\ v.child[r][temp] # LEAF => v.parent[v.child[r][temp]] = temp
      BY <1>1, <1>3, <1>10, <2>1
    <3>2. p # LEAF => v.child[SideOf(u, n)][p] = temp /\ SideOf(u, n) \in Side
      <4>1. SideOf(u, n) \in Side
        BY DEF SideOf, Side
      <4> QED BY <1>1, <1>5, <1>6, <4>1
    <3> QED BY <1>5, <2>1, <2>2, <3>1, <3>2 DEF Hung
  <2> QED BY <2>3, <2>4
<1>17. ASSUME NEW m \in S \ {n, temp} PROVE Hung(v, S, m)
  <2>0. Hung(u, S, m)
    BY DEF Good
  <2>1. ASSUME NEW r \in Side
        PROVE  /\ v.child[r][m] \in S \cup {LEAF}
               /\ v.child[r][m] # LEAF => v.parent[v.child[r][m]] = m
    <3>1. CASE u.child[r][m] = n
      <4>1. m = p
        BY <1>8, <3>1
      <4> QED BY <1>1, <1>2, <1>6, <1>11, <3>1, <4>1
    <3>2. CASE u.child[r][m] # n
      <4>1. v.child[r][m] = u.child[r][m] /\ u.child[r][m] # temp
        BY <1>9, <1>11, <3>2
      <4>2. u.child[r][m] # LEAF => u.child[r][m] # inner
        BY <1>3, <1>9
      <4>3. u.child[r][m] \in S \cup {LEAF}
        BY <1>9
      <4> QED BY <1>1, <1>6, <1>9, <3>2, <4>1, <4>2, <4>3
    <3> QED BY <3>1, <3>2
  <2>2. CASE m = inner
    <3>1. m # LEAF /\ m # u.root /\ v.parent[m] = n
      BY <1>1, <1>2, <1>3, <1>6, <1>7, <2>2
    <3>2. v.root # m
      BY <1>6, <3>1
    <3> QED BY <1>1, <1>10, <2>1, <2>2, <3>1, <3>2 DEF Hung
  <2>3. CASE m # inner
    <3> DEFINE q == u.parent[m]
    <3>1. v.parent[m] = q /\ m # LEAF
      BY <1>1, <1>6, <2>3
    <3>2. q = LEAF <=> m = v.root
      BY <1>5, <1>6, <1>7
    <3>3. ASSUME q # LEAF PROVE \E r \in Side : v.child[r][q] = m
      <4>1. PICK r \in Side : u.child[r][q] = m
        BY <2>0, <3>3 DEF Hung
      <4>2. CASE q = n
        <5>1. r = s
          BY <1>1, <4>1, <4>2 DEF temp
        <5> QED BY <1>10, <4>1, <4>2, <5>1 DEF near
      <4>3. CASE q = temp
        <5>1. r = o
          BY <1>1, <2>3, <4>1, <4>3 DEF inner
        <5> QED BY <1>1, <1>10, <4>1, <4>3, <5>1 DEF far
      <4>4. CASE q # n /\ q # temp
        <5>1. q \in S
          BY <2>0, <3>3 DEF Hung
        <5> QED BY <1>11, <4>1, <4>4, <5>1
      <4> QED BY <4>2, <4>3, <4>4
    <3>4. q \in S \cup {LEAF}
      BY <2>0 DEF Hung
    <3> HIDE DEF q
    <3> QED BY <2>1, <3>1, <3>2, <3>3, <3>4 DEF Hung
  <2> QED BY <2>2, <2>3
<1>18. Nested(v, C, n) /\ Sorted(v, C, n)
  <2>1. \A m \in B[inner] : Before(o, u.key[m], u.key[n])
    BY <1>2, <1>3
  <2>2. \A r \in Side : \A m \in C[v.child[r][n]] : Before(r, v.key[m], v.key[n])
    BY <1>1, <1>2, <1>6, <1>10, <1>13, <2>1
  <2>3. \A r \in Side : n \notin C[v.child[r][n]]
    BY <1>1, <1>2, <1>3, <1>10, <1>13
  <2>4. C[n] = {n} \cup C[v.child[s][n]] \cup C[v.child[o][n]]
        /\ C[v.child[s][n]] \cap C[v.child[o][n]] = {}
    BY <1>2, <1>3, <1>10, <1>12, <1>13
  <2>5. C[n] = {n} \cup C[v.child["left"][n]] \cup C[v.child["right"][n]]
        /\ C[v.child["left"][n]] \cap C[v.child["right"][n]] = {}
    BY <1>1, <2>4 DEF Side
  <2> QED BY <1>2, <1>6, <2>2, <2>3, <2>5 DEF Nested, Sorted
<1>19. Nested(v, C, temp) /\ Sorted(v, C, temp)
  <2>1. Before(s, u.key[n], u.key[temp])
    <3>1. Before(o, u.key[temp], u.key[n])
      BY <1>2
    <3> QED BY <1>1, <1>2, <1>3, <3>1, BeforeFacts
  <2>2. ASSUME NEW m \in B[near] PROVE Before(s, u.key[m], u.key[temp])
    <3>1. Before(s, u.key[m], u.key[n])
      BY <1>2
    <3>2. u.key[m] \in Key
      <4>1. m \in S
        BY <1>1, <1>2
      <4> QED BY <4>1 DEF Good, Sorted
    <3> QED BY <1>2, <1>3, <2>1, <3>1, <3>2, BeforeFacts
  <2>3. \A r \in Side : \A m \in C[v.child[r][temp]] : Before(r, v.key[m], v.key[temp])
    <3>1. \A m \in C[n] : Before(s, u.key[m], u.key[temp])
      BY <1>3, <1>12, <2>1, <2>2
    <3> QED BY <1>1, <1>3, <1>6, <1>10, <1>13, <3>1
  <2>4. \A r \in Side : temp \notin C[v.child[r][temp]]
    BY <1>1, <1>2, <1>3, <1>10, <1>12, <1>13
  <2>5. C[temp] = {temp} \cup C[v.child[s][temp]] \cup C[v.child[o][temp]]
        /\ C[v.child[s][temp]] \cap C[v.child[o][temp]] = {}
    BY <1>2, <1>3, <1>10, <1>12, <1>13
  <2>6. C[temp] = {temp} \cup C[v.child["left"][temp]] \cup C[v.child["right"][temp]]
        /\ C[v.child["left"][temp]] \cap C[v.child["right"][temp]] = {}
    BY <1>1, <2>5 DEF Side
  <2> QED BY <1>3, <1>6, <2>3, <2>4, <2>6 DEF Nested, Sorted
<1>20. ASSUME NEW m \in S \ {n, temp} PROVE Nested(v, C, m) /\ Sorted(v, C, m)
  <2>1. Nested(u, B, m) /\ Sorted(u, B, m)
    BY DEF Good
  <2>2. C[m] = B[m] /\ \A r \in Side : C[v.child[r][m]] = B[u.child[r][m]]
    BY <1>1, <1>12, <1>14
  <2>3. "left" \in Side /\ "right" \in Side
    BY DEF Side
  <2> QED BY <1>6, <2>1, <2>2, <2>3 DEF Nested, Sorted
<1>21. Good(v, S, C)
  BY <1>1, <1>12, <1>15, <1>16, <1>17, <1>18, <1>19, <1>20 DEF Good
<1>22. ASSUME NEW m \in Node \ S, NEW r \in Side
       PROVE  v.child[r][m] = u.child[r][m]
  <2>1. m \in Ptr /\ m # n /\ m # temp /\ m # p
    BY <1>2, <1>5, PointerAssumption DEF Ptr
  <2> QED BY <1>6, <2>1
<1>23. ASSUME Outside(u, S) PROVE Outside(v, S)
  <2> SUFFICES ASSUME NEW m \in Node \ S, NEW r \in Side
               PROVE  v.child[r][m] \in S \cup {LEAF, Nil}
    BY DEF Outside
  <2> QED BY <1>23, <1>22 DEF Outside
<1>24. /\ v.root = IF n = u.root THEN temp ELSE u.root
       /\ v.parent[n] = temp /\ v.parent[temp] = p
  BY <1>1, <1>2, <1>5, <1>6
<1>25. /\ v \in Tree /\ v.key = u.key /\ v.color = u.color /\ \E D : Good(v, S, D)
       /\ Outside(u, S) => Outside(v, S)
       /\ \A m \in Node \ S, r \in Side : v.child[r][m] = u.child[r][m]
  BY <1>6, <1>21, <1>22, <1>23
<1> QED BY <1>2, <1>10, <1>11, <1>24, <1>25 DEF v, o, temp, inner, p, near, far

LEMMA LinkIs ==
  ASSUME t \in Tree, NEW n \in Node, NEW k \in Key, LastNode(k) \in Ptr \ {n},
         LastNode(k) # LEAF => Toward(k, LastNode(k)) \in Side
  PROVE  LET v == Link(n, k)
             p == LastNode(k)
         IN /\ v \in Tree
            /\ v.root = IF p = LEAF THEN n ELSE t.root
            /\ v.key = [t.key EXCEPT ![n] = k]
            /\ v.parent = [t.parent EXCEPT ![n] = p]
            /\ \A m \in Ptr : v.color[m] = IF m = n THEN "red" ELSE t.color[m]
            /\ \A r \in Side, m \in Ptr :
                 v.child[r][m] = IF m = n THEN LEAF
                                 ELSE IF p # LEAF /\ m = p /\ r = Toward(k, p) THEN n
                                 ELSE t.child[r][m]
<1> DEFINE p == LastNode(k)
           s == Toward(k, p)
           u == [t EXCEPT !.key[n] = k, !.parent[n] = p, !.child["left"][n] = LEAF,
                          !.child["right"][n] = LEAF, !.color[n] = NodeColor]
<1> HIDE DEF p
<1>1. /\ n \in Ptr /\ p \in Ptr /\ p # n /\ LEAF \in Ptr
      /\ p # LEAF => s \in Side
  BY DEF p, Ptr
<1>2. /\ u \in Tree /\ u.root = t.root /\ u.key = [t.key EXCEPT ![n] = k]
      /\ u.parent = [t.parent EXCEPT ![n] = p]
      /\ \A m \in Ptr : u.color[m] = IF m = n THEN "red" ELSE t.color[m]
      /\ \A r \in Side, m \in Ptr : u.child[r][m] = IF m = n THEN LEAF ELSE t.child[r][m]
  BY <1>1 DEF Tree, NodeColor, Side
<1>3. Link(n, k) = IF p = LEAF THEN [u EXCEPT !.root = n]
                   ELSE [u EXCEPT !.child[s][p] = n]
  BY DEF Link, p
<1> HIDE DEF u, s
<1>4. CASE p = LEAF
  <2>1. LET v == [u EXCEPT !.root = n]
        IN /\ v \in Tree /\ v.root = n /\ v.key = u.key /\ v.parent = u.parent
           /\ v.child = u.child /\ v.color = u.color
    BY <1>1, <1>2, SetRoot
  <2> DEFINE v == [u EXCEPT !.root = n]
  <2>2. Link(n, k) = v
    BY <1>3, <1>4
  <2>3. /\ v \in Tree /\ v.root = n /\ v.key = u.key /\ v.parent = u.parent
        /\ v.child = u.child /\ v.color = u.color
    BY <2>1
  <2> HIDE DEF v
  <2> QED BY <1>2, <1>4, <2>2, <2>3 DEF p
<1>5. CASE p # LEAF
  <2>1. LET v == [u EXCEPT !.child[s][p] = n]
        IN /\ v \in Tree /\ ChildIs(v, u, s, p, n)
           /\ v.root = u.root /\ v.key = u.key /\ v.parent = u.parent
           /\ v.color = u.color
    BY <1>1, <1>2, <1>5, SetChild
  <2> DEFINE v == [u EXCEPT !.child[s][p] = n]
  <2>2. Link(n, k) = v
    BY <1>3, <1>5
  <2>3. /\ v \in Tree /\ ChildIs(v, u, s, p, n)
        /\ v.root = u.root /\ v.key = u.key /\ v.parent = u.parent
        /\ v.color = u.color
    BY <2>1
  <2> HIDE DEF v
  <2> QED BY <1>1, <1>2, <1>5, <2>2, <2>3 DEF p, s, ChildIs
<1> QED BY <1>4, <1>5

(* The tree v with the new red leaf n.                                     *)
Extended(v, S, n, k) ==
  LET p == LastNode(k)
  IN /\ v \in Tree /\ v.key = [t.key EXCEPT ![n] = k]
     /\ \E C : Good(v, S \cup {n}, C)
     /\ Outside(v, S \cup {n})
     /\ v.root = IF t.root = LEAF THEN n ELSE t.root
     /\ \A m \in Ptr : v.color[m] = IF m = n THEN "red" ELSE t.color[m]
     /\ \A r \in Side : /\ v.child[r][n] = LEAF
                        /\ \A m \in S : v.child[r][m] \in {t.child[r][m], n}
     /\ IF t.root = LEAF THEN p = LEAF
        ELSE p \in S /\ Toward(k, p) \in Side /\ t.child[Toward(k, p)][p] = LEAF
     /\ \A r \in Side, m \in Ptr \ {n} :
          v.child[r][m] = IF p # LEAF /\ m = p /\ r = Toward(k, p) THEN n
                          ELSE t.child[r][m]

LEMMA LinkGood ==
  ASSUME t \in Tree, NEW S, NEW B, Good(t, S, B), Outside(t, S),
         NEW n \in Node \ S, NEW k \in Key, \A m \in S : t.key[m] # k
  PROVE  Extended(Link(n, k), S, n, k)
<1> DEFINE v == Link(n, k)
           p == LastNode(k)
           s == Toward(k, p)
           C == [m \in Ptr |-> IF m = n THEN {n}
                               ELSE IF p # LEAF /\ p \in B[m] THEN B[m] \cup {n}
                               ELSE B[m]]
           SS == S \cup {n}
<1>1. /\ S \subseteq Node /\ S \subseteq Ptr /\ LEAF \notin S /\ LEAF \in Ptr
      /\ B \in [Ptr -> SUBSET S] /\ B[LEAF] = {} /\ n \in Ptr /\ n # LEAF /\ n \notin S
      /\ SS \subseteq Node /\ "left" \in Side /\ "right" \in Side
      /\ Side = {"left", "right"}
  BY PointerAssumption DEF Good, Ptr, Side
<1>2. \/ p = LEAF /\ t.root = LEAF
      \/ /\ t.root # LEAF /\ p # LEAF /\ p \in S /\ s \in Side
         /\ t.child[s][p] = LEAF
         /\ Before(s, k, t.key[p])
         /\ \A m \in S, r \in Side :
              p \in B[t.child[r][m]] => Before(r, k, t.key[m])
  BY <1>1, LastNodeIs
<1>3. /\ v \in Tree
      /\ v.root = IF p = LEAF THEN n ELSE t.root
      /\ v.key = [t.key EXCEPT ![n] = k]
      /\ v.parent = [t.parent EXCEPT ![n] = p]
      /\ \A m \in Ptr : v.color[m] = IF m = n THEN "red" ELSE t.color[m]
      /\ \A r \in Side, m \in Ptr :
           v.child[r][m] = IF m = n THEN LEAF
                           ELSE IF p # LEAF /\ m = p /\ r = s THEN n
                           ELSE t.child[r][m]
  <2>1. LastNode(k) \in Ptr \ {n}
    BY <1>1, <1>2
  <2>2. LastNode(k) # LEAF => Toward(k, LastNode(k)) \in Side
    BY <1>2
  <2> QED BY <2>1, <2>2, LinkIs
<1>4. t.root \in S \cup {LEAF} /\ B[t.root] = S
  BY DEF Good
<1>5. /\ C \in [Ptr -> SUBSET SS] /\ C[LEAF] = {} /\ C[n] = {n}
      /\ \A m \in Ptr \ {n} : C[m] = IF p # LEAF /\ p \in B[m] THEN B[m] \cup {n} ELSE B[m]
  BY <1>1
<1>6. /\ \A m \in S : v.key[m] = t.key[m] /\ v.parent[m] = t.parent[m]
      /\ v.key[n] = k /\ v.parent[n] = p
  BY <1>1, <1>3 DEF Tree
<1> HIDE DEF v, p, s, C
<1>7. v.root \in SS \cup {LEAF} /\ C[v.root] = SS
  <2>1. CASE p = LEAF
    BY <1>2, <1>3, <1>4, <1>5, <1>1, <2>1
  <2>2. CASE p # LEAF
    <3>1. t.root \in S /\ v.root = t.root /\ p \in B[t.root] /\ t.root \in Ptr \ {n}
      BY <1>1, <1>2, <1>3, <1>4, <2>2
    <3> QED BY <1>4, <1>5, <2>2, <3>1
  <2> QED BY <2>1, <2>2
<1>8. Hung(v, SS, n) /\ Nested(v, C, n) /\ Sorted(v, C, n)
  <2>1. \A r \in Side : v.child[r][n] = LEAF
    BY <1>1, <1>3
  <2>2. p \in SS \cup {LEAF} /\ (p = LEAF <=> n = v.root)
    BY <1>1, <1>2, <1>3, <1>4
  <2>3. p # LEAF => \E r \in Side : v.child[r][p] = n
    BY <1>1, <1>2, <1>3
  <2>4. Hung(v, SS, n)
    BY <1>6, <2>1, <2>2, <2>3 DEF Hung
  <2>5. Nested(v, C, n) /\ Sorted(v, C, n)
    BY <1>1, <1>5, <1>6, <2>1 DEF Nested, Sorted
  <2> QED BY <2>4, <2>5
<1>9. ASSUME NEW m \in S PROVE Hung(v, SS, m) /\ Nested(v, C, m) /\ Sorted(v, C, m)
  <2>0. /\ Hung(t, S, m) /\ Nested(t, B, m) /\ Sorted(t, B, m)
        /\ p # LEAF /\ p \in S /\ s \in Side /\ t.child[s][p] = LEAF
        /\ m \in Ptr /\ m # n /\ m \in Node
    BY <1>1, <1>2, <1>4 DEF Good
  <2>1. ASSUME NEW r \in Side
        PROVE  /\ v.child[r][m] = IF m = p /\ r = s THEN n ELSE t.child[r][m]
               /\ C[v.child[r][m]] = IF m = p /\ r = s THEN {n}
                                     ELSE IF p \in B[t.child[r][m]]
                                     THEN B[t.child[r][m]] \cup {n}
                                     ELSE B[t.child[r][m]]
               /\ t.child[r][m] \in S \cup {LEAF}
    <3>1. v.child[r][m] = IF m = p /\ r = s THEN n ELSE t.child[r][m]
      BY <1>3, <2>0
    <3>2. t.child[r][m] \in Ptr \ {n} /\ t.child[r][m] \in S \cup {LEAF}
      BY <1>1, <2>0 DEF Hung
    <3> QED BY <1>5, <2>0, <3>1, <3>2
  <2>2. Hung(v, SS, m)
    <3>1. \A r \in Side : /\ v.child[r][m] \in SS \cup {LEAF}
                          /\ v.child[r][m] # LEAF => v.parent[v.child[r][m]] = m
      <4> SUFFICES ASSUME NEW r \in Side
                   PROVE  /\ v.child[r][m] \in SS \cup {LEAF}
                          /\ v.child[r][m] # LEAF => v.parent[v.child[r][m]] = m
        OBVIOUS
      <4>1. CASE m = p /\ r = s
        BY <1>6, <2>1, <4>1
      <4>2. CASE ~(m = p /\ r = s)
        <5>1. v.child[r][m] = t.child[r][m] /\ t.child[r][m] \in S \cup {LEAF}
          BY <2>1, <4>2
        <5>2. t.child[r][m] # LEAF => t.parent[t.child[r][m]] = m
          BY <2>0 DEF Hung
        <5> QED BY <1>6, <5>1, <5>2
      <4> QED BY <4>1, <4>2
    <3>2. v.parent[m] = t.parent[m] /\ v.root = t.root
      BY <1>3, <1>6, <2>0
    <3>3. ASSUME t.parent[m] # LEAF PROVE \E r \in Side : v.child[r][t.parent[m]] = m
      <4>1. PICK r \in Side : t.child[r][t.parent[m]] = m
        BY <2>0, <3>3 DEF Hung
      <4>2. t.parent[m] \in S
        BY <2>0, <3>3 DEF Hung
      <4>3. ~(t.parent[m] = p /\ r = s)
        BY <1>1, <2>0, <4>1
      <4>4. v.child[r][t.parent[m]] = m
        BY <1>1, <1>3, <4>1, <4>2, <4>3
      <4> QED BY <4>4
    <3> QED BY <2>0, <3>1, <3>2, <3>3 DEF Hung
  <2>3. C[m] = IF p \in B[m] THEN B[m] \cup {n} ELSE B[m]
    BY <1>5, <2>0
  <2>4. Nested(v, C, m)
    <3>1. /\ B[m] = {m} \cup B[t.child["left"][m]] \cup B[t.child["right"][m]]
          /\ B[t.child["left"][m]] \cap B[t.child["right"][m]] = {}
          /\ \A r \in Side : m \notin B[t.child[r][m]]
          /\ B[LEAF] = {} /\ B[m] \subseteq S
          /\ \A r \in Side : B[t.child[r][m]] \subseteq S
      BY <1>1, <2>0 DEF Nested, Hung
    <3>2. s = "left" \/ s = "right"
      BY <1>1, <2>0
    <3>3. ASSUME NEW r \in Side PROVE m \notin C[v.child[r][m]]
      <4>1. m # n /\ m \notin B[t.child[r][m]]
        BY <2>0, <3>1
      <4>2. C[v.child[r][m]] \subseteq B[t.child[r][m]] \cup {n}
        BY <2>1
      <4> QED BY <4>1, <4>2
    <3>4. CASE m = p
      <4>1. C[m] = B[m] \cup {n} /\ C[v.child[s][m]] = {n}
        BY <2>1, <2>3, <2>0, <3>1, <3>4
      <4>2. \A r \in Side : r # s => C[v.child[r][m]] = B[t.child[r][m]]
        BY <2>1, <3>1, <3>4
      <4>3. B[t.child[s][m]] = {}
        BY <2>0, <3>1, <3>4
      <4> QED BY <1>1, <3>1, <3>2, <3>3, <4>1, <4>2, <4>3 DEF Nested
    <3>5. CASE m # p
      <4>1. \A r \in Side : C[v.child[r][m]] =
               IF p \in B[t.child[r][m]] THEN B[t.child[r][m]] \cup {n}
               ELSE B[t.child[r][m]]
        BY <2>1, <3>5
      <4>2. n \notin S
        BY <1>1
      <4>3. C[m] = {m} \cup C[v.child["left"][m]] \cup C[v.child["right"][m]]
        BY <1>1, <2>3, <3>1, <3>5, <4>1
      <4>4. C[v.child["left"][m]] \cap C[v.child["right"][m]] = {}
        BY <1>1, <3>1, <4>1, <4>2
      <4> QED BY <3>3, <4>3, <4>4 DEF Nested
    <3> QED BY <3>4, <3>5
  <2>5. Sorted(v, C, m)
    <3>1. v.key[m] = t.key[m] /\ t.key[m] \in Key
      BY <1>6, <2>0 DEF Sorted
    <3>2. ASSUME NEW r \in Side, NEW x \in C[v.child[r][m]]
          PROVE  Before(r, v.key[x], v.key[m])
      <4>1. CASE x = n
        <5>1. p \in B[t.child[r][m]] \/ (m = p /\ r = s)
          <6>1. n \notin B[t.child[r][m]]
            BY <1>1, <2>1
          <6> QED BY <2>1, <3>2, <4>1, <6>1
        <5>2. Before(r, k, t.key[m])
          BY <1>2, <2>0, <5>1
        <5> QED BY <1>6, <3>1, <4>1, <5>2
      <4>2. CASE x # n
        <5>1. x \in B[t.child[r][m]] /\ x \in S
          BY <1>1, <2>1, <3>2, <4>2
        <5> QED BY <1>6, <2>0, <3>1, <5>1 DEF Sorted
      <4> QED BY <4>1, <4>2
    <3> QED BY <3>1, <3>2 DEF Sorted
  <2> QED BY <2>2, <2>4, <2>5
<1>10. Good(v, SS, C)
  BY <1>1, <1>5, <1>7, <1>8, <1>9 DEF Good
<1>11. Outside(v, SS)
  <2> SUFFICES ASSUME NEW m \in Node \ SS, NEW r \in Side
               PROVE  v.child[r][m] \in SS \cup {LEAF, Nil}
    BY DEF Outside
  <2>1. v.child[r][m] = t.child[r][m]
    BY <1>2, <1>3 DEF Ptr
  <2> QED BY <2>1 DEF Outside
<1>12. /\ v.root = IF t.root = LEAF THEN n ELSE t.root
       /\ \A r \in Side : /\ v.child[r][n] = LEAF
                          /\ \A m \in S : v.child[r][m] \in {t.child[r][m], n}
       /\ \A r \in Side, m \in Ptr \ {n} :
            v.child[r][m] = IF p # LEAF /\ m = p /\ r = s THEN n ELSE t.child[r][m]
  BY <1>1, <1>2, <1>3
<1>13. IF t.root = LEAF THEN p = LEAF
       ELSE p \in S /\ s \in Side /\ t.child[s][p] = LEAF
  BY <1>2
<1>14. v \in Tree /\ v.key = [t.key EXCEPT ![n] = k] /\ \E D : Good(v, S \cup {n}, D)
       /\ Outside(v, S \cup {n})
       /\ \A m \in Ptr : v.color[m] = IF m = n THEN "red" ELSE t.color[m]
  BY <1>3, <1>10, <1>11
<1>15. Extended(v, S, n, k)
  BY <1>12, <1>13, <1>14 DEF Extended, p, s
<1> QED BY <1>15 DEF v

-----------------------------------------------------------------------------
(* Taking a node out *)

(* With every unlinked node blank, nothing but its parent points to d.     *)
Blank(u, S) == \A m \in Node \ S, s \in Side : u.child[s][m] = Nil

LEMMA SpliceGood ==
  ASSUME NEW u \in Tree, NEW S, NEW B, Good(u, S, B), Blank(u, S), NEW d \in S,
         NEW s \in Side, u.child[s][d] = LEAF
  PROVE  LET only == u.child[Other(s)][d]
             v == switchNodes(u, d, only)
         IN /\ v \in Tree /\ v.key = u.key /\ v.color = u.color
            /\ only \in (S \ {d}) \cup {LEAF}
            /\ \E C : Good(v, S \ {d}, C)
            /\ Outside(v, S \ {d})
            /\ v.root = IF d = u.root THEN only ELSE u.root
            /\ only # LEAF => v.parent[only] = u.parent[d]
            /\ \A r \in Side, m \in S \ {d} :
                 v.child[r][m] = IF u.child[r][m] = d THEN only ELSE u.child[r][m]
            /\ \A m \in Node \ S, r \in Side : v.child[r][m] = Nil
<1> DEFINE o == Other(s)
           only == u.child[o][d]
           v == switchNodes(u, d, only)
           p == u.parent[d]
           D == S \ {d}
           C == [m \in Ptr |-> B[m] \ {d}]
<1>1. /\ S \subseteq Node /\ S \subseteq Ptr /\ LEAF \notin S /\ LEAF \in Ptr
      /\ B \in [Ptr -> SUBSET S] /\ B[LEAF] = {}
      /\ o \in Side /\ \A r \in Side : r = s \/ r = o
      /\ Side = {"left", "right"}
  BY PointerAssumption, Sides DEF Good, Ptr, Side
<1>2. /\ only \in S \cup {LEAF} /\ only # d
      /\ B[d] = {d} \cup B[only] /\ d \notin B[only]
      /\ only # LEAF => u.parent[only] = d
  BY <1>1, Neighbours
<1>3. /\ p \in S \cup {LEAF} /\ p # d
      /\ p = LEAF <=> d = u.root
      /\ \A m \in S, r \in Side :
           u.child[r][m] = d <=> p # LEAF /\ m = p /\ r = SideOf(u, d)
  <2>1. Hung(u, S, d)
    BY DEF Good
  <2>2. p \in S \cup {LEAF} /\ (p = LEAF <=> d = u.root)
    BY <2>1 DEF Hung
  <2>3. p # LEAF => \E r \in Side : u.child[r][p] = d
    BY <2>1 DEF Hung
  <2>4. p # d
    BY <1>1, <2>2, <2>3, Neighbours
  <2>5. CASE p = LEAF
    <3>1. \A m \in S, r \in Side : u.child[r][m] # d
      BY <1>1, <2>5, Neighbours
    <3> QED BY <2>2, <2>4, <2>5, <3>1
  <2>6. CASE p # LEAF
    <3>1. \A m \in S, r \in Side :
            u.child[r][m] = d <=> m = p /\ r = SideOf(u, d)
      BY <2>6, SideOfIs
    <3> QED BY <2>2, <2>4, <2>6, <3>1
  <2> QED BY <2>5, <2>6
<1>4. /\ v \in Tree /\ v.key = u.key /\ v.color = u.color
      /\ v.root = IF p = LEAF THEN only ELSE u.root
      /\ \A m \in Ptr :
           v.parent[m] = IF m = only /\ only # LEAF THEN p ELSE u.parent[m]
      /\ \A r \in Side, m \in Ptr :
           v.child[r][m] = IF p # LEAF /\ m = p /\ r = SideOf(u, d) THEN only
                           ELSE u.child[r][m]
  <2>1. d \in Ptr /\ only \in Ptr /\ p \in Ptr
    BY <1>1, <1>2, <1>3
  <2> QED BY <2>1, SwitchIs
<1>5. /\ C \in [Ptr -> SUBSET D] /\ \A m \in Ptr : C[m] = B[m] \ {d}
  BY <1>1
<1>6. u.root \in S \cup {LEAF} /\ B[u.root] = S
  BY DEF Good
<1> HIDE DEF v, o, only, p, C
<1>7. ASSUME NEW m \in D, NEW r \in Side
      PROVE  /\ v.child[r][m] = IF u.child[r][m] = d THEN only ELSE u.child[r][m]
             /\ C[v.child[r][m]] = B[u.child[r][m]] \ {d}
             /\ u.child[r][m] \in S \cup {LEAF}
             /\ v.child[r][m] \in D \cup {LEAF}
  <2>1. v.child[r][m] = IF u.child[r][m] = d THEN only ELSE u.child[r][m]
    BY <1>1, <1>3, <1>4
  <2>2. u.child[r][m] \in S \cup {LEAF}
    BY Neighbours
  <2> QED BY <1>1, <1>2, <1>5, <2>1, <2>2
<1>8. v.root \in D \cup {LEAF} /\ C[v.root] = D
  <2>1. CASE p = LEAF
    BY <1>1, <1>2, <1>3, <1>4, <1>5, <1>6, <2>1
  <2>2. CASE p # LEAF
    BY <1>1, <1>3, <1>4, <1>5, <1>6, <2>2
  <2> QED BY <2>1, <2>2
<1>9. ASSUME NEW m \in D PROVE Hung(v, D, m) /\ Nested(v, C, m) /\ Sorted(v, C, m)
  <2>0. Hung(u, S, m) /\ Nested(u, B, m) /\ Sorted(u, B, m) /\ m \in Ptr
    BY <1>1 DEF Good
  <2>1. ASSUME NEW r \in Side, v.child[r][m] # LEAF
        PROVE  v.parent[v.child[r][m]] = m
    <3>1. CASE u.child[r][m] = d
      BY <1>1, <1>2, <1>3, <1>4, <1>7, <2>1, <3>1
    <3>2. CASE u.child[r][m] # d
      <4>1. u.parent[u.child[r][m]] = m /\ v.child[r][m] = u.child[r][m]
        BY <1>7, <2>0, <2>1, <3>2 DEF Hung
      <4>2. v.child[r][m] # only /\ v.child[r][m] \in Ptr
        BY <1>1, <1>2, <1>7, <2>1, <4>1
      <4> QED BY <1>4, <4>1, <4>2
    <3> QED BY <3>1, <3>2
  <2>2. CASE m = only
    <3>1. v.parent[m] = p /\ m # LEAF
      BY <1>1, <1>4, <2>2, <2>0
    <3>2. p = LEAF <=> m = v.root
      <4>1. u.root # m
        BY <1>1, <1>2, <2>0, <2>2 DEF Hung
      <4> QED BY <1>4, <2>2, <4>1
    <3>3. p # LEAF => SideOf(u, d) \in Side /\ v.child[SideOf(u, d)][p] = m
      <4>1. SideOf(u, d) \in Side
        BY DEF SideOf, Side
      <4> QED BY <1>1, <1>3, <1>4, <2>2, <4>1
    <3>4. Hung(v, D, m)
      BY <1>3, <1>7, <2>1, <3>1, <3>2, <3>3 DEF Hung
    <3> QED BY <3>4, <2>0, <1>4, <1>5, <1>7 DEF Nested, Sorted, Side
  <2>3. CASE m # only
    <3>1. v.parent[m] = u.parent[m]
      BY <1>1, <1>4, <2>3
    <3>2. u.parent[m] # d
      <4>1. u.parent[m] = d => \E r \in Side : u.child[r][d] = m
        BY <2>0, <1>1 DEF Hung
      <4> QED BY <1>1, <2>3, <4>1 DEF only
    <3>3. u.parent[m] = LEAF <=> m = v.root
      BY <1>1, <1>3, <1>4, <2>0, <2>3 DEF Hung
    <3>4. ASSUME u.parent[m] # LEAF PROVE \E r \in Side : v.child[r][u.parent[m]] = m
      <4>1. PICK r \in Side : u.child[r][u.parent[m]] = m
        BY <2>0, <3>4 DEF Hung
      <4>2. u.parent[m] \in D
        BY <2>0, <3>2, <3>4 DEF Hung
      <4> QED BY <1>7, <4>1, <4>2
    <3>5. u.parent[m] \in D \cup {LEAF}
      BY <2>0, <3>2 DEF Hung
    <3>6. Hung(v, D, m)
      BY <1>7, <2>1, <3>1, <3>3, <3>4, <3>5 DEF Hung
    <3> QED BY <3>6, <2>0, <1>4, <1>5, <1>7 DEF Nested, Sorted, Side
  <2> QED BY <2>2, <2>3
<1>10. Good(v, D, C)
  BY <1>1, <1>5, <1>8, <1>9 DEF Good
<1>11. \A m \in Node \ S, r \in Side : v.child[r][m] = Nil
  BY <1>3, <1>4, PointerAssumption DEF Blank, Ptr
<1>12. Outside(v, D)
  <2>1. ASSUME NEW r \in Side PROVE v.child[r][d] \in D \cup {LEAF}
    <3>1. v.child[r][d] = u.child[r][d]
      BY <1>1, <1>3, <1>4
    <3>2. u.child[r][d] \in S \cup {LEAF} /\ u.child[r][d] # d
      BY Neighbours
    <3> QED BY <3>1, <3>2
  <2> QED BY <1>11, <2>1 DEF Outside
<1>13. /\ only \in D \cup {LEAF}
       /\ v.root = IF d = u.root THEN only ELSE u.root
       /\ only # LEAF => v.parent[only] = p
  BY <1>1, <1>2, <1>3, <1>4
<1>14. v \in Tree /\ v.key = u.key /\ v.color = u.color /\ \E E : Good(v, D, E)
  BY <1>4, <1>10
<1>15. \A r \in Side, m \in S \ {d} :
         v.child[r][m] = IF u.child[r][m] = d THEN only ELSE u.child[r][m]
  BY <1>7
<1> QED BY <1>11, <1>12, <1>13, <1>14, <1>15 DEF v, o, only, p

(* The neighbourhood of a node d with two children and of min, the first   *)
(* node to its right.                                                      *)
Successor(S, B, d, min) ==
  /\ d \in S /\ t.child["left"][d] # LEAF /\ t.child["right"][d] # LEAF
  /\ min \in B[t.child["right"][d]] /\ min \in S /\ t.child["left"][min] = LEAF
  /\ \A y \in B[t.child["right"][d]] :
       y = min \/ Before("left", t.key[min], t.key[y])

LEMMA Apart ==
  ASSUME NEW S, NEW B, Good(t, S, B), NEW d, NEW min, Successor(S, B, d, min)
  PROVE  LET L == t.child["left"][d]
             R == t.child["right"][d]
             r == t.child["right"][min]
             q == t.parent[min]
             p == t.parent[d]
         IN /\ L \in S /\ R \in S /\ r \in S \cup {LEAF} /\ q \in S /\ p \in S \cup {LEAF}
            /\ d \notin {L, R, r, p, min} /\ min \notin {L, r, p, q}
            /\ r \notin {L, R, p, q} \/ r = LEAF
            /\ L # R /\ L # q /\ p # q /\ p # L /\ p # R
            /\ q = d <=> min = R
            /\ q # d => q \in B[R] /\ SideOf(t, min) = "left"
            /\ q = d => SideOf(t, min) = "right"
            /\ t.parent[L] = d /\ t.parent[R] = d
            /\ r # LEAF => t.parent[r] = min
            /\ B[min] = {min} \cup B[r] /\ min \notin B[r]
            /\ B[d] = {d} \cup B[L] \cup B[R] /\ B[L] \cap B[R] = {}
            /\ d \notin B[L] /\ d \notin B[R] /\ min \in B[R] /\ min \notin B[L]
            /\ B[r] \subseteq B[R] /\ d \notin B[r]
<1> DEFINE L == t.child["left"][d]
           R == t.child["right"][d]
           r == t.child["right"][min]
           q == t.parent[min]
           p == t.parent[d]
<1>1. /\ S \subseteq Node /\ LEAF \notin S /\ B[LEAF] = {}
      /\ "left" \in Side /\ "right" \in Side
      /\ Other("left") = "right" /\ Other("right") = "left"
      /\ \A s \in Side : s = "left" \/ s = "right"
  BY PointerAssumption DEF Good, Side, Other
<1>2. /\ d \in S /\ L # LEAF /\ R # LEAF /\ min \in B[R] /\ min \in S
      /\ t.child["left"][min] = LEAF
  BY DEF Successor
<1>3. /\ L \in S /\ R \in S /\ L # d /\ R # d /\ L # R
      /\ t.parent[L] = d /\ t.parent[R] = d
      /\ B[d] = {d} \cup B[L] \cup B[R] /\ B[L] \cap B[R] = {}
      /\ d \notin B[L] /\ d \notin B[R] /\ L \in B[L] /\ R \in B[R]
  <2>1. d \in S
    BY <1>2
  <2>2. /\ L \in S \cup {LEAF} /\ L # d /\ d \notin B[L]
        /\ L \in B[L] /\ t.parent[L] = d
    BY <1>1, <1>2, <2>1, Neighbours
  <2>3. /\ R \in S \cup {LEAF} /\ R # d /\ d \notin B[R]
        /\ R \in B[R] /\ t.parent[R] = d
    BY <1>1, <1>2, <2>1, Neighbours
  <2>4. B[d] = {d} \cup B[L] \cup B[R] /\ B[L] \cap B[R] = {}
    BY <1>2 DEF Good, Nested
  <2> QED BY <1>2, <2>2, <2>3, <2>4
<1>4. /\ r \in S \cup {LEAF} /\ r # min /\ min \notin B[r]
      /\ B[min] = {min} \cup B[r]
      /\ r # LEAF => t.parent[r] = min /\ r \in B[r]
  BY <1>1, <1>2, Neighbours
<1>5. /\ B[min] \subseteq B[R] /\ (min # R => q \in B[R] /\ q \in S)
  BY <1>2, <1>3, Subtrees
<1>6. q = d <=> min = R
  BY <1>3, <1>5
<1>7. q \in S /\ q # min /\ q # L
  <2>1. q \in S
    BY <1>2, <1>3, <1>5
  <2>2. q # L
    BY <1>3, <1>5
  <2>3. q # LEAF
    BY <1>1, <2>1
  <2>4. SideOf(t, min) \in Side /\ t.child[SideOf(t, min)][q] = min
    BY <1>2, <2>3, SideOfIs
  <2>5. min # q
    BY <2>1, <2>4, Neighbours
  <2> QED BY <2>1, <2>2, <2>5
<1>8. /\ p \in S \cup {LEAF} /\ p \notin B[d] /\ p # d
  <2>1. Hung(t, S, d)
    BY <1>2 DEF Good
  <2>2. p \in S \cup {LEAF}
    BY <2>1 DEF Hung
  <2>3. CASE p = LEAF
    BY <1>1, <1>2, <2>3 DEF Good, Ptr
  <2>4. CASE p # LEAF
    <3>1. PICK s \in Side : t.child[s][p] = d
      BY <2>1, <2>4 DEF Hung
    <3>2. p \notin B[d] /\ d # p
      BY <2>2, <2>4, <3>1, Neighbours
    <3> QED BY <2>2, <3>2
  <2> QED BY <2>3, <2>4
<1>9. /\ p # q /\ p # L /\ p # R /\ p # min
  BY <1>2, <1>3, <1>5, <1>6, <1>8
<1>10. r # LEAF => r # R /\ r # d /\ r # L /\ r # p /\ r # q
  <2>1. ASSUME r = R, r # LEAF PROVE FALSE
    <3>1. R \in B[min] /\ R # min
      BY <1>4, <2>1
    <3>2. B[R] \subseteq B[min]
      BY <1>2, <3>1, Subtrees
    <3> QED BY <1>2, <1>4, <2>1
  <2>2. ASSUME r # LEAF PROVE r \in B[R] /\ r # d /\ r # L /\ r # p
    BY <1>3, <1>4, <1>5, <1>8, <2>2
  <2>3. ASSUME r = q, r # LEAF PROVE FALSE
    <3>1. q \in B[r] /\ q \in S
      BY <1>4, <2>3
    <3>2. min \in B[q]
      <4>1. q # LEAF
        BY <2>3
      <4>2. SideOf(t, min) \in Side /\ t.child[SideOf(t, min)][q] = min
        BY <1>2, <4>1, SideOfIs
      <4>3. min # LEAF
        BY <1>1, <1>2
      <4> QED BY <3>1, <4>2, <4>3, Neighbours
    <3> QED BY <1>4, <2>3, <3>2
  <2> QED BY <2>1, <2>2, <2>3
<1>11. /\ q # d => SideOf(t, min) = "left"
       /\ q = d => SideOf(t, min) = "right"
  <2>1. q # LEAF
    BY <1>1, <1>7
  <2>2. /\ SideOf(t, min) \in Side /\ t.child[SideOf(t, min)][q] = min
        /\ \A m \in S, s \in Side : t.child[s][m] = min => s = SideOf(t, min)
    BY <1>2, <2>1, SideOfIs
  <2>3. q = d => SideOf(t, min) = "right"
    BY <1>1, <1>2, <1>6, <2>2
  <2>4. ASSUME q # d, SideOf(t, min) = "right" PROVE FALSE
    <3>1. q \in B[R] /\ q # min
      BY <1>5, <1>6, <1>7, <2>4
    <3>2. Before("left", t.key[min], t.key[q])
      BY <3>1 DEF Successor
    <3>3. min \in B[min]
      BY <1>4
    <3>4. Before("right", t.key[min], t.key[q]) /\ t.key[q] \in Key
      BY <1>1, <1>7, <2>2, <2>4, <3>3, Neighbours
    <3>5. t.key[min] \in Key
      BY <1>2 DEF Good, Sorted
    <3> QED BY <1>1, <3>2, <3>4, <3>5, BeforeFacts
  <2> QED BY <1>1, <2>2, <2>3, <2>4
<1>12. /\ B[r] \subseteq B[R] /\ d \notin B[r] /\ min \notin B[L] /\ min # d /\ min # L
  BY <1>2, <1>3, <1>4, <1>5
<1>13. d # r
  BY <1>1, <1>2, <1>10
<1> HIDE DEF L, R, r, q, p
<1>14. r \notin {L, R, p, q} \/ r = LEAF
  BY <1>10
<1>15. /\ L \in S /\ R \in S /\ r \in S \cup {LEAF} /\ q \in S /\ p \in S \cup {LEAF}
       /\ d \notin {L, R, r, p, min} /\ min \notin {L, r, p, q}
       /\ L # R /\ L # q /\ p # q /\ p # L /\ p # R
       /\ q = d <=> min = R
       /\ q # d => q \in B[R]
  BY <1>3, <1>4, <1>5, <1>6, <1>7, <1>8, <1>9, <1>12, <1>13
<1> QED BY <1>2, <1>3, <1>4, <1>11, <1>12, <1>14, <1>15 DEF L, R, r, q, p

(* What the assignments of deleteNode come to, except in d itself.         *)
LEMMA DeleteNodeIs ==
  ASSUME t \in Tree, NEW S, NEW B, Good(t, S, B), NEW d, NEW min,
         Successor(S, B, d, min)
  PROVE  LET L == t.child["left"][d]
             R == t.child["right"][d]
             r == t.child["right"][min]
             q == t.parent[min]
             p == t.parent[d]
             v == deleteNode(d, min)
         IN /\ v \in Tree /\ v.key = t.key
            /\ v.root = IF p = LEAF THEN min ELSE t.root
            /\ \A m \in Ptr : v.color[m] = IF m = min THEN t.color[d] ELSE t.color[m]
            /\ \A m \in Ptr \ {d} :
                 v.parent[m] = IF m = min THEN p
                               ELSE IF m = L \/ m = R THEN min
                               ELSE IF m = r /\ r # LEAF THEN IF q = d THEN min ELSE q
                               ELSE t.parent[m]
            /\ \A m \in Ptr \ {d}, s \in Side :
                 v.child[s][m] =
                   IF m = min THEN IF s = "left" THEN L ELSE IF q = d THEN r ELSE R
                   ELSE IF m = q /\ s = "left" THEN r
                   ELSE IF p # LEAF /\ m = p /\ s = SideOf(t, d) THEN min
                   ELSE t.child[s][m]
            /\ \A s \in Side : v.child[s][d] \in {L, R, LEAF}
<1> DEFINE L == t.child["left"][d]
           R == t.child["right"][d]
           r == t.child["right"][min]
           q == t.parent[min]
           p == t.parent[d]
           out == switchNodes(t, min, r)
           oR == out.child["right"][d]
           relinked == [out EXCEPT !.child["right"][min] = oR]
           u == IF q = d /\ r # LEAF THEN SetParent(t, r, min)
                ELSE SetParent(relinked, oR, min)
           w == switchNodes(u, d, min)
           uL == u.child["left"][d]
           x == [w EXCEPT !.child["left"][min] = uL, !.color[min] = NewColor(d, min)]
           v == SetParent(x, uL, min)
<1>1. /\ L \in S /\ R \in S /\ r \in S \cup {LEAF} /\ q \in S /\ p \in S \cup {LEAF}
      /\ d \notin {L, R, r, p, min} /\ min \notin {L, r, p, q}
      /\ r \notin {L, R, p, q} \/ r = LEAF
      /\ L # R /\ L # q /\ p # q /\ p # L /\ p # R
      /\ q = d <=> min = R
      /\ q # d => SideOf(t, min) = "left"
      /\ q = d => SideOf(t, min) = "right"
      /\ t.parent[L] = d /\ t.parent[R] = d
      /\ r # LEAF => t.parent[r] = min
  BY Apart
<1>2. /\ S \subseteq Ptr /\ LEAF \in Ptr /\ LEAF \notin S /\ Ptr \subseteq Ptr \cup {Nil}
      /\ "left" \in Side /\ "right" \in Side
      /\ \A s \in Side : s = "left" \/ s = "right"
  BY PointerAssumption DEF Good, Ptr, Side
<1>3. d \in S /\ min \in S /\ t.child["left"][min] = LEAF
  BY DEF Successor
<1>4. deleteNode(d, min) = v
  BY DEF deleteNode
<1>5. /\ d \in Ptr /\ min \in Ptr /\ L \in Ptr /\ R \in Ptr /\ r \in Ptr
      /\ q \in Ptr /\ p \in Ptr /\ d # LEAF /\ min # LEAF
  BY <1>1, <1>2, <1>3
<1>6. /\ out \in Tree /\ out.key = t.key /\ out.color = t.color /\ out.root = t.root
      /\ \A m \in Ptr : out.parent[m] = IF m = r /\ r # LEAF THEN q ELSE t.parent[m]
      /\ \A s \in Side, m \in Ptr :
           out.child[s][m] = IF m = q /\ s = SideOf(t, min) THEN r ELSE t.child[s][m]
  <2>1. q # LEAF
    BY <1>1, <1>2
  <2>2. /\ out \in Tree /\ out.key = t.key /\ out.color = t.color
        /\ out.root = IF q = LEAF THEN r ELSE t.root
        /\ \A m \in Ptr : out.parent[m] = IF m = r /\ r # LEAF THEN q ELSE t.parent[m]
        /\ \A s \in Side, m \in Ptr :
             out.child[s][m] = IF q # LEAF /\ m = q /\ s = SideOf(t, min) THEN r
                               ELSE t.child[s][m]
    BY <1>5, SwitchIs
  <2> HIDE DEF out, q, r
  <2> QED BY <2>1, <2>2
<1> HIDE DEF out
<1>7. oR = IF q = d THEN r ELSE R
  BY <1>1, <1>2, <1>5, <1>6
<1>8. /\ relinked \in Tree /\ ChildIs(relinked, out, "right", min, oR)
      /\ relinked.root = out.root /\ relinked.key = out.key
      /\ relinked.parent = out.parent /\ relinked.color = out.color
  <2>1. oR \in Ptr \cup {Nil} /\ oR \in Ptr
    BY <1>5, <1>7
  <2> HIDE DEF oR
  <2> QED BY <1>2, <1>5, <1>6, <2>1, SetChild
<1> HIDE DEF relinked, oR
<1>9. /\ u \in Tree /\ u.root = t.root /\ u.key = t.key /\ u.color = t.color
      /\ \A m \in Ptr :
           u.parent[m] = IF m = R /\ q # d THEN min
                         ELSE IF m = r /\ r # LEAF THEN IF q = d THEN min ELSE q
                         ELSE t.parent[m]
      /\ \A s \in Side, m \in Ptr \ {d} :
           u.child[s][m] = IF m = q /\ s = "left" THEN r
                           ELSE IF m = min /\ s = "right" THEN IF q = d THEN r ELSE R
                           ELSE t.child[s][m]
      /\ u.child["left"][d] = L /\ u.child["right"][d] \in {R, LEAF}
  <2>1. CASE q = d /\ r # LEAF
    <3>1. u = SetParent(t, r, min)
      BY <2>1
    <3>2. min \in Ptr \cup {Nil}
      BY <1>5
    <3>3. /\ u \in Tree /\ u.root = t.root /\ u.key = t.key
          /\ u.child = t.child /\ u.color = t.color
          /\ \A m \in Ptr :
               u.parent[m] = IF m = r /\ r # LEAF THEN min ELSE t.parent[m]
      <4> HIDE DEF u, L, R, r, q, p
      <4> DEFINE y == SetParent(t, r, min)
      <4>1. /\ y \in Tree /\ y.root = t.root /\ y.key = t.key
            /\ y.child = t.child /\ y.color = t.color
            /\ \A m \in Ptr :
                 y.parent[m] = IF m = r /\ r # LEAF THEN min ELSE t.parent[m]
        BY <1>5, <3>2, SetParentIs
      <4> HIDE DEF y
      <4>2. u = y
        BY <3>1 DEF y
      <4> QED BY <4>1, <4>2
    <3> HIDE DEF u
    <3>4. \A s \in Side, m \in Ptr \ {d} :
           u.child[s][m] = IF m = q /\ s = "left" THEN r
                           ELSE IF m = min /\ s = "right" THEN IF q = d THEN r ELSE R
                           ELSE t.child[s][m]
      BY <2>1, <3>3
    <3>5. u.child["left"][d] = L /\ u.child["right"][d] \in {R, LEAF}
      BY <3>3
    <3> HIDE DEF L, R, r, q, p
    <3> QED BY <2>1, <3>3, <3>4, <3>5
  <2>2. CASE ~(q = d /\ r # LEAF)
    <3>1. u = SetParent(relinked, oR, min)
      BY <2>2
    <3>2. min \in Ptr \cup {Nil} /\ oR \in Ptr
      BY <1>5, <1>7
    <3>3. /\ u \in Tree /\ u.root = relinked.root /\ u.key = relinked.key
          /\ u.child = relinked.child /\ u.color = relinked.color
          /\ \A m \in Ptr :
               u.parent[m] = IF m = oR /\ oR # LEAF THEN min ELSE relinked.parent[m]
      <4> HIDE DEF u, L, R, r, q, p
      <4> DEFINE y == SetParent(relinked, oR, min)
      <4>1. /\ y \in Tree /\ y.root = relinked.root /\ y.key = relinked.key
            /\ y.child = relinked.child /\ y.color = relinked.color
            /\ \A m \in Ptr :
                 y.parent[m] = IF m = oR /\ oR # LEAF THEN min ELSE relinked.parent[m]
        BY <1>5, <1>8, <3>2, SetParentIs
      <4> HIDE DEF y
      <4>2. u = y
        BY <3>1 DEF y
      <4> QED BY <4>1, <4>2
    <3> HIDE DEF u
    <3>4. ASSUME NEW m \in Ptr
          PROVE  u.parent[m] = IF m = R /\ q # d THEN min
                         ELSE IF m = r /\ r # LEAF THEN IF q = d THEN min ELSE q
                         ELSE t.parent[m]
      <4>1. relinked.parent[m] = IF m = r /\ r # LEAF THEN q ELSE t.parent[m]
        BY <1>6, <1>8
      <4>2. R # LEAF
        BY <1>1, <1>2
      <4> HIDE DEF L, R, r, q, p
      <4> QED BY <1>1, <1>7, <2>2, <3>3, <4>1, <4>2
    <3>5. ASSUME NEW s \in Side, NEW m \in Ptr
          PROVE  u.child[s][m] = IF m = min /\ s = "right" THEN oR
                                 ELSE IF m = q /\ s = SideOf(t, min) THEN r
                                 ELSE t.child[s][m]
      BY <1>6, <1>8, <3>3 DEF ChildIs
    <3>6. ASSUME NEW s \in Side, NEW m \in Ptr \ {d}
          PROVE  u.child[s][m] = IF m = q /\ s = "left" THEN r
                           ELSE IF m = min /\ s = "right" THEN IF q = d THEN r ELSE R
                           ELSE t.child[s][m]
      <4> HIDE DEF L, R, r, q, p
      <4> QED BY <1>1, <1>7, <3>5
    <3>7. u.child["left"][d] = L
      BY <1>1, <1>2, <1>5, <3>5
    <3>8. u.child["right"][d] \in {R, LEAF}
      BY <1>1, <1>2, <1>5, <2>2, <3>5
    <3> HIDE DEF L, R, r, q, p
    <3> QED BY <1>6, <1>8, <3>3, <3>4, <3>6, <3>7, <3>8
  <2> QED BY <2>1, <2>2
<1> HIDE DEF u
<1>10. /\ u.parent[d] = p
       /\ p # LEAF => SideOf(u, d) = SideOf(t, d)
  <2>1. u.parent[d] = p
    BY <1>1, <1>5, <1>9
  <2>2. p \in Ptr \ {d} /\ p # q /\ p # min
    BY <1>1, <1>5
  <2>3. u.child["left"][p] = t.child["left"][p]
    BY <1>2, <1>9, <2>2
  <2> QED BY <2>1, <2>3 DEF SideOf
<1>11. /\ w \in Tree /\ w.key = u.key /\ w.color = u.color
       /\ w.root = IF p = LEAF THEN min ELSE u.root
       /\ \A m \in Ptr : w.parent[m] = IF m = min THEN p ELSE u.parent[m]
       /\ \A s \in Side, m \in Ptr :
            w.child[s][m] = IF p # LEAF /\ m = p /\ s = SideOf(t, d) THEN min
                            ELSE u.child[s][m]
  <2>1. u.parent[d] \in Ptr
    BY <1>5, <1>10
  <2>2. /\ w \in Tree /\ w.key = u.key /\ w.color = u.color
        /\ w.root = IF u.parent[d] = LEAF THEN min ELSE u.root
        /\ \A m \in Ptr : w.parent[m] = IF m = min /\ min # LEAF THEN u.parent[d]
                                        ELSE u.parent[m]
        /\ \A s \in Side, m \in Ptr :
             w.child[s][m] = IF u.parent[d] # LEAF /\ m = u.parent[d] /\ s = SideOf(u, d)
                             THEN min ELSE u.child[s][m]
    BY <1>5, <1>9, <2>1, SwitchIs
  <2> HIDE DEF w, p
  <2> QED BY <1>5, <1>10, <2>2
<1>12. uL = L /\ NewColor(d, min) = t.color[d]
  BY <1>9 DEF NewColor
<1> HIDE DEF w, uL
<1>13. /\ x \in Tree /\ ChildIs(x, w, "left", min, L)
       /\ x.root = w.root /\ x.key = w.key /\ x.parent = w.parent
       /\ \A m \in Ptr : x.color[m] = IF m = min THEN t.color[d] ELSE w.color[m]
  <2>1. x = [w EXCEPT !.child["left"][min] = uL, !.color[min] = NewColor(d, min)]
    OBVIOUS
  <2>2. uL \in Ptr \cup {Nil} /\ NewColor(d, min) \in {"red", "black"}
    BY <1>5, <1>12 DEF Tree
  <2>3. /\ x \in Tree /\ ChildIs(x, w, "left", min, uL)
        /\ x.root = w.root /\ x.key = w.key /\ x.parent = w.parent
        /\ \A m \in Ptr : x.color[m] = IF m = min THEN NewColor(d, min) ELSE w.color[m]
    <3> HIDE DEF x, L, R, r, q, p
    <3> QED BY <1>2, <1>5, <1>11, <2>1, <2>2 DEF Tree, ChildIs
  <2> QED BY <1>12, <2>3
<1> HIDE DEF x
<1>14. /\ v \in Tree /\ v.root = x.root /\ v.key = x.key
       /\ v.child = x.child /\ v.color = x.color
       /\ \A m \in Ptr : v.parent[m] = IF m = L THEN min ELSE x.parent[m]
  <2>1. uL \in Ptr /\ min \in Ptr \cup {Nil} /\ uL # LEAF
    BY <1>1, <1>2, <1>5, <1>12
  <2>2. /\ v \in Tree /\ v.root = x.root /\ v.key = x.key
        /\ v.child = x.child /\ v.color = x.color
        /\ \A m \in Ptr : v.parent[m] = IF m = uL /\ uL # LEAF THEN min ELSE x.parent[m]
    BY <1>13, <2>1, SetParentIs
  <2> HIDE DEF v, L
  <2> QED BY <1>12, <2>1, <2>2
<1> HIDE DEF v
<1>15. \A m \in Ptr : v.color[m] = IF m = min THEN t.color[d] ELSE t.color[m]
  BY <1>9, <1>11, <1>13, <1>14
<1>16. ASSUME NEW m \in Ptr \ {d}
       PROVE  v.parent[m] = IF m = min THEN p
                            ELSE IF m = L \/ m = R THEN min
                            ELSE IF m = r /\ r # LEAF THEN IF q = d THEN min ELSE q
                            ELSE t.parent[m]
  <2>1. v.parent[m] = IF m = L THEN min
                      ELSE IF m = min THEN p ELSE u.parent[m]
    BY <1>11, <1>13, <1>14
  <2>2. u.parent[m] = IF m = R /\ q # d THEN min
                      ELSE IF m = r /\ r # LEAF THEN IF q = d THEN min ELSE q
                      ELSE t.parent[m]
    BY <1>9
  <2> HIDE DEF L, R, r, q, p
  <2> QED BY <1>1, <2>1, <2>2
<1>17. ASSUME NEW m \in Ptr, NEW s \in Side
       PROVE  v.child[s][m] = IF m = min /\ s = "left" THEN L
                 ELSE IF p # LEAF /\ m = p /\ s = SideOf(t, d) THEN min
                 ELSE u.child[s][m]
  BY <1>11, <1>13, <1>14 DEF ChildIs
<1>18. ASSUME NEW m \in Ptr \ {d}, NEW s \in Side
       PROVE  v.child[s][m] =
                 IF m = min THEN IF s = "left" THEN L ELSE IF q = d THEN r ELSE R
                 ELSE IF m = q /\ s = "left" THEN r
                 ELSE IF p # LEAF /\ m = p /\ s = SideOf(t, d) THEN min
                 ELSE t.child[s][m]
  <2>1. u.child[s][m] = IF m = q /\ s = "left" THEN r
                        ELSE IF m = min /\ s = "right" THEN IF q = d THEN r ELSE R
                        ELSE t.child[s][m]
    BY <1>9
  <2> HIDE DEF L, R, r, q, p
  <2> QED BY <1>1, <1>2, <1>17, <2>1
<1>19. \A s \in Side : v.child[s][d] \in {L, R, LEAF}
  <2>1. \A s \in Side : v.child[s][d] = u.child[s][d]
    BY <1>1, <1>5, <1>17
  <2> QED BY <1>2, <1>9, <2>1
<1>20. v \in Tree /\ v.key = t.key /\ v.root = IF p = LEAF THEN min ELSE t.root
  BY <1>9, <1>11, <1>13, <1>14
<1> QED BY <1>4, <1>15, <1>16, <1>18, <1>19, <1>20

(* The tree v after deleteNode, as its colours are to be seen.              *)
Succeeded(v, S, d, min) ==
  LET L == t.child["left"][d]
      R == t.child["right"][d]
      r == t.child["right"][min]
  IN /\ v \in Tree /\ v.key = t.key
     /\ r \in (S \ {d}) \cup {LEAF} /\ min \in S \ {d}
     /\ \E C : Good(v, S \ {d}, C)
     /\ Outside(v, S \ {d})
     /\ v.root = IF d = t.root THEN min ELSE t.root
     /\ \A m \in Ptr : v.color[m] = IF m = min THEN t.color[d] ELSE t.color[m]
     /\ v.child["left"][min] = L
     /\ v.child["right"][min] = IF min = R THEN r ELSE R
     /\ \A s \in Side, m \in S \ {d, min} :
          v.child[s][m] = IF t.child[s][m] = min THEN r
                          ELSE IF t.child[s][m] = d THEN min
                          ELSE t.child[s][m]
     /\ \A m \in Node \ S, s \in Side : v.child[s][m] = Nil

LEMMA DeleteNodeGood ==
  ASSUME t \in Tree, NEW S, NEW B, Good(t, S, B), Blank(t, S), NEW d, NEW min,
         Successor(S, B, d, min)
  PROVE  Succeeded(deleteNode(d, min), S, d, min)
<1> DEFINE L == t.child["left"][d]
           R == t.child["right"][d]
           r == t.child["right"][min]
           q == t.parent[min]
           p == t.parent[d]
           v == deleteNode(d, min)
           D == S \ {d}
           Cut(X) == IF d \in X THEN X \ {d} ELSE X \ {min}
           C == [m \in Ptr |-> IF m = min THEN B[d] \ {d} ELSE Cut(B[m])]
<1>1. /\ L \in S /\ R \in S /\ r \in S \cup {LEAF} /\ q \in S /\ p \in S \cup {LEAF}
      /\ d \notin {L, R, r, p, min} /\ min \notin {L, r, p, q}
      /\ r \notin {L, R, p, q} \/ r = LEAF
      /\ L # R /\ L # q /\ p # q /\ p # L /\ p # R
      /\ q = d <=> min = R
      /\ q # d => SideOf(t, min) = "left"
      /\ q = d => SideOf(t, min) = "right"
      /\ t.parent[L] = d /\ t.parent[R] = d
      /\ r # LEAF => t.parent[r] = min
      /\ B[min] = {min} \cup B[r] /\ min \notin B[r]
      /\ B[d] = {d} \cup B[L] \cup B[R] /\ B[L] \cap B[R] = {}
      /\ d \notin B[L] /\ d \notin B[R] /\ min \in B[R] /\ min \notin B[L]
      /\ d \notin B[r]
  BY Apart
<1>2. /\ S \subseteq Node /\ S \subseteq Ptr /\ LEAF \in Ptr /\ LEAF \notin S
      /\ "left" \in Side /\ "right" \in Side /\ "left" # "right"
      /\ \A s \in Side : s = "left" \/ s = "right"
      /\ B \in [Ptr -> SUBSET S] /\ B[LEAF] = {}
      /\ t.root \in S \cup {LEAF} /\ B[t.root] = S
  BY PointerAssumption DEF Good, Ptr, Side
<1>3. /\ d \in S /\ min \in S /\ t.child["left"][min] = LEAF
      /\ \A y \in B[R] : y = min \/ Before("left", t.key[min], t.key[y])
  BY DEF Successor
<1>4. /\ v \in Tree /\ v.key = t.key
      /\ v.root = IF p = LEAF THEN min ELSE t.root
      /\ \A m \in Ptr : v.color[m] = IF m = min THEN t.color[d] ELSE t.color[m]
      /\ \A m \in Ptr \ {d} :
           v.parent[m] = IF m = min THEN p
                         ELSE IF m = L \/ m = R THEN min
                         ELSE IF m = r /\ r # LEAF THEN IF q = d THEN min ELSE q
                         ELSE t.parent[m]
      /\ \A m \in Ptr \ {d}, s \in Side :
           v.child[s][m] =
             IF m = min THEN IF s = "left" THEN L ELSE IF q = d THEN r ELSE R
             ELSE IF m = q /\ s = "left" THEN r
             ELSE IF p # LEAF /\ m = p /\ s = SideOf(t, d) THEN min
             ELSE t.child[s][m]
      /\ \A s \in Side : v.child[s][d] \in {L, R, LEAF}
  BY DeleteNodeIs
<1>5. /\ \A m \in S : m = t.root <=> t.parent[m] = LEAF
      /\ \A m \in S : t.key[m] \in Key
  BY DEF Good, Hung, Sorted
<1>6. /\ \A m \in S, s \in Side : t.child[s][m] = min <=> m = q /\ s = SideOf(t, min)
      /\ \A m \in S, s \in Side :
           t.child[s][m] = d <=> p # LEAF /\ m = p /\ s = SideOf(t, d)
      /\ p # LEAF => SideOf(t, d) \in Side
  <2>1. q # LEAF
    BY <1>1, <1>2
  <2>2. \A m \in S, s \in Side : t.child[s][m] = min <=> m = q /\ s = SideOf(t, min)
    BY <1>3, <2>1, SideOfIs
  <2>3. CASE p = LEAF
    <3>1. \A m \in S, s \in Side : t.child[s][m] # d
      BY <1>2, <1>3, <2>3, Neighbours
    <3> QED BY <2>2, <2>3, <3>1
  <2>4. CASE p # LEAF
    <3>1. /\ \A m \in S, s \in Side : t.child[s][m] = d <=> m = p /\ s = SideOf(t, d)
          /\ SideOf(t, d) \in Side
      BY <1>3, <2>4, SideOfIs
    <3> QED BY <2>2, <2>4, <3>1
  <2> QED BY <2>3, <2>4
<1>7. \A Z \in {B[a] : a \in S \cup {LEAF}} : d \in Z => min \in Z
  <2> SUFFICES ASSUME NEW a \in S \cup {LEAF}, d \in B[a] PROVE min \in B[a]
    OBVIOUS
  <2>1. a \in S
    BY <1>2
  <2>2. B[d] \subseteq B[a]
    BY <2>1, Subtrees
  <2> QED BY <1>1, <2>2
<1> HIDE DEF v, L, R, r, q, p
<1>8. /\ \A m \in Ptr : C[m] = IF m = min THEN B[d] \ {d} ELSE Cut(B[m])
      /\ C \in [Ptr -> SUBSET D] /\ C[LEAF] = {}
  <2>1. ASSUME NEW m \in Ptr PROVE C[m] \in SUBSET D
    BY <1>2, <1>3
  <2>2. LEAF # min
    BY <1>2, <1>3
  <2> QED BY <1>2, <2>1, <2>2
<1> HIDE DEF C
<1>9. ASSUME NEW m \in S \ {d, min}, NEW s \in Side
      PROVE  /\ v.child[s][m] = IF t.child[s][m] = min THEN r
                                ELSE IF t.child[s][m] = d THEN min
                                ELSE t.child[s][m]
             /\ t.child[s][m] \in S \cup {LEAF}
             /\ v.child[s][m] \in D \cup {LEAF}
             /\ t.child[s][m] # LEAF => t.parent[t.child[s][m]] = m
             /\ m \in Ptr \ {d}
  <2>1. m \in Ptr \ {d} /\ m # min
    BY <1>2
  <2>2. v.child[s][m] = IF m = q /\ s = "left" THEN r
             ELSE IF p # LEAF /\ m = p /\ s = SideOf(t, d) THEN min
             ELSE t.child[s][m]
    BY <1>4, <2>1
  <2>3. v.child[s][m] = IF t.child[s][m] = min THEN r
                        ELSE IF t.child[s][m] = d THEN min
                        ELSE t.child[s][m]
    BY <1>1, <1>6, <2>1, <2>2
  <2>4. /\ t.child[s][m] \in S \cup {LEAF}
        /\ t.child[s][m] # LEAF => t.parent[t.child[s][m]] = m
    BY Neighbours
  <2> QED BY <1>1, <1>3, <2>1, <2>3, <2>4
<1>10. ASSUME NEW m \in S \ {d, min}, NEW s \in Side
       PROVE  C[v.child[s][m]] = Cut(B[t.child[s][m]])
  <2>1. CASE t.child[s][m] = min
    <3>1. C[r] = Cut(B[r])
      BY <1>1, <1>2, <1>8
    <3>2. Cut(B[r]) = B[r] /\ Cut(B[min]) = B[r]
      BY <1>1, <1>3, SMTT(30)
    <3> QED BY <1>9, <2>1, <3>1, <3>2
  <2>2. CASE t.child[s][m] = d
    <3>1. C[min] = B[d] \ {d} /\ d \in B[d] /\ d # min
      BY <1>1, <1>2, <1>3, <1>8
    <3> QED BY <1>9, <2>2, <3>1
  <2>3. CASE t.child[s][m] # min /\ t.child[s][m] # d
    <3> DEFINE c == t.child[s][m]
    <3>1. v.child[s][m] = c
      BY <1>9, <2>3
    <3>2. c \in Ptr /\ c # min
      BY <1>2, <1>9, <2>3
    <3> HIDE DEF c
    <3>3. C[c] = Cut(B[c])
      BY <1>8, <3>2
    <3> QED BY <3>1, <3>3 DEF c
  <2> QED BY <2>1, <2>2, <2>3
<1>11. ASSUME NEW m \in S \ {d, min} PROVE Nested(v, C, m) /\ Sorted(v, C, m)
  <2> DEFINE X == B[t.child["left"][m]]
             Y == B[t.child["right"][m]]
  <2>1. /\ B[m] = {m} \cup X \cup Y /\ X \cap Y = {} /\ m \notin X /\ m \notin Y
    BY <1>2 DEF Good, Nested
  <2>2. /\ d \in X => min \in X
        /\ d \in Y => min \in Y
        /\ d \in B[m] => min \in B[m]
    BY <1>2, <1>7, <1>9
  <2>3. C[m] = Cut(B[m]) /\ C[v.child["left"][m]] = Cut(X)
        /\ C[v.child["right"][m]] = Cut(Y)
    BY <1>2, <1>8, <1>9, <1>10
  <2> HIDE DEF X, Y
  <2>4. Cut(B[m]) = {m} \cup Cut(X) \cup Cut(Y) /\ Cut(X) \cap Cut(Y) = {}
        /\ m \notin Cut(X) /\ m \notin Cut(Y)
    BY <2>1, <2>2
  <2>5. Nested(v, C, m)
    BY <1>2, <2>3, <2>4 DEF Nested
  <2>6. Sorted(v, C, m)
    <3>1. Sorted(t, B, m)
      BY DEF Good
    <3>2. ASSUME NEW s \in Side PROVE C[v.child[s][m]] \subseteq B[t.child[s][m]]
      BY <1>10
    <3> QED BY <1>4, <3>1, <3>2 DEF Sorted
  <2> QED BY <2>5, <2>6
<1>12. ASSUME NEW m \in S \ {d, min} PROVE Hung(v, D, m)
  <2>0. Hung(t, S, m) /\ m \in Ptr \ {d} /\ m # LEAF
    BY <1>2 DEF Good
  <2>1. ASSUME NEW s \in Side, v.child[s][m] # LEAF
        PROVE  v.parent[v.child[s][m]] = m
    <3>1. CASE t.child[s][m] = min
      <4>1. m = q /\ q # d /\ v.child[s][m] = r /\ r # LEAF
        BY <1>6, <1>9, <2>1, <3>1
      <4>2. r \in Ptr \ {d} /\ r # min /\ r # L /\ r # R
        BY <1>1, <1>2, <4>1
      <4> QED BY <1>4, <4>1, <4>2
    <3>2. CASE t.child[s][m] = d
      <4>1. m = p /\ v.child[s][m] = min
        BY <1>1, <1>6, <1>9, <3>2
      <4> QED BY <1>1, <1>2, <1>3, <1>4, <4>1
    <3>3. CASE t.child[s][m] # min /\ t.child[s][m] # d
      <4> DEFINE c == v.child[s][m]
      <4>1. c = t.child[s][m] /\ t.parent[c] = m /\ c \in Ptr \ {d} /\ c # min
        BY <1>2, <1>9, <2>1, <3>3
      <4>2. c # L /\ c # R /\ (r # LEAF => c # r)
        BY <1>1, <4>1
      <4> HIDE DEF c
      <4>3. v.parent[c] = m
        BY <1>4, <4>1, <4>2
      <4> QED BY <4>3 DEF c
    <3> QED BY <3>1, <3>2, <3>3
  <2>2. CASE m = L \/ m = R
    <3>1. v.parent[m] = min
      BY <1>4, <2>0, <2>2
    <3>2. m # v.root
      <4>1. t.parent[m] # LEAF
        BY <1>1, <1>2, <1>3, <2>2
      <4> QED BY <1>4, <1>5, <4>1
    <3>3. \E s \in Side : v.child[s][min] = m
      <4>1. min \in Ptr \ {d}
        BY <1>1, <1>2, <1>3
      <4>2. v.child["left"][min] = L /\ v.child["right"][min] = IF q = d THEN r ELSE R
        BY <1>2, <1>4, <4>1
      <4> QED BY <1>1, <1>2, <2>2, <4>2
    <3>4. min \in D /\ min # LEAF
      BY <1>1, <1>2, <1>3
    <3> QED BY <1>9, <2>1, <3>1, <3>2, <3>3, <3>4 DEF Hung
  <2>3. CASE m = r
    <3>1. v.parent[m] = IF q = d THEN min ELSE q
      <4>1. m # L /\ m # R
        BY <1>1, <2>0, <2>3
      <4> QED BY <1>4, <2>0, <2>3, <4>1
    <3>2. m # v.root
      <4>1. t.parent[m] # LEAF
        BY <1>1, <1>2, <1>3, <2>0, <2>3
      <4> QED BY <1>4, <1>5, <4>1
    <3>3. \E s \in Side : v.child[s][IF q = d THEN min ELSE q] = m
      <4>1. CASE q = d
        <5>1. v.child["right"][min] = r
          BY <1>1, <1>2, <1>3, <1>4, <4>1
        <5> QED BY <1>2, <2>3, <4>1, <5>1
      <4>2. CASE q # d
        <5>1. v.child["left"][q] = r
          BY <1>1, <1>2, <1>4, <4>2
        <5> QED BY <1>2, <2>3, <4>2, <5>1
      <4> QED BY <4>1, <4>2
    <3>4. (IF q = d THEN min ELSE q) \in D /\ LEAF \notin D
      BY <1>1, <1>2, <1>3
    <3> QED BY <1>9, <2>1, <3>1, <3>2, <3>3, <3>4 DEF Hung
  <2>4. CASE m # L /\ m # R /\ m # r
    <3> DEFINE a == t.parent[m]
    <3>1. v.parent[m] = a
      BY <1>4, <2>0, <2>4
    <3>2. ASSUME a # LEAF
          PROVE  a \in S \ {d, min} /\ \E s \in Side : v.child[s][a] = m
      <4>1. PICK s \in Side : t.child[s][a] = m
        BY <2>0, <3>2 DEF Hung
      <4>2. a \in S
        BY <2>0, <3>2 DEF Hung
      <4>3. a # d
        BY <1>2, <2>4, <4>1 DEF L, R
      <4>4. a # min
        BY <1>2, <1>3, <2>0, <2>4, <4>1 DEF r
      <4>5. v.child[s][a] = m
        BY <1>9, <4>1, <4>2, <4>3, <4>4
      <4> QED BY <4>2, <4>3, <4>4, <4>5
    <3>3. a = LEAF <=> m = v.root
      <4>1. a = LEAF <=> m = t.root
        BY <1>5
      <4>2. p = LEAF <=> d = t.root
        BY <1>3, <1>5 DEF p
      <4> HIDE DEF a
      <4> QED BY <1>4, <4>1, <4>2
    <3> HIDE DEF a
    <3> QED BY <1>9, <2>1, <3>1, <3>2, <3>3 DEF Hung
  <2> QED BY <2>2, <2>3, <2>4
<1>13. /\ v.child["left"][min] = L /\ v.child["right"][min] = IF q = d THEN r ELSE R
       /\ v.parent[min] = p
       /\ v.parent[L] = min
       /\ q = d /\ r # LEAF => v.parent[r] = min
       /\ q # d => v.parent[R] = min
  BY <1>1, <1>2, <1>3, <1>4
<1>14. Hung(v, D, min)
  <2>1. ASSUME NEW s \in Side
        PROVE  /\ v.child[s][min] \in D \cup {LEAF}
               /\ v.child[s][min] # LEAF => v.parent[v.child[s][min]] = min
    BY <1>1, <1>2, <1>13
  <2>2. p = LEAF <=> min = v.root
    <3>1. min # t.root
      BY <1>1, <1>2, <1>3, <1>5 DEF q
    <3> QED BY <1>4, <3>1
  <2>3. p # LEAF => \E s \in Side : v.child[s][p] = min
    <3>1. p # LEAF => p \in Ptr \ {d} /\ p # min /\ p # q
      BY <1>1, <1>2
    <3>2. p # LEAF => v.child[SideOf(t, d)][p] = min
      BY <1>4, <1>6, <3>1
    <3> QED BY <1>6, <3>2
  <2> QED BY <1>1, <1>13, <2>1, <2>2, <2>3 DEF Hung
<1>15. Nested(v, C, min) /\ Sorted(v, C, min)
  <2>1. C[min] = B[L] \cup B[R]
    BY <1>1, <1>2, <1>3, <1>8
  <2>0. /\ C[L] = Cut(B[L]) /\ C[r] = Cut(B[r])
        /\ q # d => C[R] = Cut(B[R])
    BY <1>1, <1>2, <1>8
  <2>2. C[v.child["left"][min]] = B[L]
    <3>1. Cut(B[L]) = B[L]
      BY <1>1
    <3> QED BY <1>13, <2>0, <3>1
  <2>3. C[v.child["right"][min]] = B[R] \ {min}
    <3>1. CASE q = d
      <4>1. Cut(B[r]) = B[r]
        BY <1>1
      <4>2. R = min /\ C[r] = B[r] /\ v.child["right"][min] = r
        BY <1>1, <1>13, <2>0, <3>1, <4>1
      <4> QED BY <1>1, <4>2
    <3>2. CASE q # d
      <4>1. Cut(B[R]) = B[R] \ {min}
        BY <1>1
      <4> QED BY <1>13, <2>0, <3>2, <4>1
    <3> QED BY <3>1, <3>2
  <2>4. Nested(v, C, min)
    BY <1>1, <1>2, <2>1, <2>2, <2>3 DEF Nested
  <2>5. ASSUME NEW x \in B[L] PROVE Before("left", t.key[x], t.key[min])
    <3>1. Before("left", t.key[x], t.key[d])
      BY <1>2, <1>3, Neighbours DEF L
    <3>2. Before("right", t.key[min], t.key[d])
      BY <1>1, <1>2, <1>3, Neighbours DEF R
    <3>3. x \in S
      BY <1>1, <1>2
    <3>4. Before("left", t.key[d], t.key[min])
      BY <1>2, <1>3, <1>5, <3>2, BeforeFacts DEF Other
    <3> QED BY <1>2, <1>3, <1>5, <3>1, <3>3, <3>4, BeforeFacts
  <2>6. ASSUME NEW x \in B[R] \ {min} PROVE Before("right", t.key[x], t.key[min])
    <3>1. Before("left", t.key[min], t.key[x])
      BY <1>3
    <3>2. x \in S
      BY <1>1, <1>2
    <3> QED BY <1>2, <1>3, <1>5, <3>1, <3>2, BeforeFacts DEF Other
  <2>7. Sorted(v, C, min)
    BY <1>2, <1>3, <1>4, <1>5, <2>2, <2>3, <2>5, <2>6 DEF Sorted
  <2> QED BY <2>4, <2>7
<1>16. v.root \in D \cup {LEAF} /\ C[v.root] = D
  <2>1. CASE p = LEAF
    <3>1. d = t.root
      BY <1>3, <1>5, <2>1 DEF p
    <3> QED BY <1>1, <1>2, <1>3, <1>4, <1>8, <2>1, <3>1
  <2>2. CASE p # LEAF
    <3>1. d # t.root /\ min # t.root
      BY <1>1, <1>2, <1>3, <1>5, <2>2 DEF p, q
    <3>2. t.root \in Ptr /\ d \in B[t.root]
      BY <1>2, <1>3
    <3>3. t.root \in D
      BY <1>2, <1>3, <3>1
    <3> QED BY <1>2, <1>4, <1>8, <2>2, <3>1, <3>2, <3>3
  <2> QED BY <2>1, <2>2
<1>17. Good(v, D, C)
  <2>1. D \subseteq Node
    BY <1>2
  <2> QED BY <1>8, <1>11, <1>12, <1>14, <1>15, <1>16, <2>1 DEF Good
<1>18. \A m \in Node \ S, s \in Side : v.child[s][m] = Nil
  <2> SUFFICES ASSUME NEW m \in Node \ S, NEW s \in Side PROVE v.child[s][m] = Nil
    OBVIOUS
  <2>1. m \in Ptr \ {d} /\ m # min /\ m # q /\ m # p
    BY <1>1, <1>3, PointerAssumption DEF Ptr
  <2> QED BY <1>4, <2>1 DEF Blank
<1>19. Outside(v, D)
  <2>1. \A s \in Side : v.child[s][d] \in D \cup {LEAF}
    BY <1>1, <1>4
  <2> QED BY <1>18, <2>1 DEF Outside
<1>20. /\ v \in Tree /\ v.key = t.key /\ r \in D \cup {LEAF} /\ min \in D
       /\ v.root = IF d = t.root THEN min ELSE t.root
  BY <1>1, <1>3, <1>4, <1>5 DEF p
<1>21. v.child["right"][min] = IF min = R THEN r ELSE R
  BY <1>1, <1>13
<1>22. \A s \in Side, m \in S \ {d, min} :
         v.child[s][m] = IF t.child[s][m] = min THEN r
                         ELSE IF t.child[s][m] = d THEN min
                         ELSE t.child[s][m]
  BY <1>9
<1>23. \E E : Good(v, D, E)
  BY <1>17
<1> HIDE DEF v
<1>24. Succeeded(v, S, d, min)
  BY <1>4, <1>13, <1>18, <1>19, <1>20, <1>21, <1>22, <1>23 DEF Succeeded, L, R, r
<1> QED BY <1>24 DEF v
-----------------------------------------------------------------------------
(* Colours *)

RedPair(u, n, s) == u.color[n] = "red" /\ u.color[u.child[s][n]] = "red"

(* A tree whose nodes are S, where nothing points to the other nodes of    *)
(* the pool and LEAF is black.                                             *)
Sound(u, S) ==
  /\ u \in Tree /\ \E B : Good(u, S, B)
  /\ Outside(u, S)
  /\ u.color[LEAF] = "black"

LEMMA SameLinks ==
  ASSUME NEW u, NEW v, NEW S, NEW B, Good(u, S, B),
         v.root = u.root, v.key = u.key, v.parent = u.parent, v.child = u.child
  PROVE  Good(v, S, B)
BY DEF Good, Hung, Nested, Sorted

LEMMA PaintSound ==
  ASSUME NEW u, NEW S, Sound(u, S), NEW n \in Ptr, NEW c \in {"red", "black"},
         n = LEAF => c = "black"
  PROVE  LET v == Paint(u, n, c)
         IN /\ Sound(v, S) /\ v.root = u.root /\ v.key = u.key
            /\ v.parent = u.parent /\ v.child = u.child
            /\ \A m \in Ptr : v.color[m] = IF m = n THEN c ELSE u.color[m]
<1> DEFINE v == Paint(u, n, c)
<1>a. n \in Ptr /\ c \in {"red", "black"}
  OBVIOUS
<1>1. /\ v \in Tree /\ v.root = u.root /\ v.key = u.key
      /\ v.parent = u.parent /\ v.child = u.child
      /\ \A m \in Ptr : v.color[m] = IF m = n THEN c ELSE u.color[m]
  <2>1. u \in Tree
    BY DEF Sound
  <2>2. LET w == Paint(u, n, c)
        IN /\ w \in Tree /\ w.root = u.root /\ w.key = u.key
           /\ w.parent = u.parent /\ w.child = u.child
           /\ \A m \in Ptr : w.color[m] = IF m = n THEN c ELSE u.color[m]
    BY ONLY <2>1, <1>a DEF Tree, Paint
  <2> QED BY ONLY <2>2
<1> HIDE DEF v
<1>2. PICK B : Good(u, S, B)
  BY DEF Sound
<1>3. Good(v, S, B)
  BY <1>1, <1>2, SameLinks
<1>4. Outside(v, S)
  BY <1>1 DEF Outside, Sound
<1>5. v.color[LEAF] = "black"
  BY <1>1 DEF Sound, Ptr
<1> QED BY <1>1, <1>3, <1>4, <1>5 DEF Sound, v

(* What is used of a rotation here.                                        *)
LEMMA RotateSound ==
  ASSUME NEW u, NEW S, Sound(u, S), NEW n \in S, NEW s \in Side,
         u.child[Other(s)][n] # LEAF
  PROVE  LET v == Rotate(u, n, s)
             temp == u.child[Other(s)][n]
         IN /\ Sound(v, S) /\ v.key = u.key /\ v.color = u.color
            /\ \A m \in Node \ S, r \in Side : v.child[r][m] = u.child[r][m]
            /\ temp \in S /\ temp # n
            /\ v.root = IF n = u.root THEN temp ELSE u.root
            /\ v.parent[n] = temp /\ v.parent[temp] = u.parent[n]
            /\ v.child[s][temp] = n
            /\ v.child[Other(s)][temp] = u.child[Other(s)][temp]
            /\ v.child[s][n] = u.child[s][n]
            /\ v.child[Other(s)][n] = u.child[s][temp]
            /\ \A m \in S \ {n, temp}, r \in Side :
                 v.child[r][m] = IF u.child[r][m] = n THEN temp ELSE u.child[r][m]
<1>1. PICK B : Good(u, S, B)
  BY DEF Sound
<1> QED BY <1>1, RotateGood DEF Sound

LEMMA SoundFacts ==
  ASSUME NEW u, NEW S, Sound(u, S)
  PROVE  /\ S \subseteq Ptr /\ S \subseteq Node /\ LEAF \in Ptr /\ LEAF \notin S
         /\ u.root \in S \cup {LEAF}
         /\ u.color[LEAF] = "black" /\ u \in Tree
         /\ \A n \in S, s \in Side :
              /\ u.child[s][n] \in S \cup {LEAF} /\ u.child[s][n] # n
              /\ u.child[s][n] # LEAF =>
                   /\ u.parent[u.child[s][n]] = n
                   /\ u.child[s][n] # u.child[Other(s)][n]
                   /\ u.child[s][n] # u.root
         /\ \A n \in S :
              /\ u.parent[n] \in S \cup {LEAF} /\ u.parent[n] # n
              /\ u.parent[n] = LEAF <=> n = u.root
              /\ u.parent[n] # LEAF => /\ SideOf(u, n) \in Side
                                       /\ u.child[SideOf(u, n)][u.parent[n]] = n
                                       /\ u.parent[u.parent[n]] # n
         /\ \A n \in Ptr : u.color[n] = "red" \/ u.color[n] = "black"
<1>1. PICK B : Good(u, S, B)
  BY DEF Sound
<1>2. /\ S \subseteq Ptr /\ S \subseteq Node /\ LEAF \in Ptr /\ LEAF \notin S
      /\ u.root \in S \cup {LEAF} /\ u.color[LEAF] = "black" /\ u \in Tree
  BY <1>1, PointerAssumption DEF Good, Ptr, Sound
<1>3. ASSUME NEW n \in S
      PROVE  /\ u.parent[n] \in S \cup {LEAF} /\ u.parent[n] # n
             /\ u.parent[n] = LEAF <=> n = u.root
             /\ u.parent[n] # LEAF => /\ SideOf(u, n) \in Side
                                      /\ u.child[SideOf(u, n)][u.parent[n]] = n
                                      /\ u.parent[u.parent[n]] # n
  <2>1. Hung(u, S, n)
    BY <1>1 DEF Good
  <2>2. u.parent[n] \in S \cup {LEAF} /\ (u.parent[n] = LEAF <=> n = u.root)
    BY <2>1 DEF Hung
  <2>3. u.parent[n] # LEAF => SideOf(u, n) \in Side
                              /\ u.child[SideOf(u, n)][u.parent[n]] = n
    BY <1>1, SideOfIs
  <2>4. u.parent[n] # n
    BY <1>1, <1>2, <2>3, Neighbours
  <2>5. u.parent[n] # LEAF => u.parent[u.parent[n]] # n
    <3> SUFFICES ASSUME u.parent[n] # LEAF, u.parent[u.parent[n]] = n PROVE FALSE
      OBVIOUS
    <3> DEFINE q == u.parent[n]
    <3>1. q \in S /\ q # LEAF /\ n # LEAF /\ u.parent[q] = n
      BY <1>2, <2>2
    <3>2. SideOf(u, n) \in Side /\ u.child[SideOf(u, n)][q] = n
      BY <2>3
    <3>3. SideOf(u, q) \in Side /\ u.child[SideOf(u, q)][u.parent[q]] = q
      BY <1>1, <3>1, SideOfIs
    <3> HIDE DEF q
    <3>4. q \notin B[n]
      BY <1>1, <3>1, <3>2, Neighbours
    <3>5. q \in B[q] /\ B[n] = {n} \cup B[q] \cup B[u.child[Other(SideOf(u, q))][n]]
      BY <1>1, <3>1, <3>3, Neighbours
    <3> QED BY <3>4, <3>5
  <2> QED BY <2>2, <2>3, <2>4, <2>5
<1>4. ASSUME NEW n \in S, NEW s \in Side
      PROVE  /\ u.child[s][n] \in S \cup {LEAF} /\ u.child[s][n] # n
             /\ u.child[s][n] # LEAF =>
                  /\ u.parent[u.child[s][n]] = n
                  /\ u.child[s][n] # u.child[Other(s)][n]
  BY <1>1, Neighbours
<1>5. ASSUME NEW n \in S, NEW s \in Side, u.child[s][n] # LEAF
      PROVE  u.child[s][n] # u.root
  <2>1. u.child[s][n] \in S /\ u.parent[u.child[s][n]] # LEAF
    BY <1>2, <1>4, <1>5
  <2> QED BY <1>3, <2>1
<1>6. \A n \in Ptr : u.color[n] = "red" \/ u.color[n] = "black"
  BY <1>2 DEF Tree
<1> QED BY <1>2, <1>3, <1>4, <1>5, <1>6

(* InsertRotate: where the only red child of a red node is n, the child of *)
(* x, the child of g, all on side s, rotating g away from them and taking  *)
(* x black and g red leaves no such pair.                                  *)
LEMMA Hoist ==
  ASSUME NEW u, NEW S, Sound(u, S), NEW g \in S, NEW s \in Side,
         u.child[s][g] # LEAF, u.child[s][u.child[s][g]] # LEAF,
         u.color[u.child[Other(s)][g]] = "black",
         u.color[u.child[s][g]] = "red",
         \A m \in S, r \in Side : RedPair(u, m, r) => u.child[r][m] = u.child[s][u.child[s][g]],
         u.color[u.root] = "black"
  PROVE  LET x == u.child[s][g]
             v == Rotate(Paint(Paint(u, x, "black"), g, "red"), g, Other(s))
         IN /\ Sound(v, S) /\ v.key = u.key
            /\ \A m \in Node \ S, r \in Side : v.child[r][m] = u.child[r][m]
            /\ \A m \in S, r \in Side : ~RedPair(v, m, r)
            /\ v.color[v.root] = "black"
            /\ v.color[u.child[s][x]] = u.color[u.child[s][x]]
<1> DEFINE x == u.child[s][g]
           n == u.child[s][x]
           o == Other(s)
           a == Paint(u, x, "black")
           b == Paint(a, g, "red")
           v == Rotate(b, g, o)
<1>1. /\ S \subseteq Ptr /\ LEAF \in Ptr /\ LEAF \notin S /\ u.root \in S \cup {LEAF}
      /\ x \in S /\ x # g /\ u.parent[x] = g /\ x # u.root /\ x # u.child[o][g]
      /\ g \in Ptr /\ x \in Ptr /\ x # LEAF /\ g # LEAF
  BY SoundFacts
<1>2. /\ o \in Side /\ Other(o) = s /\ o # s /\ \A r \in Side : r = s \/ r = o
  BY Sides
<1>3. /\ n \in S /\ u.parent[n] = x /\ n # x
  <2>1. x \in S
    BY <1>1
  <2> HIDE DEF x
  <2> QED BY <2>1, SoundFacts DEF x
<1>4. n # g /\ u.parent[g] # x
  BY <1>1, <1>3, SoundFacts
<1>5. /\ u.color[u.child[o][g]] = "black" /\ u.color[x] = "red"
      /\ \A m \in S, r \in Side : RedPair(u, m, r) => u.child[r][m] = n
      /\ x # LEAF /\ n # LEAF
  BY <1>1
<1> HIDE DEF x, n, o
<1>6. /\ Sound(a, S) /\ a.root = u.root /\ a.key = u.key
      /\ a.parent = u.parent /\ a.child = u.child
      /\ \A m \in Ptr : a.color[m] = IF m = x THEN "black" ELSE u.color[m]
  BY <1>1, PaintSound
<1> HIDE DEF a
<1>7. /\ Sound(b, S) /\ b.root = a.root /\ b.key = a.key
      /\ b.parent = a.parent /\ b.child = a.child
      /\ \A m \in Ptr : b.color[m] = IF m = g THEN "red" ELSE a.color[m]
  BY <1>1, <1>6, PaintSound
<1> HIDE DEF b
<1>8. /\ b.child[s][g] = x
      /\ b.child = u.child /\ b.root = u.root /\ b.key = u.key /\ b.parent = u.parent
      /\ \A m \in Ptr : b.color[m] = IF m = g THEN "red" ELSE IF m = x THEN "black"
                                     ELSE u.color[m]
  BY <1>6, <1>7 DEF x
<1>9. /\ Sound(v, S) /\ v.key = u.key /\ v.color = b.color
      /\ \A m \in Node \ S, r \in Side : v.child[r][m] = u.child[r][m]
      /\ v.root = IF g = u.root THEN x ELSE u.root
      /\ v.child[o][x] = g
      /\ v.child[s][x] = n
      /\ v.child[o][g] = u.child[o][g]
      /\ v.child[s][g] = u.child[o][x]
      /\ \A m \in S \ {g, x}, r \in Side :
           v.child[r][m] = IF u.child[r][m] = g THEN x ELSE u.child[r][m]
  <2>1. b.child[Other(o)][g] # LEAF
    BY <1>1, <1>2, <1>8
  <2>2. LET temp == b.child[Other(o)][g]
        IN /\ Sound(v, S) /\ v.key = b.key /\ v.color = b.color
           /\ \A m \in Node \ S, r \in Side : v.child[r][m] = b.child[r][m]
           /\ v.root = IF g = b.root THEN temp ELSE b.root
           /\ v.child[o][temp] = g
           /\ v.child[Other(o)][temp] = b.child[Other(o)][temp]
           /\ v.child[o][g] = b.child[o][g]
           /\ v.child[Other(o)][g] = b.child[o][temp]
           /\ \A m \in S \ {g, temp}, r \in Side :
                v.child[r][m] = IF b.child[r][m] = g THEN temp ELSE b.child[r][m]
    <3>1. o \in Side /\ g \in S /\ Sound(b, S)
      BY <1>2, <1>7
    <3> QED BY ONLY <2>1, <3>1, RotateSound
  <2> HIDE DEF v
  <2> QED BY <1>2, <1>8, <2>2 DEF n
<1> HIDE DEF v
<1>10. v.color[v.root] = "black"
  BY <1>1, <1>8, <1>9
<1>11. ASSUME NEW m \in S, NEW r \in Side, RedPair(v, m, r) PROVE FALSE
  <2>1. v.color[m] = "red" /\ v.color[v.child[r][m]] = "red"
    BY <1>11 DEF RedPair
  <2>2. CASE m = x
    BY <1>1, <1>8, <1>9, <2>1, <2>2
  <2>3. CASE m = g
    <3>1. CASE r = o
      <4>1. u.child[o][g] \in Ptr /\ u.child[o][g] # g
        BY <1>1, <1>2, SoundFacts
      <4> QED BY <1>5, <1>8, <1>9, <2>1, <2>3, <3>1, <4>1
    <3>2. CASE r = s
      <4> DEFINE c == u.child[o][x]
      <4>1. c \in Ptr /\ c # x
        BY <1>1, <1>2, SoundFacts
      <4>2. c # LEAF => u.parent[c] = x /\ c # n
        <5>1. c # LEAF => u.parent[c] = x /\ c # u.child[Other(o)][x]
          BY <1>1, <1>2, SoundFacts
        <5> QED BY <1>2, <5>1 DEF n
      <4>3. c # g
        BY <1>1, <1>4, <4>2
      <4>4. u.color[c] = "red" => RedPair(u, x, o)
        BY <1>5 DEF RedPair
      <4>5. u.color[c] # "red"
        BY <1>1, <1>2, <1>5, <4>2, <4>4
      <4>6. v.color[c] = u.color[c]
        BY <1>8, <1>9, <4>1, <4>3
      <4> HIDE DEF c
      <4> QED BY <1>9, <2>1, <2>3, <3>2, <4>5, <4>6 DEF c
    <3> QED BY <1>2, <3>1, <3>2
  <2>4. CASE m # x /\ m # g
    <3> DEFINE c == u.child[r][m]
    <3>1. /\ c \in Ptr /\ (c # LEAF => u.parent[c] = m)
      BY <1>1, SoundFacts
    <3>2. c # x
      BY <1>1, <2>4, <3>1
    <3>3. CASE c = g
      BY <1>1, <1>8, <1>9, <2>1, <2>4, <3>3
    <3>4. CASE c # g
      <4>1. v.child[r][m] = c
        BY <1>9, <2>4, <3>4
      <4>2. u.color[c] = "red" /\ u.color[m] = "red"
        BY <1>1, <1>8, <1>9, <2>1, <2>4, <3>1, <3>2, <3>4, <4>1
      <4>3. c = n
        BY <1>5, <4>2 DEF RedPair
      <4> QED BY <1>3, <1>5, <2>4, <3>1, <4>3
    <3> QED BY <3>3, <3>4
  <2> QED BY <2>2, <2>3, <2>4
<1>12. v.color[n] = u.color[n]
  BY <1>1, <1>3, <1>4, <1>8, <1>9
<1> QED BY <1>9, <1>10, <1>11, <1>12 DEF v, b, a, o, n, x

(* What goes before it where n is the inner child: x is rotated first.     *)
Bent(u, S, g, s) ==
  LET x == u.child[s][g]
      n == u.child[Other(s)][x]
  IN /\ x # LEAF /\ n # LEAF /\ u.color[x] = "red" /\ u.color[n] = "red"
     /\ \A m \in S, r \in Side : RedPair(u, m, r) => u.child[r][m] = n
     /\ u.color[u.root] = "black"

Straight(v, u, S, g, s) ==
  LET x == u.child[s][g]
      n == u.child[Other(s)][x]
  IN /\ Sound(v, S) /\ v.key = u.key /\ v.color = u.color
     /\ \A m \in Node \ S, r \in Side : v.child[r][m] = u.child[r][m]
     /\ v.child[s][g] = n /\ v.child[Other(s)][g] = u.child[Other(s)][g]
     /\ v.child[s][n] = x /\ v.parent[x] = n /\ x \in S /\ n \in S
     /\ \A m \in S, r \in Side : RedPair(v, m, r) => v.child[r][m] = x
     /\ v.color[v.root] = "black"

LEMMA Straightened ==
  ASSUME NEW u, NEW S, Sound(u, S), NEW g \in S, NEW s \in Side, Bent(u, S, g, s)
  PROVE  Straight(Rotate(u, u.child[s][g], s), u, S, g, s)
<1> DEFINE x == u.child[s][g]
           o == Other(s)
           n == u.child[o][x]
           v == Rotate(u, x, s)
<1>1. /\ S \subseteq Ptr /\ LEAF \in Ptr /\ LEAF \notin S /\ u.root \in S \cup {LEAF}
      /\ x \in S /\ x # g /\ u.parent[x] = g /\ x # u.root /\ x # u.child[o][g]
  BY SoundFacts DEF Bent
<1>2. /\ o \in Side /\ Other(o) = s /\ o # s /\ \A r \in Side : r = s \/ r = o
  BY Sides
<1>3. /\ u.color[x] = "red" /\ u.color[n] = "red" /\ n # LEAF
      /\ \A m \in S, r \in Side : RedPair(u, m, r) => u.child[r][m] = n
      /\ u.color[u.root] = "black"
  BY DEF Bent
<1> HIDE DEF x
<1>4. /\ Sound(v, S) /\ v.key = u.key /\ v.color = u.color
      /\ \A m \in Node \ S, r \in Side : v.child[r][m] = u.child[r][m]
      /\ n \in S /\ n # x
      /\ v.root = IF x = u.root THEN n ELSE u.root
      /\ v.parent[x] = n
      /\ v.child[s][n] = x
      /\ v.child[o][n] = u.child[o][n]
      /\ v.child[s][x] = u.child[s][x]
      /\ v.child[o][x] = u.child[s][n]
      /\ \A m \in S \ {x, n}, r \in Side :
           v.child[r][m] = IF u.child[r][m] = x THEN n ELSE u.child[r][m]
  BY <1>1, <1>3, RotateSound
<1>5. u.parent[n] = x /\ n # u.child[s][x] /\ n # g
  <2>1. u.parent[n] = x /\ n # u.child[Other(o)][x]
    BY <1>1, <1>2, <1>3, SoundFacts
  <2>2. n # g
    <3>1. u.child[s][g] = x
      BY DEF x
    <3>2. ASSUME n = g PROVE FALSE
      <4>1. RedPair(u, g, s)
        BY <1>3, <3>1, <3>2 DEF RedPair
      <4>2. x = n
        BY <1>3, <3>1, <4>1
      <4> QED BY <1>4, <4>2
    <3> QED BY <3>2
  <2> QED BY <1>2, <2>1, <2>2
<1> HIDE DEF v, o, n
<1>6. v.child[s][g] = n /\ v.child[o][g] = u.child[o][g]
  BY <1>1, <1>2, <1>4, <1>5 DEF x
<1>7. ASSUME NEW m \in S, NEW r \in Side, RedPair(v, m, r) PROVE v.child[r][m] = x
  <2>1. u.color[m] = "red" /\ u.color[v.child[r][m]] = "red"
    BY <1>4, <1>7 DEF RedPair
  <2>2. CASE m = n
    <3>1. CASE r = o
      <4>1. RedPair(u, n, o)
        BY <1>4, <2>1, <2>2, <3>1 DEF RedPair
      <4>2. u.child[o][n] = n
        BY <1>2, <1>3, <1>4, <4>1
      <4> QED BY <1>2, <1>4, <4>2, SoundFacts
    <3>2. CASE r = s
      BY <1>4, <2>2, <3>2
    <3> QED BY <1>2, <3>1, <3>2
  <2>3. CASE m = x
    <3>1. CASE r = s
      <4>1. RedPair(u, x, s)
        BY <1>4, <2>1, <2>3, <3>1 DEF RedPair
      <4> QED BY <1>1, <1>3, <1>5, <4>1
    <3>2. CASE r = o
      <4>1. RedPair(u, n, s)
        BY <1>3, <1>4, <2>1, <2>3, <3>2 DEF RedPair
      <4>2. u.child[s][n] = n
        BY <1>3, <1>4, <4>1
      <4> QED BY <1>4, <4>2, SoundFacts
    <3> QED BY <1>2, <3>1, <3>2
  <2>4. CASE m # x /\ m # n
    <3>1. CASE u.child[r][m] = x
      <4>1. RedPair(u, m, r)
        BY <1>3, <2>1, <3>1 DEF RedPair
      <4> QED BY <1>3, <1>4, <3>1, <4>1
    <3>2. CASE u.child[r][m] # x
      <4>1. v.child[r][m] = u.child[r][m]
        BY <1>4, <2>4, <3>2
      <4>2. RedPair(u, m, r)
        BY <2>1, <4>1 DEF RedPair
      <4>3. u.child[r][m] = n
        BY <1>3, <4>2
      <4>4. u.parent[n] = m
        BY <1>3, <4>3, SoundFacts
      <4> QED BY <1>5, <2>4, <4>4
    <3> QED BY <3>1, <3>2
  <2> QED BY <2>2, <2>3, <2>4
<1>8. v.color[v.root] = "black"
  BY <1>1, <1>3, <1>4
<1>9. Straight(v, u, S, g, s)
  BY Zenon, <1>1, <1>4, <1>6, <1>7, <1>8 DEF Straight, o, n, x
<1> QED BY <1>9 DEF v, x

(* fixDeleteCollisions. Where the sibling c of n is red, it is painted      *)
(* black and their parent p red, and rotating p makes a black node the     *)
(* sibling of n: it was a child of c.                                      *)
NoPairs(u, S) == \A m \in S, r \in Side : ~RedPair(u, m, r)

Apt(u, S) == Sound(u, S) /\ NoPairs(u, S) /\ u.color[u.root] = "black"

(* Apt trees: v is made from u by moving and painting nodes of S.          *)
Remade(v, u, S) ==
  /\ Apt(v, S) /\ v.key = u.key
  /\ \A m \in Node \ S, r \in Side : v.child[r][m] = u.child[r][m]

LEMMA RedSibling ==
  ASSUME NEW u, NEW S, Apt(u, S), NEW p \in S, NEW s \in Side,
         u.child[s][p] # LEAF, u.color[u.child[s][p]] # "red",
         u.color[u.child[Other(s)][p]] # "black"
  PROVE  LET c == u.child[Other(s)][p]
             v == Rotate(Paint(Paint(u, c, "black"), p, "red"), p, s)
         IN /\ Remade(v, u, S) /\ v.child[s][p] = u.child[s][p]
            /\ v.color[v.child[Other(s)][p]] = "black"
<1> DEFINE o == Other(s)
           c == u.child[o][p]
           n == u.child[s][p]
           a == Paint(u, c, "black")
           b == Paint(a, p, "red")
           v == Rotate(b, p, s)
<1>1. /\ S \subseteq Ptr /\ LEAF \in Ptr /\ LEAF \notin S /\ u.root \in S \cup {LEAF}
      /\ u.color[LEAF] = "black" /\ p \in Ptr
      /\ Sound(u, S) /\ NoPairs(u, S) /\ u.color[u.root] = "black"
  BY SoundFacts DEF Apt
<1>2. /\ o \in Side /\ Other(o) = s /\ o # s /\ \A r \in Side : r = s \/ r = o
  BY Sides
<1>3. /\ c \in S \cup {LEAF} /\ c # LEAF /\ c # p /\ u.parent[c] = p /\ c # n /\ c # u.root
      /\ n \in S /\ n # p /\ u.color[c] = "red" /\ u.color[n] = "black" /\ c \in Ptr
  <2>1. c # LEAF
    BY <1>1
  <2>4. \A m \in Ptr : u.color[m] = "red" \/ u.color[m] = "black"
    BY <1>1, SoundFacts
  <2>2. c \in S \cup {LEAF} /\ c # p /\ u.parent[c] = p /\ c # u.child[Other(o)][p] /\ c # u.root
    BY <1>1, <1>2, <2>1, SoundFacts
  <2>3. n \in S \cup {LEAF} /\ n # LEAF /\ n # p
    BY <1>1, SoundFacts
  <2> QED BY <1>1, <1>2, <2>1, <2>2, <2>3, <2>4
<1> DEFINE i == u.child[s][c]
<1>4. /\ i \in Ptr /\ i # c /\ i # p /\ u.color[i] = "black"
  <2>1. c \in S
    BY <1>3
  <2> HIDE DEF c
  <2>2. i \in S \cup {LEAF} /\ i # c /\ (i # LEAF => u.parent[i] = c)
    BY <1>1, <2>1, SoundFacts
  <2>3. u.parent[p] # c
    BY <1>1, <1>3, <2>1, SoundFacts
  <2>4. u.color[i] # "red"
    BY <1>1, <1>3, <2>1 DEF NoPairs, RedPair
  <2>5. i \in Ptr /\ i # p
    BY <1>1, <2>2, <2>3
  <2> QED BY <1>1, <2>2, <2>4, <2>5, SoundFacts
<1> HIDE DEF c, n, o
<1>6. /\ Sound(a, S) /\ a.root = u.root /\ a.key = u.key
      /\ a.parent = u.parent /\ a.child = u.child
      /\ \A m \in Ptr : a.color[m] = IF m = c THEN "black" ELSE u.color[m]
  BY <1>1, <1>3, PaintSound
<1> HIDE DEF a
<1>7. /\ Sound(b, S) /\ b.root = a.root /\ b.key = a.key
      /\ b.parent = a.parent /\ b.child = a.child
      /\ \A m \in Ptr : b.color[m] = IF m = p THEN "red" ELSE a.color[m]
  <2>1. p \in Ptr /\ p # LEAF /\ Sound(a, S)
    BY <1>1, <1>6
  <2> QED BY ONLY <2>1, PaintSound
<1> HIDE DEF b
<1>8. /\ b.child[o][p] = c /\ b.child[s][p] = n /\ b.child[s][c] = i
      /\ b.child = u.child /\ b.root = u.root /\ b.key = u.key /\ b.parent = u.parent
      /\ \A m \in Ptr : b.color[m] = IF m = p THEN "red" ELSE IF m = c THEN "black"
                                     ELSE u.color[m]
  BY <1>6, <1>7 DEF c, n
<1> HIDE DEF i
<1>9. /\ Sound(v, S) /\ v.key = u.key /\ v.color = b.color
      /\ \A m \in Node \ S, r \in Side : v.child[r][m] = u.child[r][m]
      /\ v.root = IF p = u.root THEN c ELSE u.root
      /\ v.child[s][c] = p
      /\ v.child[s][p] = n
      /\ v.child[o][p] = i
      /\ \A m \in S \ {p, c}, r \in Side :
           v.child[r][m] = IF u.child[r][m] = p THEN c ELSE u.child[r][m]
  <2>1. b.child[Other(s)][p] # LEAF
    BY <1>3, <1>8 DEF o
  <2>2. LET temp == b.child[Other(s)][p]
        IN /\ Sound(v, S) /\ v.key = b.key /\ v.color = b.color
           /\ \A m \in Node \ S, r \in Side : v.child[r][m] = b.child[r][m]
           /\ v.root = IF p = b.root THEN temp ELSE b.root
           /\ v.child[s][temp] = p
           /\ v.child[s][p] = b.child[s][p]
           /\ v.child[Other(s)][p] = b.child[s][temp]
           /\ \A m \in S \ {p, temp}, r \in Side :
                v.child[r][m] = IF b.child[r][m] = p THEN temp ELSE b.child[r][m]
    <3>1. s \in Side /\ p \in S /\ Sound(b, S)
      BY <1>7
    <3> QED BY ONLY <2>1, <3>1, RotateSound
  <2> HIDE DEF v
  <2> QED BY <1>8, <2>2 DEF o
<1> HIDE DEF v
<1>10. v.color[v.root] = "black"
  BY <1>1, <1>3, <1>8, <1>9
<1>11. v.color[n] = "black" /\ v.color[i] = "black"
  BY <1>1, <1>3, <1>4, <1>8, <1>9
<1>12. ASSUME NEW m \in S, NEW r \in Side, RedPair(v, m, r) PROVE FALSE
  <2>1. v.color[m] = "red" /\ v.color[v.child[r][m]] = "red" /\ m \in Ptr
    BY <1>1, <1>12 DEF RedPair
  <2>2. CASE m = c
    BY <1>3, <1>8, <1>9, <2>1, <2>2
  <2>3. CASE m = p
    BY <1>2, <1>9, <1>11, <2>1, <2>3
  <2>4. CASE m # c /\ m # p
    <3>1. CASE u.child[r][m] = p
      BY <1>3, <1>8, <1>9, <2>1, <2>4, <3>1
    <3>2. CASE u.child[r][m] # p
      <4> DEFINE d == u.child[r][m]
      <4>1. d \in Ptr /\ (d # LEAF => u.parent[d] = m)
        BY <1>1, SoundFacts
      <4>2. v.child[r][m] = d /\ d # p
        BY <1>9, <2>4, <3>2
      <4>3. d # c
        BY <1>3, <2>4, <4>1
      <4> HIDE DEF d
      <4>4. u.color[d] = "red" /\ u.color[m] = "red"
        BY <1>8, <1>9, <2>1, <2>4, <4>1, <4>2, <4>3
      <4> QED BY <1>1, <4>4 DEF NoPairs, RedPair, d
    <3> QED BY <3>1, <3>2
  <2> QED BY <2>2, <2>3, <2>4
<1>13. NoPairs(v, S)
  BY <1>12 DEF NoPairs
<1>14. /\ Remade(v, u, S) /\ v.child[s][p] = n
       /\ v.color[v.child[o][p]] = "black"
  BY <1>9, <1>10, <1>11, <1>13 DEF Remade, Apt
<1> QED BY ONLY <1>14 DEF v, b, a, o, n, c

(* Where both children of the sibling c are black, c becomes red, which    *)
(* can make a pair with p only.                                            *)
LEMMA RedderSibling ==
  ASSUME NEW u, NEW S, Apt(u, S), NEW p \in S, NEW s \in Side,
         u.child[s][p] # LEAF,
         \A r \in Side : u.color[u.child[r][u.child[s][p]]] = "black"
  PROVE  LET v == Paint(u, u.child[s][p], "red")
         IN /\ Sound(v, S) /\ v.key = u.key /\ v.child = u.child
            /\ \A m \in S, r \in Side : RedPair(v, m, r) => m = p
            /\ v.color[v.root] = "black"
<1> DEFINE c == u.child[s][p]
           v == Paint(u, c, "red")
<1>1. /\ S \subseteq Ptr /\ LEAF \in Ptr /\ LEAF \notin S /\ u.root \in S \cup {LEAF}
      /\ c \in S /\ c \in Ptr /\ c # u.root /\ u.parent[c] = p
      /\ Sound(u, S) /\ NoPairs(u, S) /\ u.color[u.root] = "black" /\ c # LEAF
      /\ \A r \in Side : u.color[u.child[r][c]] = "black"
  BY SoundFacts DEF Apt
<1> HIDE DEF c
<1>2. /\ Sound(v, S) /\ v.root = u.root /\ v.key = u.key /\ v.child = u.child
      /\ \A m \in Ptr : v.color[m] = IF m = c THEN "red" ELSE u.color[m]
  <2>1. c \in Ptr /\ c # LEAF /\ Sound(u, S)
    BY <1>1
  <2> QED BY ONLY <2>1, PaintSound
<1> HIDE DEF v
<1>3. ASSUME NEW m \in S, NEW r \in Side, RedPair(v, m, r), m # p PROVE FALSE
  <2> DEFINE d == u.child[r][m]
  <2>1. d \in Ptr /\ d # m /\ (d # LEAF => u.parent[d] = m)
    BY <1>1, SoundFacts
  <2>2. v.color[m] = "red" /\ v.color[d] = "red"
    BY <1>2, <1>3 DEF RedPair
  <2>3. d # c
    BY <1>1, <1>3, <2>1
  <2> HIDE DEF d
  <2>4. CASE m = c
    BY <1>1, <1>2, <2>1, <2>2, <2>3, <2>4 DEF d
  <2>5. CASE m # c
    BY <1>1, <1>2, <2>1, <2>2, <2>3, <2>5 DEF NoPairs, RedPair, d
  <2> QED BY <2>4, <2>5
<1>4. v.color[v.root] = "black"
  BY <1>1, <1>2
<1> QED BY <1>2, <1>3, <1>4 DEF v, c

(* Where c is turned over, its red child d rises above it and is black; c  *)
(* becomes red, and both its children are black.                           *)
Overturned(v, u, S, p, s) ==
  LET o == Other(s)
      c == u.child[o][p]
      d == u.child[s][c]
  IN /\ Remade(v, u, S) /\ d \in S /\ v.child[o][p] = d /\ v.color[d] = "black"
     /\ v.parent[c] = d /\ v.child[o][d] = c /\ c \in S /\ v.color[c] = "red"
     /\ v.child[s][p] = u.child[s][p] /\ v.color[p] = u.color[p]

LEMMA TurnedOver ==
  ASSUME NEW u, NEW S, Apt(u, S), NEW p \in S, NEW s \in Side,
         u.child[Other(s)][p] # LEAF,
         u.color[u.child[s][u.child[Other(s)][p]]] # "black",
         u.color[u.child[Other(s)][u.child[Other(s)][p]]] # "red"
  PROVE  LET c == u.child[Other(s)][p]
             d == u.child[s][c]
         IN Overturned(Rotate(Paint(Paint(u, d, "black"), c, "red"), c, Other(s)),
                       u, S, p, s)
<1> DEFINE o == Other(s)
           c == u.child[o][p]
           d == u.child[s][c]
           a == Paint(u, d, "black")
           b == Paint(a, c, "red")
           v == Rotate(b, c, o)
<1>1. /\ S \subseteq Ptr /\ LEAF \in Ptr /\ LEAF \notin S /\ u.root \in S \cup {LEAF}
      /\ u.color[LEAF] = "black" /\ p \in Ptr
      /\ Sound(u, S) /\ NoPairs(u, S) /\ u.color[u.root] = "black"
  BY SoundFacts DEF Apt
<1>2. /\ o \in Side /\ Other(o) = s /\ o # s /\ \A r \in Side : r = s \/ r = o
  BY Sides
<1>3. /\ c \in S /\ c # LEAF /\ c # p /\ u.parent[c] = p /\ c # u.root /\ c \in Ptr
      /\ u.color[d] = "red" /\ u.color[u.child[o][c]] = "black"
  <2>1. /\ c \in S /\ c # LEAF /\ c # p /\ u.parent[c] = p /\ c # u.root /\ c \in Ptr
    BY <1>1, <1>2, SoundFacts
  <2>2. u.color[d] # "black" /\ u.color[u.child[o][c]] # "red"
    OBVIOUS
  <2> HIDE DEF c
  <2>3. d \in Ptr /\ u.child[o][c] \in Ptr
    BY <1>1, <1>2, <2>1, SoundFacts
  <2> HIDE DEF d
  <2> QED BY <1>1, <2>1, <2>2, <2>3, SoundFacts
<1> HIDE DEF c
<1>4. d \in S /\ d # LEAF /\ d # c /\ d # u.child[o][c] /\ u.parent[d] = c /\ d # u.root
      /\ d \in Ptr /\ d # p
  <2>1. d # LEAF
    BY <1>1, <1>3
  <2>2. /\ d \in S \cup {LEAF} /\ d # c /\ d # u.child[o][c] /\ u.parent[d] = c /\ d # u.root
    BY <1>1, <1>3, <2>1, SoundFacts
  <2>3. u.parent[p] # c
    BY <1>1, <1>3, SoundFacts
  <2> QED BY <1>1, <2>1, <2>2, <2>3
<1> DEFINE i == u.child[o][d]
<1>5. /\ i \in Ptr /\ i # d /\ i # c /\ u.color[i] = "black"
  <2>1. d \in S
    BY <1>4
  <2> HIDE DEF d
  <2>2. i \in S \cup {LEAF} /\ i # d /\ (i # LEAF => u.parent[i] = d)
    BY <1>1, <1>2, <2>1, SoundFacts
  <2>3. u.parent[c] # d
    BY <1>3, <1>4
  <2>4. u.color[i] # "red"
    BY <1>1, <1>2, <1>3, <2>1 DEF NoPairs, RedPair
  <2>5. i \in Ptr /\ i # c
    BY <1>1, <1>3, <2>2, <2>3
  <2> QED BY <1>1, <2>2, <2>4, <2>5, SoundFacts
<1> HIDE DEF d, o
<1>6. /\ Sound(a, S) /\ a.root = u.root /\ a.key = u.key
      /\ a.parent = u.parent /\ a.child = u.child
      /\ \A m \in Ptr : a.color[m] = IF m = d THEN "black" ELSE u.color[m]
  BY <1>1, <1>4, PaintSound
<1> HIDE DEF a
<1>7. /\ Sound(b, S) /\ b.root = a.root /\ b.key = a.key
      /\ b.parent = a.parent /\ b.child = a.child
      /\ \A m \in Ptr : b.color[m] = IF m = c THEN "red" ELSE a.color[m]
  <2>1. c \in Ptr /\ c # LEAF /\ Sound(a, S)
    BY <1>3, <1>6
  <2> QED BY ONLY <2>1, PaintSound
<1> HIDE DEF b
<1>8. /\ b.child[s][c] = d /\ b.child[o][d] = i
      /\ b.child = u.child /\ b.root = u.root /\ b.key = u.key /\ b.parent = u.parent
      /\ \A m \in Ptr : b.color[m] = IF m = c THEN "red" ELSE IF m = d THEN "black"
                                     ELSE u.color[m]
  BY <1>6, <1>7 DEF d
<1> HIDE DEF i
<1>9. /\ Sound(v, S) /\ v.key = u.key /\ v.color = b.color
      /\ \A m \in Node \ S, r \in Side : v.child[r][m] = u.child[r][m]
      /\ v.root = IF c = u.root THEN d ELSE u.root
      /\ v.parent[c] = d
      /\ v.child[o][d] = c
      /\ v.child[o][c] = u.child[o][c]
      /\ v.child[s][c] = i
      /\ \A m \in S \ {c, d}, r \in Side :
           v.child[r][m] = IF u.child[r][m] = c THEN d ELSE u.child[r][m]
  <2>1. b.child[Other(o)][c] # LEAF
    BY <1>2, <1>4, <1>8
  <2>2. LET temp == b.child[Other(o)][c]
        IN /\ Sound(v, S) /\ v.key = b.key /\ v.color = b.color
           /\ \A m \in Node \ S, r \in Side : v.child[r][m] = b.child[r][m]
           /\ v.root = IF c = b.root THEN temp ELSE b.root
           /\ v.parent[c] = temp
           /\ v.child[o][temp] = c
           /\ v.child[o][c] = b.child[o][c]
           /\ v.child[Other(o)][c] = b.child[o][temp]
           /\ \A m \in S \ {c, temp}, r \in Side :
                v.child[r][m] = IF b.child[r][m] = c THEN temp ELSE b.child[r][m]
    <3>1. o \in Side /\ c \in S /\ Sound(b, S)
      BY <1>2, <1>3, <1>7
    <3> QED BY ONLY <2>1, <3>1, RotateSound
  <2> HIDE DEF v
  <2> QED BY <1>2, <1>8, <2>2
<1> HIDE DEF v
<1>10. v.color[v.root] = "black"
  <2>1. v.root = u.root /\ u.root \in Ptr /\ u.root # c /\ u.root # d
    BY <1>1, <1>3, <1>4, <1>9
  <2> QED BY <1>1, <1>8, <1>9, <2>1
<1>11. v.color[u.child[o][c]] = "black" /\ v.color[i] = "black" /\ v.color[d] = "black"
       /\ v.color[c] = "red"
  <2>1. u.child[o][c] \in Ptr /\ u.child[o][c] # c
    BY <1>1, <1>2, <1>3, SoundFacts
  <2> QED BY <1>3, <1>4, <1>5, <1>8, <1>9, <2>1
<1>12. ASSUME NEW m \in S, NEW r \in Side, RedPair(v, m, r) PROVE FALSE
  <2>1. v.color[m] = "red" /\ v.color[v.child[r][m]] = "red" /\ m \in Ptr
    BY <1>1, <1>12 DEF RedPair
  <2>2. CASE m = d
    BY <1>11, <2>1, <2>2
  <2>3. CASE m = c
    BY <1>2, <1>9, <1>11, <2>1, <2>3
  <2>4. CASE m # c /\ m # d
    <3>1. CASE u.child[r][m] = c
      BY <1>9, <1>11, <2>1, <2>4, <3>1
    <3>2. CASE u.child[r][m] # c
      <4> DEFINE e == u.child[r][m]
      <4>1. e \in Ptr /\ (e # LEAF => u.parent[e] = m)
        BY <1>1, SoundFacts
      <4>2. v.child[r][m] = e /\ e # c
        BY <1>9, <2>4, <3>2
      <4>3. e # d
        BY <1>4, <2>4, <4>1
      <4> HIDE DEF e
      <4>4. u.color[e] = "red" /\ u.color[m] = "red"
        BY <1>8, <1>9, <2>1, <2>4, <4>1, <4>2, <4>3
      <4> QED BY <1>1, <4>4 DEF NoPairs, RedPair, e
    <3> QED BY <3>1, <3>2
  <2> QED BY <2>2, <2>3, <2>4
<1>13. NoPairs(v, S)
  BY <1>12 DEF NoPairs
<1>14. v.child[o][p] = d
  BY <1>1, <1>2, <1>3, <1>4, <1>9 DEF c
<1>a. v.child[s][p] = u.child[s][p] /\ v.color[p] = u.color[p]
  <2>1. u.child[s][p] # c
    BY <1>1, <1>2, <1>3, SoundFacts DEF c
  <2> QED BY <1>1, <1>3, <1>4, <1>8, <1>9, <2>1
<1>15. /\ Remade(v, u, S)
       /\ d \in S /\ v.child[o][p] = d /\ v.color[d] = "black"
       /\ v.parent[c] = d /\ v.child[o][d] = c /\ c \in S /\ v.color[c] = "red"
       /\ v.child[s][p] = u.child[s][p] /\ v.color[p] = u.color[p]
  BY <1>3, <1>4, <1>9, <1>10, <1>11, <1>13, <1>14, <1>a DEF Remade, Apt
<1>16. Overturned(v, u, S, p, s)
  BY <1>15 DEF Overturned, o, c, d
<1> QED BY ONLY <1>16 DEF v, b, a, o, c, d

(* The last rotation: c, the node that is above p then, is given p's       *)
(* colour, or, where it was turned over, the red node under it is.         *)
LEMMA Lowered ==
  ASSUME NEW v, NEW S, Apt(v, S), NEW p \in S, NEW s \in Side, v.child[Other(s)][p] # LEAF,
         v.color[v.child[Other(s)][p]] = "black", NEW temp \in S,
         \/ temp = v.child[Other(s)][p]
         \/ temp = v.child[Other(s)][v.child[Other(s)][p]] /\ v.color[temp] = "red"
  PROVE  LET w == Paint(Paint(v, temp, v.color[p]), p, "black")
             x == Rotate(PaintFar(w, temp, Other(s)), p, s)
         IN Remade(x, v, S)
<1> DEFINE o == Other(s)
           c == v.child[o][p]
           k == v.color[p]
           a == Paint(v, temp, k)
           w == Paint(a, p, "black")
           f == w.child[o][temp]
           y == PaintFar(w, temp, o)
           x == Rotate(y, p, s)
<1>1. /\ S \subseteq Ptr /\ LEAF \in Ptr /\ LEAF \notin S /\ v.root \in S \cup {LEAF}
      /\ v.color[LEAF] = "black" /\ p \in Ptr /\ temp \in Ptr /\ temp # LEAF
      /\ k \in {"red", "black"}
      /\ Sound(v, S) /\ NoPairs(v, S) /\ v.color[v.root] = "black"
  BY SoundFacts DEF Apt
<1>2. /\ o \in Side /\ Other(o) = s /\ o # s /\ \A r \in Side : r = s \/ r = o
  BY Sides
<1>3. /\ c \in S /\ c # LEAF /\ c # p /\ v.parent[c] = p /\ c # v.root /\ c \in Ptr
      /\ v.parent[p] # c /\ v.color[c] = "black"
  BY <1>1, <1>2, SoundFacts
<1>4. temp = c \/ (temp = v.child[o][c] /\ v.color[temp] = "red")
  OBVIOUS
<1> HIDE DEF c
<1>5. temp # p /\ temp # v.root /\ v.parent[temp] = (IF temp = c THEN p ELSE c)
  BY <1>1, <1>2, <1>3, <1>4, SoundFacts
<1> HIDE DEF o, k
<1>6. /\ Sound(a, S) /\ a.root = v.root /\ a.key = v.key
      /\ a.parent = v.parent /\ a.child = v.child
      /\ \A m \in Ptr : a.color[m] = IF m = temp THEN k ELSE v.color[m]
  <2>1. temp \in Ptr /\ temp # LEAF /\ k \in {"red", "black"} /\ Sound(v, S)
    BY <1>1
  <2> QED BY ONLY <2>1, PaintSound
<1> HIDE DEF a
<1>7. /\ Sound(w, S) /\ w.root = a.root /\ w.key = a.key
      /\ w.parent = a.parent /\ w.child = a.child
      /\ \A m \in Ptr : w.color[m] = IF m = p THEN "black" ELSE a.color[m]
  BY <1>1, <1>6, PaintSound
<1> HIDE DEF w
<1>8. f \in Ptr /\ f # temp
  BY <1>1, <1>2, <1>7, SoundFacts
<1> HIDE DEF f
<1>9. /\ Sound(y, S) /\ y.root = w.root /\ y.key = w.key
      /\ y.parent = w.parent /\ y.child = w.child
      /\ \A m \in Ptr : y.color[m] = IF m = f THEN "black" ELSE w.color[m]
  <2>1. y = Paint(w, f, "black")
    BY DEF PaintFar, f
  <2> HIDE DEF y
  <2> QED BY <1>7, <1>8, <2>1, PaintSound
<1> HIDE DEF y
<1>10. /\ y.child = v.child /\ y.root = v.root /\ y.key = v.key /\ f = v.child[o][temp]
       /\ y.child[o][p] = c
       /\ \A m \in Ptr : y.color[m] = IF m = f \/ m = p THEN "black"
                                      ELSE IF m = temp THEN k ELSE v.color[m]
  BY <1>6, <1>7, <1>9 DEF c, f
<1>11. /\ Sound(x, S) /\ x.key = v.key /\ x.color = y.color
       /\ \A m \in Node \ S, r \in Side : x.child[r][m] = v.child[r][m]
       /\ x.root = IF p = v.root THEN c ELSE v.root
       /\ x.child[s][c] = p
       /\ x.child[o][c] = v.child[o][c]
       /\ \A m \in S \ {p, c}, r \in Side :
            x.child[r][m] = IF v.child[r][m] = p THEN c ELSE v.child[r][m]
  <2>1. y.child[Other(s)][p] # LEAF
    BY <1>3, <1>10 DEF o
  <2>2. LET d == y.child[Other(s)][p]
        IN /\ Sound(x, S) /\ x.key = y.key /\ x.color = y.color
           /\ \A m \in Node \ S, r \in Side : x.child[r][m] = y.child[r][m]
           /\ x.root = IF p = y.root THEN d ELSE y.root
           /\ x.child[s][d] = p
           /\ x.child[Other(s)][d] = y.child[Other(s)][d]
           /\ \A m \in S \ {p, d}, r \in Side :
                x.child[r][m] = IF y.child[r][m] = p THEN d ELSE y.child[r][m]
    <3>1. s \in Side /\ p \in S /\ Sound(y, S)
      BY <1>9
    <3> QED BY ONLY <2>1, <3>1, RotateSound
  <2> HIDE DEF x
  <2> QED BY <1>10, <2>2 DEF o
<1> HIDE DEF x
<1>12. x.color[c] = "red" => temp = c /\ v.color[p] = "red"
  BY <1>3, <1>4, <1>10, <1>11 DEF k
<1>13. x.color[x.root] = "black"
  <2>1. CASE p = v.root
    <3>1. x.color[c] # "red" /\ x.root = c
      BY <1>1, <1>11, <1>12, <2>1
    <3> QED BY <1>1, <1>3, <1>11, <3>1, SoundFacts
  <2>2. CASE p # v.root
    BY <1>1, <1>5, <1>10, <1>11, <2>2
  <2> QED BY <2>1, <2>2
<1>14. ASSUME NEW m \in S, NEW r \in Side, RedPair(x, m, r) PROVE FALSE
  <2> DEFINE e == v.child[r][m]
  <2>1. /\ x.color[m] = "red" /\ x.color[x.child[r][m]] = "red" /\ m \in Ptr
        /\ m # p /\ m # f
    BY <1>1, <1>10, <1>11, <1>14 DEF RedPair
  <2>2. e \in Ptr /\ e # m /\ (e # LEAF => v.parent[e] = m)
    BY <1>1, SoundFacts
  <2>3. ~(v.color[m] = "red" /\ v.color[e] = "red")
    BY <1>1 DEF NoPairs, RedPair
  <2>4. m # c
    <3>1. ASSUME m = c PROVE FALSE
      <4>1. temp = c /\ f = v.child[o][c]
        BY <1>10, <1>12, <2>1, <3>1
      <4>2. x.child[r][m] = p \/ x.child[r][m] = f
        BY <1>2, <1>11, <3>1, <4>1
      <4> QED BY <1>1, <1>8, <1>10, <1>11, <2>1, <4>2
    <3> QED BY <3>1
  <2> HIDE DEF e
  <2>5. x.child[r][m] = IF e = p THEN c ELSE e
    BY <1>11, <2>1, <2>4 DEF e
  <2>6. CASE m = temp
    <3>1. v.color[m] = "red" /\ temp # c
      BY <1>4, <2>4, <2>6
    <3>2. e # p
      BY <1>12, <2>1, <2>5, <3>1
    <3> QED BY <1>10, <1>11, <2>1, <2>2, <2>3, <2>5, <2>6, <3>1, <3>2
  <2>7. CASE m # temp
    <3>1. v.color[m] = "red"
      BY <1>10, <1>11, <2>1, <2>7
    <3>2. e # p
      BY <1>12, <2>1, <2>3, <2>5, <3>1
    <3>3. e # temp
      BY <1>1, <1>5, <2>1, <2>2, <2>4
    <3> QED BY <1>10, <1>11, <2>1, <2>2, <2>3, <2>5, <3>1, <3>2, <3>3
  <2> QED BY <2>6, <2>7
<1>15. Remade(x, v, S)
  BY <1>11, <1>13, <1>14 DEF Remade, Apt, NoPairs
<1> QED BY ONLY <1>15 DEF x, y, w, a, k, o

-----------------------------------------------------------------------------
(* deleteCheckSwitch: the node that has moved up makes the only pairs, and *)
(* none where the tree has lost a red node.                                *)
LEMMA SplicedColours ==
  ASSUME NEW S, Sound(t, S), Blank(t, S), NoPairs(t, S), t.color[t.root] = "black",
         NEW d \in S, NEW s \in Side, t.child[s][d] = LEAF
  PROVE  LET only == t.child[Other(s)][d]
             v == switchNodes(t, d, only)
         IN /\ Sound(v, S \ {d}) /\ v.key = t.key
            /\ \A m \in Node \ S, r \in Side : v.child[r][m] = Nil
            /\ only \in (S \ {d}) \cup {LEAF}
            /\ \A m \in S \ {d}, r \in Side :
                 RedPair(v, m, r) => v.child[r][m] = only /\ t.color[d] = "black"
            /\ v.color[v.root] = "red" => v.root = only /\ t.color[d] = "black"
<1> DEFINE o == Other(s)
           only == t.child[o][d]
           v == switchNodes(t, d, only)
<1>1. PICK B : Good(t, S, B)
  BY DEF Sound
<1>2. /\ S \subseteq Ptr /\ LEAF \in Ptr /\ LEAF \notin S /\ t.root \in S \cup {LEAF}
      /\ t.color[LEAF] = "black" /\ t \in Tree
  BY SoundFacts
<1>3. /\ v \in Tree /\ v.key = t.key /\ v.color = t.color
      /\ only \in (S \ {d}) \cup {LEAF}
      /\ \E C : Good(v, S \ {d}, C)
      /\ Outside(v, S \ {d})
      /\ v.root = IF d = t.root THEN only ELSE t.root
      /\ \A r \in Side, m \in S \ {d} :
           v.child[r][m] = IF t.child[r][m] = d THEN only ELSE t.child[r][m]
      /\ \A m \in Node \ S, r \in Side : v.child[r][m] = Nil
  BY <1>1, <1>2, SpliceGood
<1> HIDE DEF v
<1>4. Sound(v, S \ {d})
  BY <1>2, <1>3 DEF Sound
<1>5. only \in Ptr /\ d \in Ptr /\ (t.color[d] = "red" \/ t.color[d] = "black")
  BY <1>2, <1>3, SoundFacts
<1> HIDE DEF only, o
<1>6. ASSUME NEW m \in S \ {d}, NEW r \in Side, RedPair(v, m, r)
      PROVE  v.child[r][m] = only /\ t.color[d] = "black"
  <2>1. t.color[m] = "red" /\ t.color[v.child[r][m]] = "red" /\ m \in S
    BY <1>3, <1>6 DEF RedPair
  <2>2. t.color[t.child[r][m]] # "red"
    BY <2>1 DEF NoPairs, RedPair
  <2>3. t.child[r][m] = d /\ v.child[r][m] = only
    BY <1>3, <2>1, <2>2
  <2> QED BY <1>5, <2>2, <2>3
<1>7. v.color[v.root] = "red" => v.root = only /\ t.color[d] = "black"
  BY <1>3, <1>5
<1> QED BY <1>3, <1>4, <1>6, <1>7 DEF v, only, o

SucceededInColour(v, S, d, min) ==
  LET r == t.child["right"][min]
  IN /\ Sound(v, S \ {d}) /\ v.key = t.key
     /\ \A m \in Node \ S, s \in Side : v.child[s][m] = Nil
     /\ r \in (S \ {d}) \cup {LEAF}
     /\ \A m \in S \ {d}, s \in Side :
          RedPair(v, m, s) => v.child[s][m] = r /\ t.color[min] = "black"
     /\ v.color[v.root] = "black"

LEMMA SucceededColours ==
  ASSUME NEW S, Sound(t, S), Blank(t, S), NoPairs(t, S), t.color[t.root] = "black",
         NEW B, Good(t, S, B), NEW d, NEW min, Successor(S, B, d, min)
  PROVE  SucceededInColour(deleteNode(d, min), S, d, min)
<1> DEFINE L == t.child["left"][d]
           R == t.child["right"][d]
           r == t.child["right"][min]
           v == deleteNode(d, min)
<1>1. /\ S \subseteq Ptr /\ LEAF \in Ptr /\ LEAF \notin S /\ t.root \in S \cup {LEAF}
      /\ t.color[LEAF] = "black" /\ t \in Tree
  BY SoundFacts
<1>2. /\ v \in Tree /\ v.key = t.key
      /\ r \in (S \ {d}) \cup {LEAF} /\ min \in S \ {d}
      /\ \E C : Good(v, S \ {d}, C)
      /\ Outside(v, S \ {d})
      /\ v.root = IF d = t.root THEN min ELSE t.root
      /\ \A m \in Ptr : v.color[m] = IF m = min THEN t.color[d] ELSE t.color[m]
      /\ v.child["left"][min] = L
      /\ v.child["right"][min] = IF min = R THEN r ELSE R
      /\ \A s \in Side, m \in S \ {d, min} :
           v.child[s][m] = IF t.child[s][m] = min THEN r
                           ELSE IF t.child[s][m] = d THEN min
                           ELSE t.child[s][m]
      /\ \A m \in Node \ S, s \in Side : v.child[s][m] = Nil
  <2> HIDE DEF v
  <2>1. Succeeded(v, S, d, min)
    BY <1>1, DeleteNodeGood DEF v
  <2> QED BY <2>1 DEF Succeeded
<1> HIDE DEF v
<1>3. /\ d \in S /\ L # LEAF /\ R # LEAF /\ min \in B[R]
      /\ "left" \in Side /\ "right" \in Side /\ Other("right") = "left"
      /\ \A s \in Side : s = "left" \/ s = "right"
  BY DEF Successor, Side, Other
<1>4. /\ R \in S /\ L \in S /\ d \notin B[R] /\ min \notin B[L]
      /\ L \in Ptr /\ R \in Ptr /\ L # min
  <2>1. /\ d \notin B[R] /\ R \in S \cup {LEAF} /\ B[R] \cap B[L] = {}
    BY <1>3, Neighbours
  <2>2. L \in S \cup {LEAF} /\ (L # LEAF => L \in B[L])
    BY <1>3, Neighbours
  <2> QED BY <1>1, <1>3, <2>1, <2>2
<1>5. min # t.root
  <2>1. B[min] \subseteq B[R]
    BY <1>3, <1>4, Subtrees
  <2> QED BY <1>1, <1>3, <1>4, <2>1 DEF Good
<1>6. Sound(v, S \ {d})
  BY <1>1, <1>2 DEF Sound
<1>7. v.color[v.root] = "black"
  <2>1. t.root \in Ptr /\ min \in Ptr
    BY <1>1, <1>2
  <2> QED BY <1>2, <1>5, <2>1
<1>8. /\ r \in Ptr /\ r # min
      /\ \A m \in Ptr : t.color[m] = "red" \/ t.color[m] = "black"
      /\ \A m \in S, s \in Side : t.color[m] # "red" \/ t.color[t.child[s][m]] # "red"
      /\ \A m \in S, s \in Side : t.child[s][m] \in Ptr
  <2>1. r # min
    BY <1>2, <1>3, Neighbours
  <2> QED BY <1>1, <1>2, <2>1, SoundFacts DEF NoPairs, RedPair
<1> HIDE DEF r, L, R
<1>9. t.color[d] # "red" \/ (t.color[L] # "red" /\ t.color[R] # "red")
  BY <1>3, <1>8 DEF L, R
<1>10. t.color[min] # "red" \/ t.color[r] # "red"
  BY <1>2, <1>3, <1>8 DEF r
<1>11. ASSUME NEW m \in S \ {d}, NEW s \in Side, RedPair(v, m, s)
       PROVE  v.child[s][m] = r /\ t.color[min] = "black"
  <2>1. v.color[m] = "red" /\ v.color[v.child[s][m]] = "red" /\ m \in Ptr /\ min \in Ptr
    BY <1>1, <1>2, <1>11 DEF RedPair
  <2>2. CASE m = min
    <3>1. t.color[d] = "red"
      BY <1>2, <2>1, <2>2
    <3>2. CASE s = "left"
      BY <1>2, <1>4, <1>9, <2>1, <2>2, <3>1, <3>2
    <3>3. CASE s = "right"
      <4>1. CASE min = R
        BY <1>2, <1>8, <1>9, <2>1, <2>2, <3>1, <3>3, <4>1
      <4>2. CASE min # R
        BY <1>2, <1>4, <1>9, <2>1, <2>2, <3>1, <3>3, <4>2
      <4> QED BY <4>1, <4>2
    <3> QED BY <1>3, <3>2, <3>3
  <2>3. CASE m # min
    <3> DEFINE c == t.child[s][m]
    <3>1. /\ v.child[s][m] = IF c = min THEN r ELSE IF c = d THEN min ELSE c
      BY <1>2, <2>3
    <3>2. t.color[m] = "red" /\ t.color[c] # "red" /\ c \in Ptr
      BY <1>2, <1>8, <2>1, <2>3
    <3> HIDE DEF c
    <3>3. CASE c = min
      BY <1>8, <2>1, <3>1, <3>2, <3>3
    <3>4. CASE c # min
      BY <1>2, <2>1, <3>1, <3>2, <3>4
    <3> QED BY <3>3, <3>4
  <2> QED BY <2>2, <2>3
<1>12. SucceededInColour(v, S, d, min)
  BY <1>2, <1>6, <1>7, <1>11 DEF SucceededInColour, r
<1> QED BY <1>12 DEF v

LEMMA RemovedIs ==
  ASSUME NEW S, Sound(t, S), Blank(t, S), NoPairs(t, S), t.color[t.root] = "black",
         NEW d \in S
  PROVE  LET e == Removed(d)
         IN /\ Sound(e.tree, S \ {d}) /\ e.tree.key = t.key
            /\ \A m \in Node \ S, r \in Side : e.tree.child[r][m] = Nil
            /\ e.temp \in (S \ {d}) \cup {LEAF} /\ e.color \in {"red", "black"}
            /\ \A m \in S \ {d}, r \in Side :
                 RedPair(e.tree, m, r) => /\ e.tree.child[r][m] = e.temp
                                          /\ e.color = "black"
            /\ e.tree.color[e.tree.root] = "red" => /\ e.tree.root = e.temp
                                                    /\ e.color = "black"
<1> DEFINE left == t.child["left"][d]
           right == t.child["right"][d]
           only == IF left = LEAF THEN right ELSE left
           min == Outermost(right, "left")
<1>1. PICK B : Good(t, S, B)
  BY DEF Sound
<1>2. /\ S \subseteq Ptr /\ d \in Ptr /\ d # LEAF
      /\ \A m \in Ptr : t.color[m] \in {"red", "black"}
      /\ "left" \in Side /\ "right" \in Side
      /\ Other("left") = "right" /\ Other("right") = "left"
  BY SoundFacts DEF Side, Other
<1>3. CASE left = LEAF \/ right = LEAF
  <2>1. PICK s \in Side : t.child[s][d] = LEAF /\ only = t.child[Other(s)][d]
    <3>1. CASE left = LEAF
      BY <1>2, <3>1
    <3>2. CASE left # LEAF
      BY <1>2, <1>3, <3>2
    <3> QED BY <3>1, <3>2
  <2> DEFINE v == switchNodes(t, d, only)
  <2>2. Removed(d) = [tree |-> v, temp |-> only, color |-> t.color[d]]
    BY <1>3 DEF Removed
  <2> HIDE DEF only
  <2>3. LET x == t.child[Other(s)][d]
            y == switchNodes(t, d, x)
        IN /\ Sound(y, S \ {d}) /\ y.key = t.key
           /\ \A m \in Node \ S, r \in Side : y.child[r][m] = Nil
           /\ x \in (S \ {d}) \cup {LEAF}
           /\ \A m \in S \ {d}, r \in Side :
                RedPair(y, m, r) => y.child[r][m] = x /\ t.color[d] = "black"
           /\ y.color[y.root] = "red" => y.root = x /\ t.color[d] = "black"
    BY <2>1, SplicedColours
  <2>4. /\ Sound(v, S \ {d}) /\ v.key = t.key
        /\ \A m \in Node \ S, r \in Side : v.child[r][m] = Nil
        /\ only \in (S \ {d}) \cup {LEAF}
        /\ \A m \in S \ {d}, r \in Side :
             RedPair(v, m, r) => v.child[r][m] = only /\ t.color[d] = "black"
        /\ v.color[v.root] = "red" => v.root = only /\ t.color[d] = "black"
    BY ONLY <2>1, <2>3
  <2> HIDE DEF v
  <2> QED BY <1>2, <2>2, <2>4
<1>4. CASE left # LEAF /\ right # LEAF
  <2> DEFINE v == deleteNode(d, min)
             r == t.child["right"][min]
  <2>1. Removed(d) = [tree |-> v, temp |-> r, color |-> t.color[min]]
    BY <1>4 DEF Removed
  <2>2. right \in S
    BY <1>1, <1>2, <1>4, Neighbours
  <2>3. LET x == Outermost(right, "left")
        IN /\ x \in B[right] /\ x \in S /\ t.child["left"][x] = LEAF
           /\ \A y \in B[right] : y = x \/ Before("left", t.key[x], t.key[y])
    <3>1. Outside(t, S) /\ "left" \in Side
      BY <1>2 DEF Sound
    <3> HIDE DEF right
    <3> QED BY <1>1, <2>2, <3>1, OutermostIs
  <2> HIDE DEF min
  <2>4. Successor(S, B, d, min)
    BY <1>4, <2>3 DEF Successor, min
  <2>5. /\ Sound(v, S \ {d}) /\ v.key = t.key
        /\ \A m \in Node \ S, s \in Side : v.child[s][m] = Nil
        /\ r \in (S \ {d}) \cup {LEAF}
        /\ \A m \in S \ {d}, s \in Side :
             RedPair(v, m, s) => v.child[s][m] = r /\ t.color[min] = "black"
        /\ v.color[v.root] = "black"
    <3> HIDE DEF v
    <3>1. SucceededInColour(v, S, d, min)
      BY <1>1, <2>4, SucceededColours DEF v
    <3> QED BY <3>1 DEF SucceededInColour
  <2>6. t.color[min] \in {"red", "black"}
    BY <1>2, <2>3 DEF min
  <2> HIDE DEF v, r
  <2> QED BY <2>1, <2>5, <2>6
<1> QED BY <1>3, <1>4

-----------------------------------------------------------------------------
(* The inductive invariant. TypeOK, SearchTree, NodesAccounted and RedsApart *)
(* are read off it: the linked nodes are a tree, nothing points to a free  *)
(* node, and while colours are being restored every red pair is at node.   *)
Held ==
  /\ Sound(t, Linked)
  /\ free \subseteq Node /\ \A m \in free, s \in Side : t.child[s][m] = Nil
  /\ node \in Ptr /\ doomed \in Ptr \ free
  /\ pc \in {"idle", "insertFix", "deleteFix", "free", "panic"}
  /\ pc \in {"idle", "insertFix"} => doomed = LEAF
  /\ pc \in {"deleteFix", "free"} => doomed \in Node
  /\ call \in Calls \cup {NoCall}

Coloured ==
  /\ pc = "insertFix" =>
       /\ node \in Linked /\ t.color[node] = "red"
       /\ \A m \in Linked, s \in Side : RedPair(t, m, s) => t.child[s][m] = node
  /\ pc = "deleteFix" =>
       /\ node \in Linked \cup {LEAF}
       /\ \A m \in Linked, s \in Side :
            RedPair(t, m, s) => m = node \/ t.child[s][m] = node
  /\ pc \in {"insertFix", "deleteFix"} /\ t.color[t.root] = "red" => t.root = node
  /\ pc \in {"idle", "free"} => t.color[t.root] = "black" /\ NoPairs(t, Linked)

(* A step that leaves the pool alone, and moves no key of the tree.        *)
Same == /\ Linked' = Linked /\ call' = call
        /\ \A m \in Linked : t'.key[m] = t.key[m]

LEMMA Kept ==
  ASSUME Held, UNCHANGED <<free, doomed, call>>,
         Sound(t', Linked), t'.key = t.key,
         \A m \in Node \ Linked, r \in Side : t'.child[r][m] = t.child[r][m],
         node' \in Ptr,
         \/ pc = "insertFix" /\ pc' \in {"insertFix", "idle"}
         \/ pc = "deleteFix" /\ pc' \in {"deleteFix", "free", "panic"}
  PROVE  Held' /\ Same
<1>1. Linked' = Linked
  BY DEF Linked
<1>2. \A m \in free, s \in Side : m \in Node \ Linked
  BY DEF Held, Linked
<1> QED BY <1>1, <1>2 DEF Held, Same

LEMMA AskIsHeld ==
  ASSUME Held, Coloured, NEW k \in Key, NEW op \in {"Insert", "Delete", "Find"},
         Begin(op, k), UNCHANGED <<t, free, pc, node, doomed>>
  PROVE  Held' /\ Coloured' /\ Linked' = Linked
<1>1. Linked' = Linked
  BY DEF Linked
<1>2. call' \in Calls
  <2>1. (FindNode(k) # Nil) \in BOOLEAN
    OBVIOUS
  <2> QED BY <2>1 DEF Begin, Calls
<1> QED BY <1>1, <1>2 DEF Held, Coloured

LEMMA FindNodeHeld ==
  ASSUME Held, NEW k \in Key
  PROVE  \/ FindNode(k) \in Linked /\ t.key[FindNode(k)] = k /\ FindNode(k) # Nil
            /\ \A m \in Linked : t.key[m] = k => m = FindNode(k)
         \/ FindNode(k) = Nil /\ \A m \in Linked : t.key[m] # k
<1>1. PICK B : Good(t, Linked, B)
  BY DEF Held, Sound
<1>2. Outside(t, Linked) /\ Nil \notin Linked
  BY PointerAssumption DEF Held, Sound, Linked, Ptr
<1> QED BY <1>1, <1>2, FindNodeIs

LEMMA InsertNewHeld ==
  ASSUME Held, Coloured, NEW k \in Key, NEW n \in free, InsertNew(k, n)
  PROVE  /\ Held' /\ Coloured' /\ Linked' = Linked \cup {n} /\ n \notin Linked
         /\ t'.key = [t.key EXCEPT ![n] = k]
<1> DEFINE v == Link(n, k)
<1>1. /\ pc = "idle" /\ doomed = LEAF /\ FindNode(k) = Nil
      /\ call' = [op |-> "Insert", key |-> k, found |-> FALSE]
      /\ free' = free \ {n} /\ t' = v /\ node' = n /\ pc' = "insertFix"
      /\ doomed' = doomed
  BY DEF InsertNew, Begin, Held
<1>2. /\ n \in Node \ Linked /\ free \subseteq Node /\ LEAF \notin Node
      /\ Linked' = Linked \cup {n}
  BY <1>1, PointerAssumption DEF Held, Linked
<1>3. /\ \A m \in Linked : t.key[m] # k
      /\ t.color[t.root] = "black" /\ NoPairs(t, Linked)
  BY <1>1, FindNodeHeld DEF Coloured
<1>4. PICK B : Good(t, Linked, B)
  BY DEF Held, Sound
<1>5. t \in Tree /\ Outside(t, Linked) /\ t.color[LEAF] = "black"
  BY DEF Held, Sound
<1>6. /\ v \in Tree /\ v.key = [t.key EXCEPT ![n] = k]
      /\ \E C : Good(v, Linked \cup {n}, C)
      /\ Outside(v, Linked \cup {n})
      /\ v.root = IF t.root = LEAF THEN n ELSE t.root
      /\ \A m \in Ptr : v.color[m] = IF m = n THEN "red" ELSE t.color[m]
      /\ \A r \in Side : /\ v.child[r][n] = LEAF
                         /\ \A m \in Linked : v.child[r][m] \in {t.child[r][m], n}
      /\ \A r \in Side, m \in Ptr \ {n} :
           m \notin Linked => v.child[r][m] = t.child[r][m]
  <2> HIDE DEF v
  <2>1. Extended(v, Linked, n, k)
    BY <1>2, <1>3, <1>4, <1>5, LinkGood DEF v
  <2> DEFINE p == LastNode(k)
  <2>2. \A r \in Side, m \in Ptr \ {n} :
          v.child[r][m] = IF p # LEAF /\ m = p /\ r = Toward(k, p) THEN n
                          ELSE t.child[r][m]
    BY <2>1 DEF Extended
  <2>3. p = LEAF \/ p \in Linked
    BY <2>1 DEF Extended
  <2> HIDE DEF p
  <2>4. \A r \in Side, m \in Ptr \ {n} :
          m \notin Linked => v.child[r][m] = t.child[r][m]
    BY <2>2, <2>3
  <2> QED BY <2>1, <2>4 DEF Extended
<1> HIDE DEF v
<1>7. Sound(v, Linked \cup {n})
  BY <1>2, <1>5, <1>6 DEF Sound, Ptr
<1>8. ASSUME NEW m \in Linked \cup {n}, NEW r \in Side, RedPair(v, m, r)
      PROVE  v.child[r][m] = n
  <2>1. v.color[m] = "red" /\ v.color[v.child[r][m]] = "red" /\ m \in Ptr
    BY <1>2, <1>8 DEF RedPair, Linked, Ptr
  <2>2. CASE m = n
    BY <1>2, <1>5, <1>6, <2>1, <2>2 DEF Ptr
  <2>3. CASE m # n
    <3>1. SUFFICES ASSUME v.child[r][m] = t.child[r][m], v.child[r][m] # n PROVE FALSE
      BY <1>6, <2>3
    <3>2. t.child[r][m] \in Ptr
      BY <2>3, SoundFacts DEF Held, Ptr, Linked
    <3>3. t.color[m] = "red" /\ t.color[t.child[r][m]] = "red"
      BY <1>6, <2>1, <2>3, <3>1, <3>2
    <3> QED BY <1>3, <2>3, <3>3 DEF NoPairs, RedPair
  <2> QED BY <2>2, <2>3
<1>9. v.color[v.root] = "red" => v.root = n
  <2>1. t.root \in Ptr
    BY <1>5 DEF Tree
  <2> QED BY <1>3, <1>6, <2>1
<1>10. v.color[n] = "red"
  BY <1>2, <1>6 DEF Ptr
<1>11. Coloured'
  BY <1>1, <1>2, <1>8, <1>9, <1>10 DEF Coloured
<1>12. \A m \in free \ {n}, s \in Side : v.child[s][m] = Nil
  BY <1>6 DEF Held, Linked, Ptr
<1>13. call' \in Calls
  BY <1>1 DEF Calls
<1>14. Held'
  BY <1>1, <1>2, <1>7, <1>12, <1>13 DEF Held, Ptr
<1> QED BY <1>1, <1>2, <1>6, <1>11, <1>14

LEMMA InsertRecolourHeld ==
  ASSUME Held, Coloured, InsertRecolour
  PROVE  Held' /\ Coloured' /\ Same
<1> DEFINE p == t.parent[node]
           g == t.parent[p]
           temp == t.child[Other(SideOf(t, p))][g]
           a == Paint(t, p, "black")
           b == Paint(a, temp, "black")
           v == Paint(b, g, "red")
<1>1. /\ pc = "insertFix" /\ t.color[p] = "red" /\ g # LEAF /\ t.color[temp] = "red"
      /\ t' = v /\ node' = g /\ UNCHANGED <<free, pc, doomed, call>>
  BY DEF InsertRecolour, RedParent
<1>2. /\ Sound(t, Linked) /\ node \in Linked
      /\ \A m \in Linked, s \in Side : RedPair(t, m, s) => t.child[s][m] = node
      /\ t.color[t.root] = "red" => t.root = node
  BY <1>1 DEF Held, Coloured
<1>3. /\ Linked \subseteq Ptr /\ LEAF \in Ptr /\ LEAF \notin Linked
      /\ t.root \in Linked \cup {LEAF} /\ t.color[LEAF] = "black"
  BY <1>2, SoundFacts
<1>4. /\ p \in Linked /\ p # node /\ node # t.root
  BY <1>1, <1>2, <1>3, SoundFacts
<1>5. /\ g \in Linked /\ g # p /\ SideOf(t, p) \in Side /\ g # node
  <2> HIDE DEF p
  <2>1. /\ g \in Linked \cup {LEAF} /\ g # p /\ SideOf(t, p) \in Side
    BY <1>1, <1>2, <1>4, SoundFacts
  <2>2. g # node
    BY <1>1, <1>2, <1>3, <1>4, SoundFacts DEF p
  <2> QED BY <1>1, <2>1, <2>2
<1>6. temp \in Linked /\ temp # LEAF /\ temp # g
  <2> HIDE DEF p, g
  <2>1. Other(SideOf(t, p)) \in Side
    BY <1>5, Sides
  <2>2. temp \in Linked \cup {LEAF} /\ temp # g
    BY <1>2, <1>5, <2>1, SoundFacts
  <2> QED BY <1>1, <1>3, <2>2
<1> HIDE DEF temp, g, p
<1>7. /\ Sound(a, Linked) /\ a.root = t.root /\ a.key = t.key /\ a.child = t.child
      /\ \A m \in Ptr : a.color[m] = IF m = p THEN "black" ELSE t.color[m]
  BY <1>2, <1>3, <1>4, PaintSound
<1> HIDE DEF a
<1>8. /\ Sound(b, Linked) /\ b.root = a.root /\ b.key = a.key /\ b.child = a.child
      /\ \A m \in Ptr : b.color[m] = IF m = temp THEN "black" ELSE a.color[m]
  BY <1>3, <1>6, <1>7, PaintSound
<1> HIDE DEF b
<1>9. /\ Sound(v, Linked) /\ v.root = b.root /\ v.key = b.key /\ v.child = b.child
      /\ \A m \in Ptr : v.color[m] = IF m = g THEN "red" ELSE b.color[m]
  <2>1. g \in Ptr /\ g # LEAF /\ Sound(b, Linked)
    BY <1>3, <1>5, <1>8
  <2> QED BY ONLY <2>1, PaintSound
<1> HIDE DEF v
<1>10. /\ Sound(v, Linked) /\ v.root = t.root /\ v.key = t.key /\ v.child = t.child
       /\ \A m \in Ptr : v.color[m] = IF m = g THEN "red"
                                      ELSE IF m = p \/ m = temp THEN "black"
                                      ELSE t.color[m]
  BY <1>7, <1>8, <1>9
<1>11. Held' /\ Same
  BY <1>1, <1>3, <1>5, <1>10, Kept
<1>12. ASSUME NEW m \in Linked, NEW s \in Side, RedPair(v, m, s)
       PROVE  v.child[s][m] = g
  <2> DEFINE c == t.child[s][m]
  <2>1. /\ m \in Ptr /\ v.color[m] = "red" /\ v.color[c] = "red"
    BY <1>3, <1>10, <1>12 DEF RedPair
  <2>2. c \in Ptr /\ c # m /\ (c # LEAF => t.parent[c] = m)
    BY <1>2, <1>3, SoundFacts
  <2>3. RedPair(t, m, s) => c = node
    BY <1>2
  <2>4. SUFFICES ASSUME c # g PROVE FALSE
    BY <1>10
  <2> HIDE DEF c
  <2>5. c # p /\ c # temp /\ t.color[c] = "red"
    BY <1>10, <2>1, <2>2, <2>4
  <2>6. CASE m = g
    <3>1. SideOf(t, p) \in Side /\ t.child[SideOf(t, p)][g] = p
      BY <1>2, <1>3, <1>4, <1>5, SoundFacts DEF g
    <3>2. s = SideOf(t, p) \/ s = Other(SideOf(t, p))
      BY <3>1, Sides
    <3> QED BY <2>5, <2>6, <3>1, <3>2 DEF c, temp
  <2>7. CASE m # g
    <3>1. m # p /\ t.color[m] = "red"
      BY <1>10, <2>1, <2>7
    <3>2. c = node
      BY <2>3, <2>5, <3>1 DEF RedPair, c
    <3> QED BY <1>2, <1>3, <2>2, <3>1, <3>2 DEF p
  <2> QED BY <2>6, <2>7
<1>13. v.color[v.root] = "red" => v.root = g
  BY <1>2, <1>3, <1>4, <1>10
<1>14. v.color[g] = "red" /\ Linked' = Linked
  BY <1>3, <1>5, <1>10, <1>11 DEF Same
<1>15. Coloured'
  BY <1>1, <1>5, <1>12, <1>13, <1>14 DEF Coloured
<1> QED BY <1>11, <1>15

(* The tree u that InsertRotate turns at g: all links from g to n are on   *)
(* side s, which a first rotation sees to where they are not.              *)
Climbing(u, n, g, s) ==
  /\ Sound(u, Linked) /\ u.key = t.key
  /\ \A m \in Node \ Linked, r \in Side : u.child[r][m] = t.child[r][m]
  /\ g \in Linked /\ s \in Side /\ n \in Linked
  /\ u.child[s][g] # LEAF /\ u.child[s][u.child[s][g]] = n
  /\ u.color[u.child[Other(s)][g]] = "black"
  /\ u.color[u.child[s][g]] = "red" /\ u.color[n] = "red"
  /\ \A m \in Linked, r \in Side : RedPair(u, m, r) => u.child[r][m] = n
  /\ u.color[u.root] = "black"
  /\ \/ u = t
     \/ \E p \in Linked : /\ u = Rotate(t, p, s) /\ t.child[Other(s)][p] # LEAF
                          /\ t.color[p] = "red"
                          /\ t.color[t.child[Other(s)][p]] = "red"

LEMMA InsertRotateIs ==
  ASSUME Held, Coloured, InsertRotate
  PROVE  \E u, n, g, s :
           /\ Climbing(u, n, g, s) /\ node' = n /\ pc = "insertFix"
           /\ UNCHANGED <<free, pc, doomed, call>>
           /\ t' = Rotate(Paint(Paint(u, u.child[s][g], "black"), g, "red"), g, Other(s))
<1> DEFINE p == t.parent[node]
           g == t.parent[p]
           s == SideOf(t, p)
           o == Other(s)
           Straighten == node = t.child[o][p]
           u == IF Straighten THEN Rotate(t, p, s) ELSE t
           n == IF Straighten THEN p ELSE node
           v == Rotate(Paint(Paint(u, u.parent[n], "black"), g, "red"), g, o)
<1>1. /\ pc = "insertFix" /\ t.color[p] = "red" /\ g # LEAF
      /\ t.color[t.child[o][g]] = "black"
      /\ t' = v /\ node' = n /\ UNCHANGED <<free, pc, doomed, call>>
  <2>1. pc = "insertFix" /\ t.color[p] = "red" /\ g # LEAF
    BY Zenon DEF InsertRotate, RedParent
  <2>2. t.color[t.child[o][g]] = "black"
    BY Zenon DEF InsertRotate
  <2>3. UNCHANGED <<free, pc, doomed, call>> /\ node' = n
    BY Zenon DEF InsertRotate
  <2>4. t' = v
    BY Zenon DEF InsertRotate
  <2> HIDE DEF v, u, n, Straighten
  <2> QED BY <2>1, <2>2, <2>3, <2>4
<1> HIDE DEF v, u, n, Straighten
<1>2. /\ Sound(t, Linked) /\ node \in Linked /\ t.color[node] = "red"
      /\ \A m \in Linked, r \in Side : RedPair(t, m, r) => t.child[r][m] = node
      /\ t.color[t.root] = "red" => t.root = node
  BY <1>1 DEF Held, Coloured
<1>3. /\ Linked \subseteq Ptr /\ LEAF \in Ptr /\ LEAF \notin Linked
      /\ t.root \in Linked \cup {LEAF} /\ t.color[LEAF] = "black"
  BY <1>2, SoundFacts
<1>4. /\ p \in Linked /\ p # node /\ node # t.root /\ node # LEAF
      /\ SideOf(t, node) \in Side /\ t.child[SideOf(t, node)][p] = node
  BY <1>1, <1>2, <1>3, SoundFacts
<1>5. /\ g \in Linked /\ s \in Side /\ t.child[s][g] = p
  <2> HIDE DEF p
  <2> QED BY <1>1, <1>2, <1>4, SoundFacts
<1>6. o \in Side /\ Other(o) = s /\ \A r \in Side : r = s \/ r = o
  BY <1>5, Sides
<1>7. t.color[t.root] = "black"
  BY <1>2, <1>3, <1>4, SoundFacts
<1> HIDE DEF p, g, s, o
<1> USE DEF u, n
<1>8. /\ Sound(u, Linked) /\ u.key = t.key
      /\ \A m \in Node \ Linked, r \in Side : u.child[r][m] = t.child[r][m]
      /\ u.child[s][g] # LEAF /\ u.child[s][u.child[s][g]] = n /\ n \in Linked
      /\ u.color[u.child[o][g]] = "black"
      /\ u.color[u.child[s][g]] = "red" /\ u.color[n] = "red"
      /\ \A m \in Linked, r \in Side : RedPair(u, m, r) => u.child[r][m] = n
      /\ u.color[u.root] = "black" /\ u.parent[n] = u.child[s][g]
  <2>1. CASE Straighten
    <3>1. Straight(Rotate(t, t.child[s][g], s), t, Linked, g, s)
      <4>1. node = t.child[Other(s)][p]
        BY <2>1 DEF o, Straighten
      <4>2. Bent(t, Linked, g, s)
        BY <1>1, <1>2, <1>3, <1>4, <1>5, <1>7, <4>1 DEF Bent
      <4> QED BY <1>2, <1>5, <4>2, Straightened
    <3>2. u = Rotate(t, p, s) /\ n = p /\ node = t.child[Other(s)][p]
      BY <2>1 DEF o, Straighten
    <3> HIDE DEF u, n
    <3>3. /\ Sound(u, Linked) /\ u.key = t.key /\ u.color = t.color
          /\ \A m \in Node \ Linked, r \in Side : u.child[r][m] = t.child[r][m]
          /\ u.child[s][g] = node /\ u.child[o][g] = t.child[o][g]
          /\ u.child[s][node] = p /\ u.parent[p] = node
          /\ \A m \in Linked, r \in Side : RedPair(u, m, r) => u.child[r][m] = p
          /\ u.color[u.root] = "black"
      BY <1>5, <3>1, <3>2 DEF o, Straight
    <3> QED BY <1>1, <1>2, <1>4, <3>2, <3>3
  <2>2. CASE ~Straighten
    <3>1. u = t /\ n = node /\ t.child[s][p] = node
      BY <1>4, <1>6, <2>2 DEF Straighten
    <3> HIDE DEF u, n
    <3> QED BY <1>1, <1>2, <1>3, <1>4, <1>5, <1>7, <3>1 DEF p
  <2> QED BY <2>1, <2>2
<1> HIDE DEF u, n
<1>9. \/ u = t
      \/ \E q \in Linked : /\ u = Rotate(t, q, s) /\ t.child[Other(s)][q] # LEAF
                           /\ t.color[q] = "red"
                           /\ t.color[t.child[Other(s)][q]] = "red"
  <2>1. CASE Straighten
    <3>1. u = Rotate(t, p, s) /\ t.child[Other(s)][p] = node
      BY <2>1 DEF o, u, Straighten
    <3> QED BY <1>1, <1>2, <1>4, <3>1
  <2>2. CASE ~Straighten
    BY <2>2 DEF u
  <2> QED BY <2>1, <2>2
<1>10. Climbing(u, n, g, s)
  <2>1. u.color[u.child[Other(s)][g]] = "black"
    BY <1>8 DEF o
  <2> QED BY <1>5, <1>8, <1>9, <2>1 DEF Climbing
<1>11. v = Rotate(Paint(Paint(u, u.child[s][g], "black"), g, "red"), g, Other(s))
  BY <1>8 DEF v, o
<1> QED BY <1>1, <1>10, <1>11

LEMMA InsertRotateHeld ==
  ASSUME Held, Coloured, InsertRotate
  PROVE  Held' /\ Coloured' /\ Same
<1>1. PICK u, n, g, s :
        /\ Climbing(u, n, g, s) /\ node' = n /\ pc = "insertFix"
        /\ UNCHANGED <<free, pc, doomed, call>>
        /\ t' = Rotate(Paint(Paint(u, u.child[s][g], "black"), g, "red"), g, Other(s))
  BY InsertRotateIs
<1> DEFINE v == Rotate(Paint(Paint(u, u.child[s][g], "black"), g, "red"), g, Other(s))
<1>2. /\ Sound(u, Linked) /\ u.key = t.key
      /\ \A m \in Node \ Linked, r \in Side : u.child[r][m] = t.child[r][m]
      /\ g \in Linked /\ s \in Side /\ n \in Linked
      /\ u.child[s][g] # LEAF /\ u.child[s][u.child[s][g]] = n
      /\ u.color[u.child[Other(s)][g]] = "black"
      /\ u.color[u.child[s][g]] = "red" /\ u.color[n] = "red"
      /\ \A m \in Linked, r \in Side : RedPair(u, m, r) => u.child[r][m] = n
      /\ u.color[u.root] = "black"
  BY <1>1 DEF Climbing
<1>3. Linked \subseteq Ptr /\ n # LEAF
  BY <1>2, SoundFacts
<1>4. /\ Sound(v, Linked) /\ v.key = u.key
      /\ \A m \in Node \ Linked, r \in Side : v.child[r][m] = u.child[r][m]
      /\ \A m \in Linked, r \in Side : ~RedPair(v, m, r)
      /\ v.color[v.root] = "black" /\ v.color[n] = u.color[n]
  <2>1. LET x == u.child[s][g]
            w == Rotate(Paint(Paint(u, x, "black"), g, "red"), g, Other(s))
        IN /\ Sound(w, Linked) /\ w.key = u.key
           /\ \A m \in Node \ Linked, r \in Side : w.child[r][m] = u.child[r][m]
           /\ \A m \in Linked, r \in Side : ~RedPair(w, m, r)
           /\ w.color[w.root] = "black"
           /\ w.color[u.child[s][x]] = u.color[u.child[s][x]]
    <3>1. u.child[s][u.child[s][g]] # LEAF
      BY <1>2, <1>3
    <3>2. \A m \in Linked, r \in Side :
            RedPair(u, m, r) => u.child[r][m] = u.child[s][u.child[s][g]]
      BY <1>2
    <3> HIDE DEF v
    <3> QED BY <1>2, <3>1, <3>2, Hoist
  <2> QED BY <1>2, <2>1
<1>5. t' = v
  BY <1>1
<1> HIDE DEF v
<1>6. Held' /\ Same
  <2>1. Sound(t', Linked) /\ t'.key = t.key /\ node' \in Ptr
    BY <1>1, <1>2, <1>3, <1>4, <1>5
  <2>2. \A m \in Node \ Linked, r \in Side : t'.child[r][m] = t.child[r][m]
    BY <1>2, <1>4, <1>5
  <2> QED BY <1>1, <2>1, <2>2, Kept
<1>7. Linked' = Linked
  BY <1>6 DEF Same
<1>8. Coloured'
  BY <1>1, <1>2, <1>4, <1>5, <1>7 DEF Coloured
<1> QED BY <1>6, <1>8

LEMMA InsertEndHeld ==
  ASSUME Held, Coloured, InsertEnd
  PROVE  Held' /\ Coloured' /\ Same
<1> DEFINE v == Paint(t, t.root, "black")
<1>1. /\ pc = "insertFix" /\ ~RedParent /\ t' = v /\ pc' = "idle" /\ node' = LEAF
      /\ UNCHANGED <<free, doomed, call>>
  BY DEF InsertEnd
<1>2. /\ Sound(t, Linked) /\ node \in Linked
      /\ \A m \in Linked, s \in Side : RedPair(t, m, s) => t.child[s][m] = node
      /\ t.color[t.root] = "red" => t.root = node
  BY <1>1 DEF Held, Coloured
<1>3. /\ Linked \subseteq Ptr /\ LEAF \in Ptr /\ LEAF \notin Linked
      /\ t.root \in Linked \cup {LEAF} /\ t.color[LEAF] = "black"
  BY <1>2, SoundFacts
<1>4. /\ Sound(v, Linked) /\ v.root = t.root /\ v.key = t.key /\ v.child = t.child
      /\ \A m \in Ptr : v.color[m] = IF m = t.root THEN "black" ELSE t.color[m]
  <2>1. t.root \in Ptr /\ Sound(t, Linked)
    BY <1>2, <1>3
  <2> QED BY ONLY <2>1, PaintSound
<1> HIDE DEF v
<1>5. ASSUME NEW m \in Linked, NEW s \in Side, RedPair(v, m, s) PROVE FALSE
  <2>1. m \in Ptr /\ t.child[s][m] \in Ptr
    BY <1>2, <1>3, SoundFacts
  <2>2. RedPair(t, m, s) /\ m # t.root
    BY <1>4, <1>5, <2>1 DEF RedPair
  <2>3. t.child[s][m] = node /\ t.color[m] = "red"
    BY <1>2, <2>2 DEF RedPair
  <2>4. t.parent[node] = m
    BY <1>2, <1>3, <2>3, SoundFacts
  <2>5. t.parent[m] # LEAF
    BY <1>2, <2>2, SoundFacts
  <2> QED BY <1>1, <2>3, <2>4, <2>5 DEF RedParent
<1>6. v.color[v.root] = "black"
  BY <1>3, <1>4
<1>7. Held' /\ Same
  BY <1>1, <1>3, <1>4, Kept
<1>8. Linked' = Linked
  BY <1>7 DEF Same
<1>9. Coloured'
  BY <1>1, <1>5, <1>6, <1>8 DEF Coloured, NoPairs
<1> QED BY <1>7, <1>9

LEMMA DeletePresentHeld ==
  ASSUME Held, Coloured, NEW k \in Deletable, DeletePresent(k)
  PROVE  /\ Held' /\ Coloured' /\ Linked' = Linked \ {FindNode(k)}
         /\ FindNode(k) \in Linked /\ t.key[FindNode(k)] = k
         /\ t'.key = t.key
<1> DEFINE d == FindNode(k)
           e == Removed(d)
           D == Linked \ {d}
<1>1. /\ pc = "idle" /\ doomed = LEAF /\ FindNode(k) # Nil /\ doomed' = d
      /\ call' = [op |-> "Delete", key |-> k, found |-> TRUE]
      /\ t' = e.tree /\ node' = e.temp /\ free' = free
      /\ pc' = IF e.color = "black" THEN "deleteFix" ELSE "free"
  BY DEF DeletePresent, Begin, Held
<1>2. k \in Key
  BY DeletableAssumption
<1>3. d \in Linked /\ t.key[d] = k
  BY <1>1, <1>2, FindNodeHeld
<1>4. /\ Sound(t, Linked) /\ NoPairs(t, Linked) /\ t.color[t.root] = "black"
      /\ Blank(t, Linked)
  BY <1>1, PointerAssumption DEF Held, Coloured, Blank, Linked
<1> HIDE DEF d
<1>5. /\ Linked' = D /\ d \in Node /\ d \in Ptr \ free /\ Linked \subseteq Ptr
  BY <1>1, <1>3, PointerAssumption DEF Linked, Held, Ptr
<1>6. /\ Sound(e.tree, D) /\ e.tree.key = t.key
      /\ \A m \in Node \ Linked, r \in Side : e.tree.child[r][m] = Nil
      /\ e.temp \in D \cup {LEAF} /\ e.color \in {"red", "black"}
      /\ \A m \in D, r \in Side :
           RedPair(e.tree, m, r) => e.tree.child[r][m] = e.temp /\ e.color = "black"
      /\ e.tree.color[e.tree.root] = "red" => e.tree.root = e.temp /\ e.color = "black"
  <2> HIDE DEF e
  <2>1. LET f == Removed(d)
        IN /\ Sound(f.tree, Linked \ {d}) /\ f.tree.key = t.key
           /\ \A m \in Node \ Linked, r \in Side : f.tree.child[r][m] = Nil
           /\ f.temp \in (Linked \ {d}) \cup {LEAF} /\ f.color \in {"red", "black"}
           /\ \A m \in Linked \ {d}, r \in Side :
                RedPair(f.tree, m, r) => f.tree.child[r][m] = f.temp /\ f.color = "black"
           /\ f.tree.color[f.tree.root] = "red" => f.tree.root = f.temp /\ f.color = "black"
    BY <1>3, <1>4, RemovedIs
  <2> QED BY <2>1 DEF e
<1> HIDE DEF e
<1>7. call' \in Calls
  BY <1>1, <1>2 DEF Calls
<1>8. \A m \in free, s \in Side : m \in Node \ Linked
  BY DEF Linked, Held
<1>9. node' \in Ptr
  BY <1>1, <1>5, <1>6 DEF Ptr
<1>10. Held'
  BY <1>1, <1>5, <1>6, <1>7, <1>8, <1>9 DEF Held
<1>11. e.tree.color[e.tree.root] \in {"red", "black"}
  <2>1. e.tree.root \in Ptr
    BY <1>5, <1>6, SoundFacts
  <2> QED BY <1>6, <2>1, SoundFacts
<1>12. Coloured'
  <2>1. CASE e.color = "black"
    BY <1>1, <1>5, <1>6, <2>1 DEF Coloured
  <2>2. CASE e.color = "red"
    <3>1. NoPairs(e.tree, D) /\ e.tree.color[e.tree.root] = "black"
      BY <1>6, <1>11, <2>2 DEF NoPairs
    <3> QED BY <1>1, <1>5, <2>2, <3>1 DEF Coloured
  <2> QED BY <1>6, <2>1, <2>2
<1> QED BY <1>1, <1>3, <1>5, <1>6, <1>10, <1>12 DEF d

(* v is u turned at n, whose red child trades colours with it.             *)
Exchanged(v, u, S, n, s) ==
  LET c == u.child[Other(s)][n]
  IN /\ n \in S /\ s \in Side /\ c # LEAF
     /\ u.color[c] = "red" /\ u.color[n] = "black"
     /\ v = Rotate(Paint(Paint(u, c, "black"), n, "red"), n, s)

(* What BlackSibling is, in a round of the loop.                           *)
SiblingOf(b) ==
  /\ b.p \in Linked /\ b.side \in Side /\ b.p = t.parent[node]
  /\ Remade(b.tree, t, Linked)
  /\ b.tree.child[b.side][b.p] = node /\ b.tree.parent[node] = b.p
  /\ b.temp = b.tree.child[Other(b.side)][b.p] /\ b.tree.color[b.temp] = "black"
  /\ b.tree = t \/ Exchanged(b.tree, t, Linked, b.p, b.side)

LEMMA SiblingIs ==
  ASSUME Held, Coloured, pc = "deleteFix", Short
  PROVE  SiblingOf(BlackSibling) /\ node \in Linked
<1> DEFINE p == t.parent[node]
           s == SideOf(t, node)
           o == Other(s)
           c == t.child[o][p]
           u == IF t.color[c] = "red"
                THEN Rotate(Paint(Paint(t, c, "black"), p, "red"), p, s)
                ELSE t
           b == [tree |-> u, p |-> p, side |-> s, temp |-> u.child[o][p]]
<1>1. BlackSibling = b
  BY Zenon DEF BlackSibling
<1> HIDE DEF u
<1>2. /\ node \in Linked /\ node # LEAF /\ node # t.root /\ t.color[node] = "black"
      /\ Sound(t, Linked)
  BY DEF Held, Coloured, Short
<1>3. NoPairs(t, Linked)
  BY <1>2 DEF Coloured, NoPairs, RedPair
<1>4. t.color[t.root] = "black"
  <2>1. t.root \in Ptr
    BY <1>2, SoundFacts
  <2> QED BY <1>2, <2>1, SoundFacts DEF Coloured
<1>5. Apt(t, Linked)
  BY <1>2, <1>3, <1>4 DEF Apt
<1>6. /\ p \in Linked /\ s \in Side /\ t.child[s][p] = node
  <2>1. p # LEAF
    BY <1>2, SoundFacts
  <2> QED BY <1>2, <2>1, SoundFacts
<1>7. t.color[c] = "red" \/ t.color[c] = "black"
  <2>1. o \in Side
    BY <1>6, Sides
  <2> HIDE DEF p, o
  <2>2. c \in Ptr
    BY <1>2, <1>6, <2>1, SoundFacts
  <2> HIDE DEF c
  <2> QED BY <1>2, <2>2, SoundFacts
<1> HIDE DEF p, s
<1>8. Remade(u, t, Linked) /\ u.child[s][p] = node /\ u.color[u.child[o][p]] = "black"
  <2>1. CASE t.color[c] = "red"
    <3>1. LET d == t.child[Other(s)][p]
              v == Rotate(Paint(Paint(t, d, "black"), p, "red"), p, s)
          IN /\ Remade(v, t, Linked) /\ v.child[s][p] = t.child[s][p]
             /\ v.color[v.child[Other(s)][p]] = "black"
      <4>1. /\ t.child[s][p] # LEAF /\ t.color[t.child[s][p]] # "red"
            /\ t.color[t.child[Other(s)][p]] # "black"
        BY <1>2, <1>6, <2>1
      <4> QED BY <1>5, <1>6, <4>1, RedSibling
    <3> QED BY <1>6, <2>1, <3>1 DEF u
  <2>2. CASE t.color[c] # "red"
    <3>1. u = t
      BY <2>2 DEF u
    <3> QED BY <1>5, <1>6, <1>7, <2>2, <3>1 DEF Remade
  <2> QED BY <2>1, <2>2
<1>9. u.parent[node] = p
  BY <1>2, <1>6, <1>8, SoundFacts DEF Remade, Apt
<1>10. u = t \/ Exchanged(u, t, Linked, p, s)
  <2>1. CASE t.color[c] = "red"
    <3>1. c # LEAF /\ t.color[p] # "red" /\ p \in Ptr /\ o \in Side
      BY <1>2, <1>3, <1>6, <2>1, Sides, SoundFacts DEF NoPairs, RedPair
    <3>2. t.color[p] = "black"
      BY <1>2, <3>1, SoundFacts
    <3>3. u = Rotate(Paint(Paint(t, c, "black"), p, "red"), p, s)
      BY <2>1 DEF u
    <3> QED BY <1>6, <2>1, <3>1, <3>2, <3>3 DEF Exchanged
  <2>2. CASE t.color[c] # "red"
    BY <2>2 DEF u
  <2> QED BY <2>1, <2>2
<1>11. SiblingOf(b)
  BY <1>6, <1>8, <1>9, <1>10 DEF SiblingOf, p
<1> QED BY <1>1, <1>2, <1>11

LEMMA DeleteNoSiblingHeld ==
  ASSUME Held, Coloured, DeleteNoSibling
  PROVE  Held' /\ Coloured' /\ Same
<1>1. pc = "deleteFix" /\ pc' = "panic" /\ UNCHANGED <<t, free, node, doomed, call>>
  BY DEF DeleteNoSibling
<1>2. Linked' = Linked
  BY <1>1 DEF Linked
<1> QED BY <1>1, <1>2 DEF Held, Coloured, Same

LEMMA DeleteRecolourHeld ==
  ASSUME Held, Coloured, DeleteRecolour
  PROVE  Held' /\ Coloured' /\ Same
<1> DEFINE b == BlackSibling
           u == b.tree
           o == Other(b.side)
           v == Paint(u, u.child[o][b.p], "red")
<1>1. /\ pc = "deleteFix" /\ Short /\ b.temp # LEAF
      /\ \A s \in Side : u.color[u.child[s][b.temp]] = "black"
      /\ t' = Paint(u, b.temp, "red") /\ node' = u.parent[node]
      /\ UNCHANGED <<free, pc, doomed, call>>
  BY Zenon DEF DeleteRecolour
<1>2. SiblingOf(b)
  BY <1>1, SiblingIs
<1> HIDE DEF b
<1>3. /\ b.p \in Linked /\ b.side \in Side /\ o \in Side /\ Apt(u, Linked)
      /\ Linked \subseteq Ptr /\ u.key = t.key
      /\ \A m \in Node \ Linked, r \in Side : u.child[r][m] = t.child[r][m]
      /\ b.temp = u.child[o][b.p] /\ node' = b.p /\ t' = v
  <2>1. /\ b.p \in Linked /\ b.side \in Side /\ Apt(u, Linked) /\ u.key = t.key
        /\ \A m \in Node \ Linked, r \in Side : u.child[r][m] = t.child[r][m]
        /\ b.temp = u.child[o][b.p] /\ u.parent[node] = b.p
    BY <1>2 DEF SiblingOf, Remade
  <2>2. t' = v /\ node' = b.p
    BY Zenon, <1>1, <2>1
  <2>3. Linked \subseteq Ptr
    BY <2>1, SoundFacts DEF Apt
  <2>4. o \in Side
    BY <2>1, Sides
  <2> HIDE DEF v, u, o
  <2> QED BY <2>1, <2>2, <2>3, <2>4
<1> HIDE DEF v, u, o
<1>4. /\ Sound(v, Linked) /\ v.key = u.key /\ v.child = u.child
      /\ \A m \in Linked, r \in Side : RedPair(v, m, r) => m = b.p
      /\ v.color[v.root] = "black"
  <2>1. u.child[o][b.p] # LEAF
    BY <1>1, <1>3
  <2>2. \A r \in Side : u.color[u.child[r][u.child[o][b.p]]] = "black"
    BY Zenon, <1>1, <1>3
  <2> QED BY <1>3, <2>1, <2>2, RedderSibling DEF v
<1>5. Held' /\ Same
  <2>1. Sound(t', Linked) /\ t'.key = t.key /\ node' \in Ptr
    BY <1>3, <1>4
  <2>2. \A m \in Node \ Linked, r \in Side : t'.child[r][m] = t.child[r][m]
    BY <1>3, <1>4
  <2> QED BY <1>1, <2>1, <2>2, Kept
<1>6. Linked' = Linked
  BY <1>5 DEF Same
<1>7. Coloured'
  BY <1>1, <1>3, <1>4, <1>6 DEF Coloured
<1> QED BY <1>5, <1>7

(* The tree v that DeleteRotate turns at the last: c, the sibling of node, *)
(* is black, its far child is red, and temp is one of the two.             *)
Lowering(v, p, s, temp) ==
  LET c == v.child[Other(s)][p]
      f == v.child[Other(s)][c]
  IN /\ Remade(v, t, Linked) /\ p \in Linked /\ s \in Side /\ v.child[s][p] = node
     /\ c # LEAF /\ v.color[c] = "black" /\ v.color[f] = "red"
     /\ temp \in Linked /\ temp \in {c, f}

(* How v comes about: from the tree where the sibling of node is black.    *)
Facing(v, p, s, temp) ==
  LET u == BlackSibling.tree
      c == u.child[Other(s)][p]
  IN /\ SiblingOf(BlackSibling) /\ p = BlackSibling.p /\ s = BlackSibling.side
     /\ v = u \/ Exchanged(v, u, Linked, c, Other(s))
     /\ temp = v.child[Other(s)][p] \/ v.color[p] = "black" \/ TurnUnderRed

LEMMA DeleteRotateIs ==
  ASSUME Held, Coloured, DeleteRotate
  PROVE  \E v, p, s, temp :
           /\ Lowering(v, p, s, temp) /\ Facing(v, p, s, temp)
           /\ pc = "deleteFix" /\ Short /\ UNCHANGED <<free, pc, doomed, call>>
           /\ t' = Rotate(PaintFar(Paint(Paint(v, temp, v.color[p]), p, "black"), temp,
                                   Other(s)), p, s)
           /\ node' = t'.root
<1> DEFINE b == BlackSibling
           u == b.tree
           near == b.side
           far == Other(near)
           v == IF Turn
                THEN Rotate(Paint(Paint(u, u.child[near][b.temp], "black"), b.temp, "red"),
                            b.temp, far)
                ELSE u
           temp == IF Turn THEN v.child[far][v.parent[b.temp]] ELSE b.temp
           w == Paint(Paint(v, temp, v.color[b.p]), b.p, "black")
           x == Rotate(PaintFar(w, temp, far), b.p, near)
           p == b.p
           c == u.child[far][p]
<1>1. pc = "deleteFix" /\ Short /\ b.temp # LEAF
  BY Zenon DEF DeleteRotate
<1>2. \E s \in Side : u.color[u.child[s][b.temp]] = "red"
  BY Zenon DEF DeleteRotate
<1>3. t' = x /\ node' = x.root /\ UNCHANGED <<free, pc, doomed, call>>
  BY Zenon DEF DeleteRotate
<1>4. Turn <=> u.color[u.child[far][b.temp]] = "black"
  BY Zenon DEF Turn
<1>5. SiblingOf(b)
  BY <1>1, SiblingIs
<1> HIDE DEF b, Turn
<1>6. /\ p \in Linked /\ near \in Side /\ Remade(u, t, Linked)
      /\ b.temp = c /\ u.color[c] = "black"
  BY <1>5 DEF SiblingOf
<1>7. c # LEAF /\ (\E s \in Side : u.color[u.child[s][c]] = "red")
      /\ (Turn <=> u.color[u.child[far][c]] = "black")
  BY Zenon, <1>1, <1>2, <1>4, <1>6
<1>8. /\ v = (IF Turn THEN Rotate(Paint(Paint(u, u.child[near][c], "black"), c, "red"), c, far)
              ELSE u)
      /\ temp = (IF Turn THEN v.child[far][v.parent[c]] ELSE c)
  BY Zenon, <1>6
<1>9. x = Rotate(PaintFar(Paint(Paint(v, temp, v.color[p]), p, "black"), temp, far), p, near)
  BY Zenon
<1> HIDE DEF x, w, temp, v
<1>10. far \in Side /\ Other(far) = near /\ \A s \in Side : s = near \/ s = far
  BY <1>6, Sides
<1>11. Apt(u, Linked) /\ Sound(u, Linked)
  BY <1>6 DEF Remade, Apt
<1> HIDE DEF u, p, far, near
<1>12. c \in Linked
  <2>1. c \in Linked \cup {LEAF}
    BY <1>6, <1>10, <1>11, SoundFacts
  <2> QED BY <1>7, <2>1
<1>13. /\ Lowering(v, p, near, temp)
       /\ v = u \/ Exchanged(v, u, Linked, c, far)
       /\ temp = v.child[far][p] \/ (Turn /\ v.color[p] = u.color[p])
  <2>1. CASE Turn
    <3>1. u.color[u.child[near][c]] = "red"
      BY <1>7, <1>10, <2>1
    <3>2. LET e == u.child[Other(near)][p]
              d == u.child[near][e]
          IN Overturned(Rotate(Paint(Paint(u, d, "black"), e, "red"), e, Other(near)),
                        u, Linked, p, near)
      <4>1. /\ u.child[Other(near)][p] # LEAF
            /\ u.color[u.child[near][u.child[Other(near)][p]]] # "black"
            /\ u.color[u.child[Other(near)][u.child[Other(near)][p]]] # "red"
        BY <1>7, <2>1, <3>1 DEF far
      <4> QED BY <1>6, <1>11, <4>1, TurnedOver
    <3> DEFINE d == u.child[near][c]
    <3>3. v = Rotate(Paint(Paint(u, d, "black"), c, "red"), c, far)
          /\ temp = v.child[far][v.parent[c]]
      BY Zenon, <1>8, <2>1
    <3>4. /\ Remade(v, u, Linked)
          /\ d \in Linked /\ v.child[far][p] = d /\ v.color[d] = "black"
          /\ v.parent[c] = d /\ v.child[far][d] = c /\ v.color[c] = "red"
          /\ v.child[near][p] = u.child[near][p] /\ v.color[p] = u.color[p]
      <4>1. Overturned(v, u, Linked, p, near)
        BY Zenon, <3>2, <3>3 DEF far
      <4> QED BY <4>1 DEF Overturned, far
    <3>5. d # LEAF
      <4>1. LEAF \notin Linked
        BY <1>11, SoundFacts
      <4> HIDE DEF d
      <4> QED BY <3>4, <4>1
    <3>6. Exchanged(v, u, Linked, c, far)
      BY Zenon, <1>6, <1>10, <1>12, <3>1, <3>3, <3>5 DEF Exchanged
    <3> HIDE DEF d, c
    <3>7. Remade(v, t, Linked)
      BY <1>6, <3>4 DEF Remade
    <3>8. temp = c
      BY <3>3, <3>4
    <3>9. Lowering(v, p, near, temp)
      <4>1. /\ v.child[Other(near)][p] = d /\ v.child[Other(near)][d] = c
            /\ v.child[near][p] = node
        BY <1>5, <3>4 DEF far, SiblingOf, u, near, p
      <4> QED BY ONLY <1>6, <1>12, <3>4, <3>5, <3>7, <3>8, <4>1 DEF Lowering
    <3> QED BY <2>1, <3>4, <3>6, <3>9
  <2>2. CASE ~Turn
    <3>1. v = u /\ temp = c
      BY <1>8, <2>2
    <3>2. u.color[u.child[far][c]] = "red"
      <4>1. u.child[far][c] \in Ptr
        BY <1>10, <1>11, <1>12, SoundFacts
      <4> HIDE DEF c
      <4> QED BY <1>7, <1>11, <2>2, <4>1, SoundFacts
    <3>3. Lowering(v, p, near, temp)
      <4>1. v.child[Other(near)][p] = c /\ v.child[near][p] = node
        BY <1>5, <3>1 DEF far, SiblingOf, u, near, p
      <4>2. v.color[v.child[Other(near)][c]] = "red"
        BY <3>1, <3>2 DEF far
      <4> HIDE DEF c
      <4> QED BY ONLY <1>6, <1>7, <1>12, <3>1, <4>1, <4>2 DEF Lowering
    <3> QED BY <3>1, <3>3
  <2> QED BY <2>1, <2>2
<1>14. v.color[p] = "black" \/ v.color[p] = "red"
  <2>1. Sound(v, Linked) /\ p \in Ptr
    BY <1>6, <1>11, <1>13, SoundFacts DEF Lowering, Remade, Apt
  <2> QED BY <2>1, SoundFacts
<1>15. temp = v.child[far][p] \/ v.color[p] = "black" \/ TurnUnderRed
  <2>1. Turn /\ u.color[p] = "red" => TurnUnderRed
    BY Zenon, <1>1 DEF TurnUnderRed, u, p, b
  <2> QED BY <1>13, <1>14, <2>1
<1>16. Facing(v, p, near, temp)
  BY Zenon, <1>5, <1>13, <1>15 DEF Facing, u, p, near, far, b
<1>17. x = Rotate(PaintFar(Paint(Paint(v, temp, v.color[p]), p, "black"), temp, Other(near)),
                  p, near)
  BY Zenon, <1>9 DEF far
<1> HIDE DEF c
<1> QED BY Zenon, <1>1, <1>3, <1>13, <1>16, <1>17

LEMMA DeleteRotateHeld ==
  ASSUME Held, Coloured, DeleteRotate
  PROVE  Held' /\ Coloured' /\ Same
<1>1. PICK v, p, s, temp :
        /\ Lowering(v, p, s, temp) /\ Facing(v, p, s, temp)
        /\ pc = "deleteFix" /\ Short /\ UNCHANGED <<free, pc, doomed, call>>
        /\ t' = Rotate(PaintFar(Paint(Paint(v, temp, v.color[p]), p, "black"), temp,
                                Other(s)), p, s)
        /\ node' = t'.root
  BY DeleteRotateIs
<1>2. /\ p \in Linked /\ s \in Side /\ Remade(v, t, Linked) /\ temp \in Linked
      /\ v.child[Other(s)][p] # LEAF /\ v.color[v.child[Other(s)][p]] = "black"
      /\ \/ temp = v.child[Other(s)][p]
         \/ temp = v.child[Other(s)][v.child[Other(s)][p]] /\ v.color[temp] = "red"
  BY <1>1 DEF Lowering
<1>3. Remade(t', v, Linked)
  <2>1. LET w == Paint(Paint(v, temp, v.color[p]), p, "black")
            x == Rotate(PaintFar(w, temp, Other(s)), p, s)
        IN Remade(x, v, Linked)
    <3>1. Apt(v, Linked)
      BY <1>2 DEF Remade
    <3> QED BY <1>2, <3>1, Lowered
  <2> QED BY Zenon, <1>1, <2>1
<1>4. /\ Sound(t', Linked) /\ t'.key = t.key /\ t'.root \in Linked \cup {LEAF}
      /\ Linked \subseteq Ptr /\ LEAF \in Ptr
      /\ \A m \in Node \ Linked, r \in Side : t'.child[r][m] = t.child[r][m]
      /\ NoPairs(t', Linked) /\ t'.color[t'.root] = "black"
  <2>1. /\ Sound(t', Linked) /\ t'.key = t.key
        /\ \A m \in Node \ Linked, r \in Side : t'.child[r][m] = t.child[r][m]
        /\ NoPairs(t', Linked) /\ t'.color[t'.root] = "black"
    BY <1>2, <1>3 DEF Remade, Apt
  <2> QED BY <2>1, SoundFacts
<1>5. Held' /\ Same
  <2>1. node' \in Ptr
    BY <1>1, <1>4
  <2> QED BY <1>1, <1>4, <2>1, Kept
<1>6. Linked' = Linked
  BY <1>5 DEF Same
<1>7. Coloured'
  BY <1>1, <1>4, <1>6 DEF Coloured, NoPairs
<1> QED BY <1>5, <1>7

LEMMA DeleteFixedHeld ==
  ASSUME Held, Coloured, DeleteFixed
  PROVE  Held' /\ Coloured' /\ Same
<1> DEFINE v == Paint(t, node, "black")
<1>1. /\ pc = "deleteFix" /\ ~Short /\ t' = v /\ pc' = "free"
      /\ UNCHANGED <<free, node, doomed, call>>
  BY DEF DeleteFixed
<1>2. /\ Sound(t, Linked) /\ node \in Linked \cup {LEAF}
      /\ \A m \in Linked, s \in Side : RedPair(t, m, s) => m = node \/ t.child[s][m] = node
      /\ t.color[t.root] = "red" => t.root = node
  BY <1>1 DEF Held, Coloured
<1>3. /\ Linked \subseteq Ptr /\ LEAF \in Ptr /\ LEAF \notin Linked
      /\ t.root \in Linked \cup {LEAF} /\ t.color[LEAF] = "black"
      /\ \A m \in Ptr : t.color[m] = "red" \/ t.color[m] = "black"
  BY <1>2, SoundFacts
<1>4. /\ Sound(v, Linked) /\ v.root = t.root /\ v.key = t.key /\ v.child = t.child
      /\ \A m \in Ptr : v.color[m] = IF m = node THEN "black" ELSE t.color[m]
  <2>1. node \in Ptr /\ Sound(t, Linked)
    BY <1>2, <1>3
  <2> QED BY ONLY <2>1, PaintSound
<1> HIDE DEF v
<1>5. ASSUME NEW m \in Linked, NEW s \in Side, RedPair(v, m, s) PROVE FALSE
  <2>1. m \in Ptr /\ t.child[s][m] \in Ptr
    BY <1>2, <1>3, SoundFacts
  <2>2. RedPair(t, m, s) /\ m # node /\ t.child[s][m] # node
    BY <1>4, <1>5, <2>1 DEF RedPair
  <2> QED BY <1>2, <2>2
<1>6. v.color[v.root] = "black"
  BY <1>2, <1>3, <1>4
<1>7. Held' /\ Same
  <2>1. node' \in Ptr /\ Sound(t', Linked) /\ t'.key = t.key
        /\ \A m \in Node \ Linked, r \in Side : t'.child[r][m] = t.child[r][m]
    BY <1>1, <1>2, <1>3, <1>4
  <2> QED BY <1>1, <2>1, Kept
<1>8. Linked' = Linked
  BY <1>7 DEF Same
<1>9. Coloured'
  BY <1>1, <1>5, <1>6, <1>8 DEF Coloured, NoPairs
<1> QED BY <1>7, <1>9

LEMMA DeleteEndHeld ==
  ASSUME Held, Coloured, DeleteEnd
  PROVE  Held' /\ Coloured' /\ Same
<1> DEFINE d == doomed
           v == Forget(t, d)
<1>1. /\ pc = "free" /\ pc' = "idle" /\ node' = LEAF /\ doomed' = LEAF /\ call' = call
      /\ free' = free \cup {d} /\ t' = v
  BY DEF DeleteEnd, RBNodeFree
<1>2. /\ d \in Node /\ d \notin Linked /\ d \in Ptr /\ Linked' = Linked
      /\ LEAF \notin Node /\ d # LEAF
  BY <1>1, PointerAssumption DEF Held, Linked, Ptr
<1>3. /\ Sound(t, Linked) /\ NoPairs(t, Linked) /\ t.color[t.root] = "black"
  BY <1>1 DEF Held, Coloured
<1>4. /\ Linked \subseteq Ptr /\ LEAF \in Ptr /\ LEAF \notin Linked
      /\ t.root \in Linked \cup {LEAF} /\ t.color[LEAF] = "black" /\ t \in Tree
      /\ \A m \in Linked, s \in Side : t.child[s][m] \in Linked \cup {LEAF}
  BY <1>3, SoundFacts
<1> HIDE DEF d
<1>5. /\ v \in Tree /\ v.root = t.root
      /\ \A m \in Node \ {d} : v.key[m] = t.key[m]
      /\ \A m \in Ptr \ {d} : /\ v.parent[m] = t.parent[m] /\ v.color[m] = t.color[m]
                              /\ \A s \in Side : v.child[s][m] = t.child[s][m]
      /\ \A s \in Side : v.child[s][d] = Nil
  <2>1. v = [t EXCEPT !.key[d] = Nil, !.parent[d] = Nil, !.child["left"][d] = Nil,
                      !.child["right"][d] = Nil, !.color[d] = "black"]
    BY DEF Forget
  <2>2. "left" \in Side /\ "right" \in Side /\ \A s \in Side : s = "left" \/ s = "right"
    BY DEF Side
  <2> HIDE DEF v
  <2>3. /\ v.root = t.root /\ v.key = [t.key EXCEPT ![d] = Nil]
        /\ v.parent = [t.parent EXCEPT ![d] = Nil]
        /\ v.child = [t.child EXCEPT !["left"][d] = Nil, !["right"][d] = Nil]
        /\ v.color = [t.color EXCEPT ![d] = "black"]
    BY <1>4, <2>1 DEF Tree
  <2>4. \A s \in Side : /\ v.child[s] \in [Ptr -> Ptr \cup {Nil}] /\ v.child[s][d] = Nil
                        /\ \A m \in Ptr \ {d} : v.child[s][m] = t.child[s][m]
    <3>1. /\ v.child["left"] = [t.child["left"] EXCEPT ![d] = Nil]
          /\ v.child["right"] = [t.child["right"] EXCEPT ![d] = Nil]
      BY <1>2, <1>4, <2>2, <2>3 DEF Tree
    <3>2. t.child["left"] \in [Ptr -> Ptr \cup {Nil}]
          /\ t.child["right"] \in [Ptr -> Ptr \cup {Nil}]
      BY <1>4, <2>2 DEF Tree
    <3>3. /\ v.child["left"] \in [Ptr -> Ptr \cup {Nil}] /\ v.child["left"][d] = Nil
          /\ \A m \in Ptr \ {d} : v.child["left"][m] = t.child["left"][m]
      BY <1>2, <3>1, <3>2
    <3>4. /\ v.child["right"] \in [Ptr -> Ptr \cup {Nil}] /\ v.child["right"][d] = Nil
          /\ \A m \in Ptr \ {d} : v.child["right"][m] = t.child["right"][m]
      BY <1>2, <3>1, <3>2
    <3> QED BY <2>2, <3>3, <3>4
  <2>5. v \in Tree
    <3>1. v = [root |-> v.root, key |-> v.key, parent |-> v.parent, child |-> v.child,
               color |-> v.color]
      BY <1>4, <2>1 DEF Tree
    <3>2. v.child \in [Side -> [Ptr -> Ptr \cup {Nil}]]
      BY <1>4, <2>3, <2>4 DEF Tree
    <3>3. /\ v.root \in Ptr /\ v.key \in [Node -> Key \cup {Nil}]
          /\ v.parent \in [Ptr -> Ptr \cup {Nil}] /\ v.color \in [Ptr -> {"red", "black"}]
      BY <1>2, <1>4, <2>3 DEF Tree
    <3> QED BY ONLY <3>1, <3>2, <3>3 DEF Tree
  <2>6. /\ \A m \in Node \ {d} : v.key[m] = t.key[m]
        /\ \A m \in Ptr \ {d} : v.parent[m] = t.parent[m] /\ v.color[m] = t.color[m]
    BY <1>2, <1>4, <2>3 DEF Tree
  <2> QED BY <2>3, <2>4, <2>5, <2>6
<1> HIDE DEF v
<1>6. PICK B : Good(t, Linked, B)
  BY <1>3 DEF Sound
<1>7. Good(v, Linked, B)
  <2>1. ASSUME NEW n \in Linked PROVE Hung(v, Linked, n) /\ Nested(v, B, n) /\ Sorted(v, B, n)
    <3>1. Hung(t, Linked, n) /\ Nested(t, B, n) /\ Sorted(t, B, n)
      BY <1>6 DEF Good
    <3>2. /\ n \in Ptr \ {d} /\ n \in Node \ {d}
          /\ v.parent[n] = t.parent[n] /\ v.key[n] = t.key[n]
          /\ \A s \in Side : v.child[s][n] = t.child[s][n]
      BY <1>2, <1>4, <1>5 DEF Linked
    <3>3. \A m \in Linked : m \in Ptr \ {d} /\ v.parent[m] = t.parent[m] /\ v.key[m] = t.key[m]
                            /\ \A s \in Side : v.child[s][m] = t.child[s][m]
      BY <1>2, <1>4, <1>5 DEF Linked
    <3>4. Hung(v, Linked, n)
      <4>1. v.parent[n] # LEAF => v.parent[n] \in Linked
        BY <3>1, <3>2 DEF Hung
      <4> QED BY <1>4, <1>5, <3>1, <3>2, <3>3, <4>1 DEF Hung
    <3>5. Nested(v, B, n)
      <4>1. "left" \in Side /\ "right" \in Side
        BY DEF Side
      <4> QED BY <3>1, <3>2, <4>1 DEF Nested
    <3>6. Sorted(v, B, n)
      <4>1. \A s \in Side : B[t.child[s][n]] \subseteq Linked
        BY <1>4, <1>6 DEF Good, Ptr
      <4> QED BY <3>1, <3>2, <3>3, <4>1 DEF Sorted
    <3> QED BY <3>4, <3>5, <3>6
  <2> QED BY <1>5, <1>6, <2>1 DEF Good
<1>8. Outside(v, Linked)
  BY <1>3, <1>5 DEF Outside, Sound, Ptr
<1>9. v.color[LEAF] = "black"
  BY <1>2, <1>4, <1>5
<1>10. Sound(v, Linked)
  BY <1>5, <1>7, <1>8, <1>9 DEF Sound
<1>11. v.color[v.root] = "black"
  BY <1>2, <1>3, <1>4, <1>5
<1>12. NoPairs(v, Linked)
  <2> SUFFICES ASSUME NEW m \in Linked, NEW s \in Side, RedPair(v, m, s) PROVE FALSE
    BY DEF NoPairs
  <2>1. m \in Ptr \ {d} /\ t.child[s][m] \in Ptr \ {d}
    BY <1>2, <1>4
  <2>2. RedPair(t, m, s)
    BY <1>5, <2>1 DEF RedPair
  <2> QED BY <1>3, <2>2 DEF NoPairs
<1>13. \A m \in free', s \in Side : t'.child[s][m] = Nil
  <2>1. \A m \in free : m \in Ptr \ {d}
    BY <1>2 DEF Held, Ptr, d
  <2> QED BY <1>1, <1>5, <2>1 DEF Held
<1>14. Held'
  BY <1>1, <1>2, <1>4, <1>10, <1>13 DEF Held
<1>15. Coloured'
  BY <1>1, <1>2, <1>11, <1>12 DEF Coloured
<1>16. \A m \in Linked : t'.key[m] = t.key[m]
  BY <1>1, <1>2, <1>5 DEF Linked
<1> QED BY <1>1, <1>2, <1>14, <1>15, <1>16 DEF Same

-----------------------------------------------------------------------------
(* The empty tree, and every step                                          *)

LEMMA InitHeld ==
  ASSUME Init
  PROVE  Held /\ Coloured
<1> DEFINE B == [n \in Ptr |-> {}]
<1>1. /\ t.root = LEAF /\ t.key = [n \in Node |-> Nil]
      /\ t.parent = [n \in Ptr |-> Nil]
      /\ t.child = [s \in Side |-> [n \in Ptr |-> Nil]]
      /\ t.color = [n \in Ptr |-> "black"]
      /\ free = Node /\ pc = "idle" /\ node = LEAF /\ doomed = LEAF /\ call = NoCall
  BY DEF Init
<1>2. Linked = {} /\ LEAF \in Ptr /\ LEAF \notin Node
  BY <1>1, PointerAssumption DEF Linked, Ptr
<1>3. t \in Tree
  BY <1>2 DEF Init, Tree
<1>4. Good(t, Linked, B)
  BY <1>1, <1>2 DEF Good
<1>5. \A m \in Node, s \in Side : t.child[s][m] = Nil
  BY <1>1 DEF Ptr
<1>6. t.color[LEAF] = "black"
  BY <1>1, <1>2
<1>7. Sound(t, Linked)
  BY <1>3, <1>4, <1>5, <1>6 DEF Sound, Outside
<1>8. Held
  BY <1>1, <1>2, <1>5, <1>7 DEF Held
<1>9. Coloured
  BY <1>1, <1>2, <1>6 DEF Coloured, NoPairs
<1> QED BY <1>8, <1>9

LEMMA RoundHeld ==
  ASSUME Held, Coloured, Step
  PROVE  Held' /\ Coloured' /\ Same
<1>1. CASE InsertRecolour
  BY <1>1, InsertRecolourHeld
<1>2. CASE InsertRotate
  BY <1>2, InsertRotateHeld
<1>3. CASE InsertEnd
  BY <1>3, InsertEndHeld
<1>4. CASE DeleteNoSibling
  BY <1>4, DeleteNoSiblingHeld
<1>5. CASE DeleteRecolour
  BY <1>5, DeleteRecolourHeld
<1>6. CASE DeleteRotate
  BY <1>6, DeleteRotateHeld
<1>7. CASE DeleteFixed
  BY <1>7, DeleteFixedHeld
<1>8. CASE DeleteEnd
  BY <1>8, DeleteEndHeld
<1> QED BY <1>1, <1>2, <1>3, <1>4, <1>5, <1>6, <1>7, <1>8 DEF Step

Ask(op, k) == Begin(op, k) /\ UNCHANGED <<t, free, pc, node, doomed>>

(* What Next does, by what it does to the contents.                        *)
LEMMA NextCases ==
  ASSUME [Next]_vars
  PROVE  \/ \E k \in Key : Ask("Find", k) \/ (Ask("Insert", k) /\ FindNode(k) # Nil)
         \/ \E k \in Key : \E n \in free : InsertNew(k, n)
         \/ \E k \in Deletable : Ask("Delete", k) /\ FindNode(k) = Nil
         \/ \E k \in Deletable : DeletePresent(k)
         \/ Step
         \/ UNCHANGED vars
BY DEF Next, Ask, Find, InsertPresent, DeleteAbsent

LEMMA NextHeld ==
  ASSUME Held, Coloured, [Next]_vars
  PROVE  Held' /\ Coloured'
<1>1. CASE \E k \in Key : Ask("Find", k) \/ (Ask("Insert", k) /\ FindNode(k) # Nil)
  BY <1>1, AskIsHeld DEF Ask
<1>2. CASE \E k \in Key : \E n \in free : InsertNew(k, n)
  BY <1>2, InsertNewHeld
<1>3. CASE \E k \in Deletable : Ask("Delete", k) /\ FindNode(k) = Nil
  BY <1>3, AskIsHeld, DeletableAssumption DEF Ask
<1>4. CASE \E k \in Deletable : DeletePresent(k)
  BY <1>4, DeletePresentHeld
<1>5. CASE Step
  BY <1>5, RoundHeld
<1>6. CASE UNCHANGED vars
  <2>1. Linked' = Linked
    BY <1>6 DEF vars, Linked
  <2> QED BY <1>6, <2>1 DEF vars, Held, Coloured
<1> QED BY <1>1, <1>2, <1>3, <1>4, <1>5, <1>6, NextCases

LEMMA SpecHeld == Spec => [](Held /\ Coloured)
BY InitHeld, NextHeld, PTL DEF Spec

-----------------------------------------------------------------------------
(* The results *)

Whole == InTree = Linked

LEMMA HeldIsWhole == Held => Whole /\ SearchTree
<1> SUFFICES ASSUME Held PROVE Whole /\ SearchTree
  OBVIOUS
<1>1. PICK B : Good(t, Linked, B)
  BY DEF Held, Sound
<1>2. Outside(t, Linked)
  BY DEF Held, Sound
<1> QED BY <1>1, <1>2, BelowIs, GoodIsSearchTree DEF Whole

(* In every round of every call of the package, each link, key and colour  *)
(* has a value of its kind, and so have the root, the node that a loop     *)
(* stands at and the node being deleted (rbtree.go:10-37).                 *)
THEOREM TypeCorrect == Spec => []TypeOK
<1>1. Held => TypeOK
  BY DEF Held, Sound, Tree, TypeOK
<1> QED BY <1>1, SpecHeld, PTL

(* Through all rotations, moves of nodes and rounds of both loops the tree *)
(* is a search tree whose links agree (rbtree.go:220-243, 274-336, 448-502). *)
THEOREM KeepsSearchTree == Spec => []SearchTree
BY HeldIsWhole, SpecHeld, PTL

(* Every node is in the tree, in the pool or being deleted, and in one of  *)
(* these only: Delete frees the node that it has unlinked (rbtree.go:270). *)
THEOREM AccountsForNodes == Spec => []NodesAccounted
<1>1. ASSUME Held, Whole PROVE NodesAccounted
  BY <1>1, PointerAssumption DEF Held, Whole, Linked, NodesAccounted
<1>2. Held /\ Whole => NodesAccounted
  BY <1>1
<1> QED BY <1>2, HeldIsWhole, SpecHeld, PTL

(* Whatever was inserted and deleted, a tree between calls has a black root *)
(* and no red node with a red child (rbtree.go:340).                       *)
THEOREM KeepsRedsApart == Spec => []RedsApart
<1>1. ASSUME Held, Coloured, Whole PROVE RedsApart
  <2>1. SUFFICES ASSUME Idle PROVE t.color[t.root] = "black" /\ NoRedPair
    BY DEF RedsApart
  <2>2. t.color[t.root] = "black" /\ NoPairs(t, Linked)
    BY <1>1, <2>1 DEF Idle, Coloured
  <2>3. ASSUME NEW n \in Linked, NEW s \in Side, t.color[n] = "red"
        PROVE  t.color[t.child[s][n]] = "black"
    <3>1. t.child[s][n] \in Ptr
      BY <1>1, SoundFacts DEF Held
    <3>2. t.color[t.child[s][n]] # "red"
      BY <2>2, <2>3 DEF NoPairs, RedPair
    <3> QED BY <1>1, <3>1, <3>2, SoundFacts DEF Held
  <2> QED BY <1>1, <2>2, <2>3 DEF Whole, NoRedPair
<1>2. Held /\ Coloured /\ Whole => RedsApart
  BY <1>1
<1> QED BY <1>2, HeldIsWhole, SpecHeld, PTL

(* To its caller the tree is a set of keys: every call answers for the key *)
(* that it names and changes nothing else (rbtree.go:170, 194, 250).       *)
THEOREM ImplementsKeySet == Spec => IsAKeySet
<1> DEFINE keys == KeysOf(InTree)
<1>1. Init /\ Held /\ Whole => KS!Init
  BY InitHeld DEF Init, Whole, Linked, KeysOf, KS!Init, KS!NoCall, NoCall
<1>2. ASSUME Held, Coloured, [Next]_vars, Whole, Whole'
      PROVE  [KS!Next]_<<keys, call>>
  <2>1. keys = {t.key[n] : n \in Linked} /\ keys' = {t'.key[n] : n \in Linked'}
    BY <1>2 DEF Whole, KeysOf
  <2> HIDE DEF keys
  <2>2. ASSUME NEW k \in Key PROVE (FindNode(k) # Nil) = (k \in keys)
    BY <1>2, <2>1, FindNodeHeld
  <2>3. CASE \E k \in Key : Ask("Find", k) \/ (Ask("Insert", k) /\ FindNode(k) # Nil)
    <3>1. PICK k \in Key : Ask("Find", k) \/ (Ask("Insert", k) /\ FindNode(k) # Nil)
      BY <2>3
    <3>2. keys' = keys
      BY <2>1, <3>1 DEF Ask, Linked
    <3>3. CASE Ask("Find", k)
      BY <2>2, <3>2, <3>3 DEF Ask, Begin, KS!Find, KS!Answer, KS!Next, keys
    <3>4. CASE Ask("Insert", k) /\ FindNode(k) # Nil
      <4>1. keys' = keys \cup {k}
        BY <2>2, <3>2, <3>4
      <4> QED BY <2>2, <3>4, <4>1 DEF Ask, Begin, KS!Insert, KS!Answer, KS!Next, keys
    <3> QED BY <3>1, <3>3, <3>4
  <2>4. CASE \E k \in Key : \E n \in free : InsertNew(k, n)
    <3>1. PICK k \in Key, n \in free : InsertNew(k, n)
      BY <2>4
    <3>2. /\ Linked' = Linked \cup {n} /\ n \notin Linked
          /\ t'.key = [t.key EXCEPT ![n] = k]
      BY <1>2, <3>1, InsertNewHeld
    <3>3. n \in DOMAIN t.key
      BY <1>2 DEF Held, Sound, Tree
    <3>4. keys' = keys \cup {k}
      BY <2>1, <3>2, <3>3
    <3> QED BY <2>2, <3>1, <3>4 DEF InsertNew, Begin, KS!Insert, KS!Answer, KS!Next, keys
  <2>5. CASE \E k \in Deletable : Ask("Delete", k) /\ FindNode(k) = Nil
    <3>1. PICK k \in Deletable : Ask("Delete", k) /\ FindNode(k) = Nil
      BY <2>5
    <3>2. k \in Key
      BY DeletableAssumption
    <3>3. keys' = keys \ {k}
      BY <2>1, <2>2, <3>1, <3>2 DEF Ask, Linked
    <3> QED BY <2>2, <3>1, <3>2, <3>3 DEF Ask, Begin, KS!Delete, KS!Answer, KS!Next, keys
  <2>6. CASE \E k \in Deletable : DeletePresent(k)
    <3>1. PICK k \in Deletable : DeletePresent(k)
      BY <2>6
    <3>2. k \in Key
      BY DeletableAssumption
    <3>3. /\ Linked' = Linked \ {FindNode(k)} /\ FindNode(k) \in Linked
          /\ t.key[FindNode(k)] = k /\ t'.key = t.key
      BY <1>2, <3>1, DeletePresentHeld
    <3>4. \A m \in Linked : t.key[m] = k => m = FindNode(k)
      BY <1>2, <3>2, <3>3, FindNodeHeld
    <3>5. keys' = keys \ {k}
      BY <2>1, <3>3, <3>4
    <3> QED BY <2>2, <3>1, <3>2, <3>5
            DEF DeletePresent, Begin, KS!Delete, KS!Answer, KS!Next, keys
  <2>7. CASE Step
    <3>1. Same
      BY <1>2, <2>7, RoundHeld
    <3>2. keys' = keys /\ call' = call
      BY <2>1, <3>1 DEF Same
    <3> QED BY <3>2 DEF keys
  <2>8. CASE UNCHANGED vars
    <3>1. keys' = keys /\ call' = call
      BY <2>1, <2>8 DEF vars, Linked
    <3> QED BY <3>1 DEF keys
  <2> QED BY <1>2, <2>3, <2>4, <2>5, <2>6, <2>7, <2>8, NextCases
<1>3. Held /\ Coloured /\ [Next]_vars /\ Whole /\ Whole' => [KS!Next]_<<keys, call>>
  BY <1>2
<1> QED BY <1>1, <1>3, HeldIsWhole, SpecHeld, PTL DEF Spec, IsAKeySet, KS!Spec

-----------------------------------------------------------------------------
(* TreeNext and TreePrev *)

(* A key outside a subtree is on the same side of all that are in it.      *)
LEMMA Convex ==
  ASSUME NEW u, NEW S, NEW B, Good(u, S, B), NEW s \in Side, NEW r \in S,
         NEW x \in B[r], NEW y \in B[r], NEW m \in S \ B[r],
         Before(s, u.key[m], u.key[x])
  PROVE  Before(s, u.key[m], u.key[y])
<1>1. u.root \in S /\ B[u.root] = S /\ r \in B[r] /\ x \in S /\ y \in S
  <2>1. u.root \in S /\ B[u.root] = S
    BY DEF Good
  <2>2. r \in B[r]
    BY Neighbours, Sides
  <2>3. x \in S /\ y \in S
    BY Subtrees
  <2> QED BY <2>1, <2>2, <2>3
<1>2. PICK a \in S : Parted(u, B, a, r, m)
  BY <1>1, PathsPart
<1>3. PICK o \in Side : /\ r \in B[u.child[o][a]] \cup {a}
                        /\ m \in B[u.child[Other(o)][a]] \cup {a}
  BY <1>2 DEF Parted
<1>4. Other(o) \in Side /\ B[a] = {a} \cup B[u.child[o][a]] \cup B[u.child[Other(o)][a]]
  BY Sides, Neighbours
<1>5. r # a
  BY <1>3, <1>4
<1> DEFINE c == u.child[o][a]
<1>6. r \in B[c] /\ c \in S
  <2>1. r \in B[c]
    BY <1>3, <1>5
  <2>2. c \in S \cup {LEAF}
    BY Neighbours
  <2>3. B[LEAF] = {}
    BY DEF Good
  <2> HIDE DEF c
  <2> QED BY <2>1, <2>2, <2>3
<1>7. x \in B[c] /\ y \in B[c]
  <2> HIDE DEF c
  <2> QED BY <1>6, Subtrees
<1>8. Before(o, u.key[x], u.key[a]) /\ Before(o, u.key[y], u.key[a])
  BY <1>7, Neighbours
<1>9. m = a \/ Before(Other(o), u.key[m], u.key[a])
  BY <1>3, <1>4, Neighbours
<1>10. /\ u.key[a] \in Key /\ u.key[m] \in Key /\ u.key[x] \in Key /\ u.key[y] \in Key
  BY <1>1 DEF Good, Sorted
<1> HIDE DEF c
<1>11. Before(Other(o), u.key[a], u.key[x]) /\ Before(Other(o), u.key[a], u.key[y])
  BY <1>8, <1>10, BeforeFacts
<1>12. /\ Before(Other(o), u.key[m], u.key[x])
       /\ Before(Other(o), u.key[m], u.key[y])
  BY <1>4, <1>9, <1>10, <1>11, BeforeFacts
<1>13. s = Other(o)
  <2>1. s = o \/ s = Other(o)
    BY Sides
  <2>2. ~Before(o, u.key[m], u.key[x])
    BY <1>10, <1>12, BeforeFacts
  <2> QED BY <2>1, <2>2
<1> QED BY <1>12, <1>13

(* x is the next node after n on side s, or LEAF where there is none.      *)
NextIn(S, s, n, x) ==
  \/ x = LEAF /\ \A m \in S : ~Before(s, t.key[m], t.key[n])
  \/ /\ x \in S /\ Before(s, t.key[x], t.key[n])
     /\ \A m \in S : Before(s, t.key[m], t.key[n])
                       => m = x \/ Before(s, t.key[m], t.key[x])

LEMMA DownIs ==
  ASSUME NEW S, NEW B, Good(t, S, B), Outside(t, S), NEW n \in S, NEW s \in Side,
         t.child[s][n] # LEAF
  PROVE  NextIn(S, s, n, Outermost(t.child[s][n], Other(s)))
<1> DEFINE c == t.child[s][n]
           o == Other(s)
           x == Outermost(c, o)
<1>1. /\ c \in S /\ o \in Side /\ Other(o) = s /\ B[n] = {n} \cup B[c] \cup B[t.child[o][n]]
      /\ n \in B[n]
      /\ \A m \in B[c] : Before(s, t.key[m], t.key[n])
      /\ \A m \in B[t.child[o][n]] : Before(o, t.key[m], t.key[n])
  BY Neighbours, Sides
<1> HIDE DEF c, o
<1>2. /\ x \in B[c] /\ x \in S
      /\ \A y \in B[c] : y = x \/ Before(o, t.key[x], t.key[y])
  BY <1>1, OutermostIs
<1> HIDE DEF x
<1>3. ASSUME NEW m \in S, Before(s, t.key[m], t.key[n])
      PROVE  m = x \/ Before(s, t.key[m], t.key[x])
  <2>1. t.key[m] \in Key /\ t.key[n] \in Key /\ t.key[x] \in Key
    BY <1>2 DEF Good, Sorted
  <2>2. CASE m \in B[n]
    <3>1. m # n /\ ~Before(o, t.key[m], t.key[n])
      BY <1>1, <1>3, <2>1, BeforeFacts
    <3>2. m \in B[c]
      BY <1>1, <2>2, <3>1
    <3>3. m = x \/ Before(o, t.key[x], t.key[m])
      BY <1>2, <3>2
    <3> QED BY <1>1, <2>1, <3>3, BeforeFacts
  <2>3. CASE m \notin B[n]
    BY <1>1, <1>2, <1>3, <2>3, Convex
  <2> QED BY <2>2, <2>3
<1> QED BY <1>1, <1>2, <1>3 DEF NextIn, x, c, o

(* Going up from n by its children on side s: to a node whose subtree ends *)
(* with n on that side.                                                    *)
LEMMA UpIs ==
  ASSUME NEW S, NEW B, Good(t, S, B), Outside(t, S), NEW n \in S, NEW s \in Side,
         t.child[s][n] = LEAF
  PROVE  LET up == [m \in Node |-> IF IsChild(m, s) THEN t.parent[m] ELSE LEAF]
         IN NextIn(S, s, n, t.parent[Follow(up, n)])
<1> DEFINE up == [m \in Node |-> IF IsChild(m, s) THEN t.parent[m] ELSE LEAF]
           y == Follow(up, n)
           o == Other(s)
           Q == {m \in S : n \in B[m] /\ \A z \in B[m] : z = n \/ Before(o, t.key[z], t.key[n])}
           p == t.parent[y]
<1>1. /\ o \in Side /\ Other(o) = s /\ \A r \in Side : r = s \/ r = o
      /\ S \subseteq Node /\ S \subseteq Ptr /\ LEAF \notin Node /\ B[LEAF] = {}
      /\ B[t.root] = S /\ Nil \notin Node
  BY Sides, PointerAssumption DEF Good, Ptr
<1>2. \A m \in S : t.key[m] \in Key
  BY DEF Good, Sorted
<1>3. n \in Q
  <2>1. /\ n \in B[n] /\ B[n] = {n} \cup B[t.child[s][n]] \cup B[t.child[o][n]]
        /\ \A m \in B[t.child[o][n]] : Before(o, t.key[m], t.key[n])
    BY <1>1, Neighbours
  <2> QED BY <1>1, <2>1
<1>4. \A m \in Node : up[m] \in Node => m \in S /\ up[m] = t.parent[m] /\ IsChild(m, s)
  <2> SUFFICES ASSUME NEW m \in Node, up[m] \in Node
               PROVE  m \in S /\ up[m] = t.parent[m] /\ IsChild(m, s)
    OBVIOUS
  <2>1. up[m] = t.parent[m] /\ IsChild(m, s)
    BY <1>1
  <2>2. t.parent[m] \in Node /\ m = t.child[s][t.parent[m]]
    BY <2>1 DEF IsChild
  <2>3. \A q \in Node : t.child[s][q] \in S \cup {LEAF, Nil}
    BY Neighbours DEF Outside
  <2> QED BY <1>1, <2>1, <2>2, <2>3
<1>5. ASSUME NEW m \in Q, up[m] \in Node PROVE up[m] \in Q
  <2> DEFINE q == t.parent[m]
  <2>1. up[m] = q /\ q \in Node /\ IsChild(m, s) /\ m \in S /\ m \in Node
    BY <1>1, <1>4, <1>5
  <2>2. q \in S /\ t.child[s][q] = m
    <3>1. q \in S \cup {LEAF}
      BY <2>1 DEF Good, Hung
    <3> QED BY <1>1, <2>1, <3>1 DEF IsChild
  <2> HIDE DEF q, up
  <2>3. /\ q \in B[q] /\ B[q] = {q} \cup B[m] \cup B[t.child[o][q]]
        /\ \A z \in B[m] : Before(s, t.key[z], t.key[q])
        /\ \A z \in B[t.child[o][q]] : Before(o, t.key[z], t.key[q])
    BY <1>1, <2>2, Neighbours
  <2>4. n \in B[m] /\ \A z \in B[m] : z = n \/ Before(o, t.key[z], t.key[n])
    OBVIOUS
  <2>5. Before(o, t.key[q], t.key[n])
    BY <1>1, <1>2, <2>2, <2>3, <2>4, BeforeFacts
  <2>6. ASSUME NEW z \in B[q] PROVE z = n \/ Before(o, t.key[z], t.key[n])
    <3>1. z \in S
      BY <2>2, Subtrees
    <3>2. CASE z \in B[t.child[o][q]]
      <4>1. Before(o, t.key[z], t.key[q])
        BY <2>3, <3>2
      <4> QED BY <1>1, <1>2, <2>2, <2>5, <3>1, <4>1, BeforeFacts
    <3>3. CASE z \notin B[t.child[o][q]]
      BY <2>3, <2>4, <2>5, <3>3
    <3> QED BY <3>2, <3>3
  <2> QED BY <2>1, <2>2, <2>3, <2>4, <2>6
<1>6. y \in Q /\ up[y] \notin Node
  <2>1. Q \in SUBSET S /\ \A m \in Q : up[m] \in Node => up[m] \in Q
    BY <1>5
  <2>2. \A m \in Node : up[m] \in Node => m \in S /\ up[m] = t.parent[m]
    BY <1>4
  <2> HIDE DEF Q, up
  <2> QED BY <1>3, <2>1, <2>2, FollowUp, SMTT(30)
<1> HIDE DEF y
<1>7. /\ y \in S /\ y \in Node /\ n \in B[y]
      /\ \A z \in B[y] : z = n \/ Before(o, t.key[z], t.key[n])
  BY <1>1, <1>6
<1>8. /\ p \in S \cup {LEAF} /\ (p = LEAF <=> y = t.root)
  BY <1>7 DEF Good, Hung
<1>9. ~IsChild(y, s) \/ p = LEAF
  BY <1>1, <1>6, <1>7, <1>8
<1> HIDE DEF Q, up
<1>10. \A m \in B[y] : ~Before(s, t.key[m], t.key[n])
  <2>1. \A m \in B[y] : m \in S
    BY <1>7, Subtrees
  <2> QED BY <1>1, <1>2, <1>7, <2>1, BeforeFacts
<1>11. ASSUME p = LEAF PROVE NextIn(S, s, n, p)
  <2>1. B[y] = S
    BY <1>1, <1>8, <1>11
  <2> HIDE DEF p
  <2> QED BY <1>10, <1>11, <2>1 DEF NextIn
<1>12. ASSUME p # LEAF PROVE NextIn(S, s, n, p)
  <2>1. p \in S /\ t.child[o][p] = y
    <3>1. p \in S /\ SideOf(t, y) \in Side /\ t.child[SideOf(t, y)][p] = y
      BY <1>7, <1>12, SideOfIs
    <3>2. SideOf(t, y) # s
      BY <1>9, <1>12, <3>1 DEF IsChild
    <3> QED BY <1>1, <3>1, <3>2
  <2> HIDE DEF p
  <2>2. /\ p \in B[p] /\ B[p] = {p} \cup B[y] \cup B[t.child[s][p]]
        /\ \A z \in B[y] : Before(o, t.key[z], t.key[p])
        /\ \A z \in B[t.child[s][p]] : Before(s, t.key[z], t.key[p])
    BY <1>1, <2>1, Neighbours
  <2>3. Before(s, t.key[p], t.key[n]) /\ n \in B[p]
    BY <1>1, <1>2, <1>7, <2>1, <2>2, BeforeFacts
  <2>4. ASSUME NEW m \in S, Before(s, t.key[m], t.key[n])
        PROVE  m = p \/ Before(s, t.key[m], t.key[p])
    <3>1. CASE m \in B[p]
      BY <1>10, <2>2, <2>4, <3>1
    <3>2. CASE m \notin B[p]
      BY <2>1, <2>2, <2>3, <2>4, <3>2, Convex
    <3> QED BY <3>1, <3>2
  <2> QED BY <2>1, <2>3, <2>4 DEF NextIn
<1>13. NextIn(S, s, n, p)
  BY <1>11, <1>12
<1> QED BY <1>13 DEF p, y, up

LEMMA BesideIs ==
  ASSUME NEW S, NEW B, Good(t, S, B), Outside(t, S), NEW n \in S, NEW s \in Side
  PROVE  NextIn(S, s, n, Beside(n, s, Other(s)))
<1>1. CASE t.child[s][n] # LEAF
  BY <1>1, DownIs DEF Beside
<1>2. CASE t.child[s][n] = LEAF
  <2> DEFINE up == [m \in Node |-> IF IsChild(m, s) THEN t.parent[m] ELSE LEAF]
  <2>1. Beside(n, s, Other(s)) = t.parent[Follow(up, n)]
    BY <1>2 DEF Beside
  <2>2. NextIn(S, s, n, t.parent[Follow(up, n)])
    BY <1>2, UpIs
  <2> QED BY <2>1, <2>2
<1> QED BY <1>1, <1>2

(* From every node of a tree TreeNext and TreePrev go to the node with the *)
(* next key above or below, and to LEAF from the last and the first        *)
(* (rbtree.go:103-146).                                                    *)
THEOREM WalksGoInOrder == Spec => []WalksInOrder
<1>1. ASSUME Held, Whole PROVE WalksInOrder
  <2>1. PICK B : Good(t, Linked, B)
    BY <1>1 DEF Held, Sound
  <2>2. Outside(t, Linked) /\ LEAF \notin Linked
    BY <1>1, PointerAssumption DEF Held, Sound, Linked
  <2>3. "left" \in Side /\ "right" \in Side
    BY DEF Side
  <2>4. \A m \in Linked : t.key[m] \in Key
    BY <2>1 DEF Good, Sorted
  <2>5. ASSUME NEW n \in Linked
        PROVE  LET above == {m \in Linked : Compare(t.key[m], t.key[n]) > 0}
               IN IF above = {} THEN TreeNext(n) = LEAF
                  ELSE /\ TreeNext(n) \in above
                       /\ \A m \in above : Compare(t.key[TreeNext(n)], t.key[m]) <= 0
    <3>1. NextIn(Linked, "right", n, TreeNext(n))
      <4>1. NextIn(Linked, "right", n, Beside(n, "right", Other("right")))
        BY <2>1, <2>2, <2>3, BesideIs
      <4> QED BY <4>1 DEF TreeNext, Other
    <3> DEFINE x == TreeNext(n)
    <3> HIDE DEF x
    <3>2. NextIn(Linked, "right", n, x)
      BY <3>1 DEF x
    <3>3. ASSUME NEW m \in Linked, NEW k \in Linked
          PROVE  /\ Before("right", t.key[m], t.key[k]) <=> Compare(t.key[m], t.key[k]) > 0
                 /\ Compare(t.key[m], t.key[k]) > 0 => Compare(t.key[k], t.key[m]) <= 0
                 /\ Compare(t.key[m], t.key[m]) <= 0
      BY <2>4, CompareAssumption DEF Before
    <3> QED BY <2>2, <3>2, <3>3 DEF NextIn, x
  <2>6. ASSUME NEW n \in Linked
        PROVE  LET below == {m \in Linked : Compare(t.key[m], t.key[n]) < 0}
               IN IF below = {} THEN TreePrev(n) = LEAF
                  ELSE /\ TreePrev(n) \in below
                       /\ \A m \in below : Compare(t.key[TreePrev(n)], t.key[m]) >= 0
    <3>1. NextIn(Linked, "left", n, TreePrev(n))
      <4>1. NextIn(Linked, "left", n, Beside(n, "left", Other("left")))
        BY <2>1, <2>2, <2>3, BesideIs
      <4> QED BY <4>1 DEF TreePrev, Other
    <3> DEFINE x == TreePrev(n)
    <3> HIDE DEF x
    <3>2. NextIn(Linked, "left", n, x)
      BY <3>1 DEF x
    <3>3. ASSUME NEW m \in Linked, NEW k \in Linked
          PROVE  /\ Before("left", t.key[m], t.key[k]) <=> Compare(t.key[m], t.key[k]) < 0
                 /\ Compare(t.key[m], t.key[k]) < 0 => Compare(t.key[k], t.key[m]) >= 0
                 /\ Compare(t.key[m], t.key[m]) >= 0
      BY <2>4, CompareAssumption DEF Before
    <3> QED BY <2>2, <3>2, <3>3 DEF NextIn, x
  <2> QED BY <1>1, <2>5, <2>6, Zenon DEF WalksInOrder, Whole
<1>2. Held /\ Whole => WalksInOrder
  BY <1>1
<1> QED BY <1>2, HeldIsWhole, SpecHeld, PTL

-----------------------------------------------------------------------------
(* Heights *)

(* The black nodes from every node down to a leaf are as many on all paths *)
(* where each node m counts for w[m].  Again a relation of neighbours.     *)
Weight(u, x) ==
  [m \in Ptr |-> (IF u.color[m] = "black" THEN 1 ELSE 0) + (IF m = x THEN 1 ELSE 0)]
Levelled(u, S, w, H) ==
  /\ H \in [Ptr -> Int] /\ H[LEAF] = 0
  /\ \A n \in S, s \in Side : H[n] = H[u.child[s][n]] + w[n]
Level(u, S, w) == \E H : Levelled(u, S, w, H)

LEMMA WeightType ==
  ASSUME NEW u, NEW x
  PROVE  /\ Weight(u, x) \in [Ptr -> Int]
         /\ \A m \in Ptr : Weight(u, x)[m] >= 0
         /\ \A m \in Ptr : u.color[m] = "black" => Weight(u, x)[m] >= 1
BY DEF Weight

LEMMA HeightsAreNatural ==
  ASSUME NEW u, NEW S, Sound(u, S), NEW w \in [Ptr -> Int], \A m \in Ptr : w[m] >= 0,
         NEW H, Levelled(u, S, w, H)
  PROVE  \A n \in S : H[n] >= w[n]
<1> DEFINE T == {n \in S : H[n] >= w[n]}
<1>1. PICK B : Good(u, S, B)
  BY DEF Sound
<1>2. ASSUME NEW n \in S,
             \A s \in Side : u.child[s][n] \in S => u.child[s][n] \in T
      PROVE  n \in T
  <2> DEFINE c == u.child["left"][n]
  <2>1. "left" \in Side
    BY DEF Side
  <2>2. c \in S \cup {LEAF} /\ n \in Ptr /\ S \subseteq Ptr /\ LEAF \in Ptr
    BY <2>1, SoundFacts
  <2>3. H[n] = H[c] + w[n] /\ H[c] \in Int /\ w[n] \in Int /\ H[LEAF] = 0
    BY <2>1, <2>2 DEF Levelled
  <2>4. c \in S => c \in T
    BY <1>2, <2>1
  <2> HIDE DEF c
  <2>5. H[c] >= 0
    <3>1. CASE c = LEAF
      BY <2>3, <3>1
    <3>2. CASE c \in S
      <4>1. H[c] >= w[c] /\ w[c] >= 0 /\ w[c] \in Int
        BY <2>2, <2>4, <3>2
      <4> QED BY <2>3, <4>1
    <3> QED BY <2>2, <3>1, <3>2
  <2> QED BY <2>3, <2>5
<1>3. T \in SUBSET S
  OBVIOUS
<1> HIDE DEF T
<1>4. T = S
  BY <1>1, <1>2, <1>3, UpFromLeaves
<1> QED BY <1>4 DEF T

(* Where no node has a new weight and none is moved, nothing has changed.  *)
LEMMA SameHeights ==
  ASSUME NEW u, NEW v, NEW S, Sound(u, S), NEW w, NEW w2, Level(u, S, w),
         v.child = u.child, \A m \in S : w2[m] = w[m]
  PROVE  Level(v, S, w2)
BY DEF Level, Levelled

(* The root's own weight is on all paths.                                  *)
LEMMA RootHeights ==
  ASSUME NEW u, NEW v, NEW S, Sound(u, S), NEW w \in [Ptr -> Int],
         NEW w2 \in [Ptr -> Int], Level(u, S, w),
         v.child = u.child, \A m \in S \ {u.root} : w2[m] = w[m]
  PROVE  Level(v, S, w2)
<1>1. PICK H : Levelled(u, S, w, H)
  BY DEF Level
<1> DEFINE r == u.root
           G == [m \in Ptr |-> IF m = r /\ m # LEAF THEN H[m] + w2[m] - w[m] ELSE H[m]]
<1>2. /\ S \subseteq Ptr /\ LEAF \in Ptr /\ LEAF \notin S
      /\ H \in [Ptr -> Int] /\ H[LEAF] = 0
  BY <1>1, SoundFacts DEF Levelled
<1>3. G \in [Ptr -> Int] /\ G[LEAF] = 0
  BY <1>2
<1>4. ASSUME NEW n \in S, NEW s \in Side
      PROVE  G[n] = G[v.child[s][n]] + w2[n]
  <2> DEFINE c == u.child[s][n]
  <2>1. c \in S \cup {LEAF} /\ (c # LEAF => c # r) /\ v.child[s][n] = c
    BY SoundFacts
  <2>2. H[n] = H[c] + w[n] /\ H[c] \in Int /\ w[n] \in Int /\ w2[n] \in Int
    BY <1>1, <1>2, <2>1 DEF Levelled
  <2> HIDE DEF c
  <2>3. G[c] = H[c]
    BY <1>2, <2>1
  <2>4. n # r => w2[n] = w[n]
    OBVIOUS
  <2>5. G[n] = IF n = r THEN H[n] + w2[n] - w[n] ELSE H[n]
    BY <1>2
  <2> HIDE DEF G, r
  <2> QED BY <2>1, <2>2, <2>3, <2>4, <2>5
<1> HIDE DEF G
<1> QED BY <1>3, <1>4 DEF Level, Levelled

(* Moving the colour of two children to their parent, or back.             *)
LEMMA HoistHeights ==
  ASSUME NEW u, NEW v, NEW S, Sound(u, S), NEW w \in [Ptr -> Int],
         NEW w2 \in [Ptr -> Int], Level(u, S, w), v.child = u.child,
         NEW n \in S, NEW k \in Int, \A s \in Side : u.child[s][n] # LEAF,
         w2[n] = w[n] + k,
         \A s \in Side : w2[u.child[s][n]] = w[u.child[s][n]] - k,
         \A m \in S \ {n} : (\A s \in Side : m # u.child[s][n]) => w2[m] = w[m]
  PROVE  Level(v, S, w2)
<1>1. PICK H : Levelled(u, S, w, H)
  BY DEF Level
<1> DEFINE Child(m) == \E s \in Side : m = u.child[s][n]
           G == [m \in Ptr |-> IF Child(m) THEN H[m] - k ELSE H[m]]
<1>2. /\ S \subseteq Ptr /\ LEAF \in Ptr /\ LEAF \notin S
      /\ H \in [Ptr -> Int] /\ H[LEAF] = 0 /\ ~Child(LEAF)
  BY <1>1, SoundFacts DEF Levelled
<1>3. G \in [Ptr -> Int] /\ G[LEAF] = 0
  BY <1>2
<1>4. ASSUME NEW m \in S, NEW s \in Side
      PROVE  G[m] = G[v.child[s][m]] + w2[m]
  <2> DEFINE c == u.child[s][m]
  <2>1. c \in S \cup {LEAF} /\ v.child[s][m] = c /\ (c # LEAF => u.parent[c] = m)
    BY SoundFacts
  <2>2. H[m] = H[c] + w[m] /\ H[c] \in Int /\ H[m] \in Int /\ w[m] \in Int
    BY <1>1, <1>2, <2>1 DEF Levelled
  <2>3. \A x \in Ptr : G[x] = IF Child(x) THEN H[x] - k ELSE H[x]
    OBVIOUS
  <2>4. CASE m = n
    <3>1. Child(c) /\ ~Child(m) /\ w2[m] = w[m] + k
      BY <2>4, SoundFacts
    <3> HIDE DEF c, Child, G
    <3> QED BY <1>2, <2>1, <2>2, <2>3, <3>1
  <2>5. CASE m # n
    <3>1. ~Child(c)
      BY <1>2, <2>1, <2>5, SoundFacts
    <3>2. w2[m] = IF Child(m) THEN w[m] - k ELSE w[m]
      BY <2>5
    <3> HIDE DEF c, Child, G
    <3> QED BY <1>2, <2>1, <2>2, <2>3, <3>1, <3>2
  <2> QED BY <2>4, <2>5
<1> HIDE DEF G
<1> QED BY <1>3, <1>4 DEF Level, Levelled

(* A rotation by which a child that does not count rises above its parent, *)
(* and takes its weight.                                                   *)
LEMMA RotateHeights ==
  ASSUME NEW u, NEW S, Sound(u, S), NEW w \in [Ptr -> Int], NEW w2 \in [Ptr -> Int],
         Level(u, S, w), NEW n \in S, NEW s \in Side, u.child[Other(s)][n] # LEAF,
         w[u.child[Other(s)][n]] = 0,
         w2[n] = 0, w2[u.child[Other(s)][n]] = w[n],
         \A m \in S \ {n, u.child[Other(s)][n]} : w2[m] = w[m]
  PROVE  Level(Rotate(u, n, s), S, w2)
<1>1. PICK H : Levelled(u, S, w, H)
  BY DEF Level
<1> DEFINE o == Other(s)
           q == u.child[o][n]
           v == Rotate(u, n, s)
           G == [m \in Ptr |-> IF m = n THEN H[q] ELSE IF m = q THEN H[n] ELSE H[m]]
<1>2. /\ S \subseteq Ptr /\ LEAF \in Ptr /\ LEAF \notin S
      /\ H \in [Ptr -> Int] /\ H[LEAF] = 0
      /\ o \in Side /\ \A r \in Side : r = s \/ r = o
  BY <1>1, SoundFacts, Sides DEF Levelled
<1>3. /\ q \in S /\ q # n /\ v.child[s][q] = n /\ v.child[o][q] = u.child[o][q]
      /\ v.child[s][n] = u.child[s][n] /\ v.child[o][n] = u.child[s][q]
      /\ \A m \in S \ {n, q}, r \in Side :
           v.child[r][m] = IF u.child[r][m] = n THEN q ELSE u.child[r][m]
  BY RotateSound
<1>4. /\ \A m \in S, r \in Side : H[m] = H[u.child[r][m]] + w[m]
      /\ \A m \in S, r \in Side : /\ u.child[r][m] \in S \cup {LEAF}
                                  /\ u.child[r][m] # m
                                  /\ u.child[r][m] # LEAF => u.parent[u.child[r][m]] = m
  BY <1>1, SoundFacts DEF Levelled
<1>5. u.child[s][n] # q /\ u.parent[q] = n
  BY <1>2, <1>3, <1>4, SoundFacts
<1>6. w[q] = 0 /\ w2[n] = 0 /\ w2[q] = w[n] /\ \A m \in S \ {n, q} : w2[m] = w[m]
  OBVIOUS
<1> HIDE DEF v, q, o
<1>7. G \in [Ptr -> Int] /\ G[LEAF] = 0
  BY <1>2, <1>3
<1>8. \A m \in Ptr : G[m] = IF m = n THEN H[q] ELSE IF m = q THEN H[n] ELSE H[m]
  OBVIOUS
<1> HIDE DEF G
<1>9. ASSUME NEW r \in Side PROVE u.child[r][q] # n /\ u.child[r][q] # q
  <2>1. u.child[r][q] # LEAF => u.parent[u.child[r][q]] = q
    BY <1>3, <1>4
  <2>2. u.parent[n] # q
    BY <1>2, <1>3, <1>5, SoundFacts
  <2> QED BY <1>2, <1>3, <1>4, <2>1, <2>2
<1>10. ASSUME NEW m \in S, NEW r \in Side
      PROVE  G[m] = G[v.child[r][m]] + w2[m]
  <2>1. u.child[r][m] \in Ptr /\ H[u.child[r][m]] \in Int /\ w[m] \in Int
        /\ u.child[s][q] \in Ptr /\ u.child[o][q] \in Ptr
        /\ H[u.child[s][q]] \in Int /\ H[u.child[o][q]] \in Int /\ H[q] \in Int /\ H[n] \in Int
    BY <1>2, <1>3, <1>4
  <2>2. CASE m = n /\ r = s
    <3>1. u.child[s][n] # n /\ u.child[s][n] # q /\ u.child[s][n] \in Ptr
      BY <1>2, <1>4, <1>5
    <3>2. H[n] = H[u.child[s][n]] + w[n] /\ H[n] = H[u.child[o][n]] + w[n]
      BY <1>2, <1>4
    <3>3. H[u.child[s][n]] \in Int /\ w[n] \in Int /\ H[u.child[o][n]] = H[q]
      BY <1>2, <3>1 DEF q
    <3>4. H[q] = H[u.child[s][n]]
      BY <2>1, <3>2, <3>3
    <3>5. G[u.child[s][n]] = H[u.child[s][n]] /\ G[n] = H[q]
      BY <1>2, <1>8, <3>1
    <3> QED BY <1>3, <1>6, <2>1, <2>2, <3>4, <3>5
  <2>3. CASE m = n /\ r = o
    <3>1. H[q] = H[u.child[s][q]] + w[q]
      BY <1>3, <1>4
    <3>2. G[u.child[s][q]] = H[u.child[s][q]] /\ G[n] = H[q]
      BY <1>2, <1>8, <1>9, <2>1
    <3> QED BY <1>3, <1>6, <2>1, <2>3, <3>1, <3>2
  <2>4. CASE m = q /\ r = s
    <3>1. H[n] = H[q] + w[n] /\ w[n] \in Int
      BY <1>2, <1>4 DEF q
    <3> QED BY <1>2, <1>3, <1>6, <1>8, <2>1, <2>4, <3>1
  <2>5. CASE m = q /\ r = o
    <3>1. u.child[o][q] # n /\ u.child[o][q] # q
      BY <1>2, <1>9
    <3>2. H[q] = H[u.child[o][q]] + w[q] /\ H[n] = H[q] + w[n] /\ w[n] \in Int
      BY <1>2, <1>3, <1>4 DEF q
    <3> QED BY <1>2, <1>3, <1>6, <1>8, <2>1, <2>5, <3>1, <3>2
  <2>6. CASE m \notin {n, q}
    <3>1. u.child[r][m] # q
      BY <1>2, <1>3, <1>4, <1>5, <2>6
    <3>2. H[m] = H[u.child[r][m]] + w[m] /\ w2[m] = w[m] /\ m \in Ptr
      BY <1>2, <1>4, <1>6, <2>6
    <3>3. v.child[r][m] = IF u.child[r][m] = n THEN q ELSE u.child[r][m]
      BY <1>3, <2>6
    <3>4. G[v.child[r][m]] = H[u.child[r][m]]
      BY <1>2, <1>3, <1>8, <2>1, <3>1, <3>3
    <3> QED BY <1>8, <2>6, <3>2, <3>4
  <2> QED BY <1>2, <2>2, <2>3, <2>4, <2>5, <2>6
<1>11. Level(v, S, w2)
  BY <1>7, <1>10 DEF Level, Levelled
<1> QED BY <1>11 DEF v

-----------------------------------------------------------------------------
(* EvenWith is about heights: the sums of EvenWith are one for each node   *)
(* exactly where the nodes have heights.                                   *)
Sums(u, x, bh) ==
  bh = [m \in Ptr \cup {Nil} |->
          IF m \notin Node THEN {0}
          ELSE {h + (IF u.color[m] = "black" THEN 1 ELSE 0) + (IF m = x THEN 1 ELSE 0) :
                h \in bh[u.child["left"][m]] \cup bh[u.child["right"][m]]}]

(* The recursion ends wherever ranks fall along the links.                 *)
LEMMA SumsExist ==
  ASSUME NEW u, NEW x, NEW rank \in [Ptr \cup {Nil} -> Nat], NEW top \in Nat,
         \A m \in Ptr \cup {Nil} : rank[m] <= top,
         \A m \in Node, s \in Side : /\ u.child[s][m] \in Ptr \cup {Nil}
                                     /\ rank[u.child[s][m]] < rank[m]
  PROVE  \E bh : Sums(u, x, bh)
<1> DEFINE P == Ptr \cup {Nil}
           Sum(f, m) ==
             IF m \notin Node THEN {0}
             ELSE {h + (IF u.color[m] = "black" THEN 1 ELSE 0) + (IF m = x THEN 1 ELSE 0) :
                   h \in f[u.child["left"][m]] \cup f[u.child["right"][m]]}
           Upto(k) == \E f : /\ f = [m \in P |-> f[m]]
                             /\ \A m \in P : rank[m] < k => f[m] = Sum(f, m)
           bad == {k \in Nat : ~Upto(k)}
<1>1. Upto(0)
  <2> DEFINE f == [m \in P |-> {}]
  <2>1. f = [m \in P |-> f[m]]
    OBVIOUS
  <2>2. \A m \in P : ~(rank[m] < 0)
    OBVIOUS
  <2> HIDE DEF f, Sum
  <2> QED BY <2>1, <2>2
<1>2. ASSUME NEW k \in Nat, Upto(k) PROVE Upto(k + 1)
  <2>1. PICK f : /\ f = [m \in P |-> f[m]]
                 /\ \A m \in P : rank[m] < k => f[m] = Sum(f, m)
    <3> HIDE DEF Sum
    <3> QED BY <1>2
  <2> DEFINE g == [m \in P |-> Sum(f, m)]
  <2>2. g = [m \in P |-> g[m]]
    <3> HIDE DEF Sum
    <3> QED OBVIOUS
  <2>3. ASSUME NEW m \in P, rank[m] < k + 1 PROVE g[m] = Sum(g, m)
    <3>1. g[m] = Sum(f, m)
      <4> HIDE DEF Sum
      <4> QED OBVIOUS
    <3>2. ASSUME m \in Node, NEW s \in Side PROVE g[u.child[s][m]] = f[u.child[s][m]]
      <4> DEFINE c == u.child[s][m]
      <4>1. c \in P /\ rank[c] < rank[m]
        BY <3>2
      <4> HIDE DEF c
      <4>2. rank[c] < k
        <5>1. rank[c] \in Nat /\ rank[m] \in Nat
          BY <4>1
        <5> QED BY <2>3, <4>1, <5>1
      <4>3. g[c] = Sum(f, c) /\ f[c] = Sum(f, c)
        <5> HIDE DEF Sum
        <5> QED BY <2>1, <4>1, <4>2
      <4>4. g[c] = f[c]
        BY ONLY <4>3
      <4> HIDE DEF g
      <4> QED BY <4>4 DEF c
    <3> HIDE DEF g
    <3>3. m \in Node => /\ g[u.child["left"][m]] = f[u.child["left"][m]]
                        /\ g[u.child["right"][m]] = f[u.child["right"][m]]
      BY <3>2 DEF Side
    <3>4. Sum(g, m) = Sum(f, m)
      BY ONLY <3>3
    <3> QED BY ONLY <3>1, <3>4
  <2> HIDE DEF g, Sum
  <2> QED BY <2>2, <2>3
<1> HIDE DEF Upto
<1>3. bad = {}
  <2> SUFFICES ASSUME bad # {} PROVE FALSE
    OBVIOUS
  <2>1. PICK k \in bad : \A j \in bad : k <= j
    <3>1. bad \in SUBSET Nat
      OBVIOUS
    <3> QED BY <3>1, Least
  <2>2. k # 0
    BY <1>1, <2>1
  <2>3. k - 1 \in Nat /\ k - 1 \notin bad
    BY <2>1, <2>2
  <2>4. Upto(k - 1 + 1)
    BY <1>2, <2>3
  <2>5. k - 1 + 1 = k
    BY <2>1
  <2> QED BY <2>1, <2>4, <2>5
<1>4. Upto(top + 1)
  BY <1>3
<1> USE DEF Upto
<1>5. PICK f : /\ f = [m \in P |-> f[m]]
               /\ \A m \in P : rank[m] < top + 1 => f[m] = Sum(f, m)
  <2> HIDE DEF Sum
  <2> QED BY <1>4
<1>6. \A m \in P : rank[m] < top + 1
  OBVIOUS
<1>7. f = [m \in P |-> Sum(f, m)]
  <2> HIDE DEF Sum
  <2> QED BY <1>5, <1>6
<1> QED BY <1>7 DEF Sums

LEMMA SumsOfTree ==
  ASSUME NEW u, NEW S, Sound(u, S), NEW x
  PROVE  \E bh : Sums(u, x, bh)
<1>1. PICK B : Good(u, S, B)
  BY DEF Sound
<1>2. /\ IsFiniteSet(S) /\ Cardinality(S) \in Nat
      /\ \A n \in S : Cardinality(B[n]) \in Nat /\ Cardinality(B[n]) <= Cardinality(S)
      /\ \A n \in S, s \in Side : Cardinality(B[u.child[s][n]]) < Cardinality(B[n])
  <2>1. IsFiniteSet(S)
    BY <1>1, NodeAssumption, FS_Subset DEF Good
  <2> QED BY <1>1, <2>1, FS_CardinalityType, Sizes
<1> DEFINE top == Cardinality(S) + 1
           rank == [m \in Ptr \cup {Nil} |->
                      IF m \in S THEN Cardinality(B[m])
                      ELSE IF m \in Node THEN top ELSE 0]
<1>3. /\ S \subseteq Node /\ LEAF \notin Node /\ Nil \notin Node /\ B[LEAF] = {}
      /\ Cardinality(B[LEAF]) = 0
  BY <1>1, PointerAssumption, FS_EmptySet DEF Good, Ptr
<1>4. rank \in [Ptr \cup {Nil} -> Nat] /\ top \in Nat
  BY <1>2
<1>5. \A m \in Ptr \cup {Nil} : rank[m] <= top
  BY <1>2
<1>6. ASSUME NEW m \in Node, NEW s \in Side
      PROVE  u.child[s][m] \in Ptr \cup {Nil} /\ rank[u.child[s][m]] < rank[m]
  <2> DEFINE c == u.child[s][m]
  <2>1. CASE m \in S
    <3>1. c \in S \cup {LEAF} /\ Cardinality(B[c]) < Cardinality(B[m])
      BY <1>1, <1>2, <2>1, Neighbours
    <3> HIDE DEF c
    <3>2. c \in Ptr /\ rank[c] = Cardinality(B[c]) /\ rank[m] = Cardinality(B[m])
      BY <1>3, <2>1, <3>1 DEF Ptr
    <3> QED BY <3>1, <3>2 DEF c
  <2>2. CASE m \notin S
    <3>1. c \in S \cup {LEAF, Nil}
      BY <2>2 DEF Outside, Sound
    <3> HIDE DEF c
    <3>2. c \in Ptr \cup {Nil} /\ rank[m] = top
      BY <1>3, <2>2, <3>1 DEF Ptr
    <3>3. rank[c] <= Cardinality(S) /\ rank[c] \in Nat
      BY <1>2, <1>3, <1>4, <3>1, <3>2
    <3> QED BY <1>2, <3>2, <3>3 DEF c
  <2> QED BY <2>1, <2>2
<1> HIDE DEF rank, top
<1> QED BY <1>4, <1>5, <1>6, SumsExist

(* The sums of a node: there are some, and they are bounded.               *)
Summed(u, S, w, bh) ==
  /\ bh[LEAF] = {0}
  /\ \A n \in S :
       /\ bh[n] # {} /\ bh[n] \subseteq Nat
       /\ \E K \in Nat : bh[n] \subseteq 0..K
       /\ bh[n] = {h + w[n] : h \in bh[u.child["left"][n]] \cup bh[u.child["right"][n]]}

LEMMA SumsAre ==
  ASSUME NEW u, NEW S, Sound(u, S), NEW x, NEW bh, Sums(u, x, bh)
  PROVE  Summed(u, S, Weight(u, x), bh)
<1>1. PICK B : Good(u, S, B)
  BY DEF Sound
<1>2. /\ S \subseteq Node /\ S \subseteq Ptr /\ LEAF \in Ptr /\ LEAF \notin Node
      /\ "left" \in Side /\ "right" \in Side
  BY SoundFacts, PointerAssumption DEF Side
<1>3. bh[LEAF] = {0}
  BY <1>2 DEF Sums
<1> DEFINE a(n) == IF u.color[n] = "black" THEN 1 ELSE 0
           b(n) == IF n = x THEN 1 ELSE 0
           below(n) == bh[u.child["left"][n]] \cup bh[u.child["right"][n]]
<1>4. \A n \in S : bh[n] = {h + a(n) + b(n) : h \in below(n)}
  BY <1>2 DEF Sums
<1> DEFINE Fine(X) == X # {} /\ \E K \in Nat : X \subseteq 0..K
           T == {n \in S : Fine(bh[n])}
<1>5. ASSUME NEW n \in S,
             \A s \in Side : u.child[s][n] \in S => u.child[s][n] \in T
      PROVE  n \in T
  <2>1. ASSUME NEW s \in Side PROVE Fine(bh[u.child[s][n]])
    <3>1. u.child[s][n] \in S \cup {LEAF}
      BY SoundFacts
    <3>2. Fine({0})
      <4>1. {0} \subseteq 0..0
        OBVIOUS
      <4> QED BY <4>1
    <3> HIDE DEF Fine
    <3> QED BY <1>3, <1>5, <3>1, <3>2
  <2> DEFINE L == bh[u.child["left"][n]]
             R == bh[u.child["right"][n]]
             V == a(n)
             W == b(n)
  <2>2. Fine(L) /\ Fine(R)
    <3> HIDE DEF Fine
    <3> QED BY <1>2, <2>1
  <2>3. V \in Nat /\ W \in Nat
    OBVIOUS
  <2>4. bh[n] = {h + V + W : h \in L \cup R}
    BY <1>4
  <2> HIDE DEF L, R, V, W
  <2>5. PICK K \in Nat, J \in Nat : L \subseteq 0..K /\ R \subseteq 0..J
    BY <2>2
  <2>6. bh[n] \subseteq 0..(K + J + V + W)
    BY <2>3, <2>4, <2>5
  <2>7. bh[n] # {}
    BY <2>2, <2>4
  <2>8. Fine(bh[n])
    BY <2>3, <2>5, <2>6, <2>7
  <2> HIDE DEF Fine
  <2> QED BY <2>8
<1>6. T \in SUBSET S
  OBVIOUS
<1>7. T = S
  <2> HIDE DEF T
  <2> QED BY <1>1, <1>5, <1>6, UpFromLeaves
<1>8. ASSUME NEW n \in S
      PROVE  bh[n] # {} /\ bh[n] \subseteq Nat /\ \E K \in Nat : bh[n] \subseteq 0..K
  <2>1. Fine(bh[n])
    BY <1>7
  <2> QED BY <2>1
<1>9. ASSUME NEW n \in S
      PROVE  bh[n] = {h + Weight(u, x)[n] : h \in below(n)}
  <2>1. ASSUME NEW s \in Side PROVE bh[u.child[s][n]] \subseteq Nat
    <3>1. u.child[s][n] \in S \cup {LEAF}
      BY SoundFacts
    <3> QED BY <1>3, <1>8, <3>1
  <2>2. below(n) \subseteq Nat
    BY <1>2, <2>1
  <2>3. Weight(u, x)[n] = a(n) + b(n) /\ a(n) \in Nat /\ b(n) \in Nat
    BY <1>2 DEF Weight
  <2>4. bh[n] = {h + a(n) + b(n) : h \in below(n)}
    BY <1>4
  <2> HIDE DEF a, b, below
  <2>5. ASSUME NEW h \in below(n) PROVE h + a(n) + b(n) = h + Weight(u, x)[n]
    BY <2>2, <2>3
  <2> QED BY <2>4, <2>5
<1> QED BY <1>3, <1>8, <1>9 DEF Summed

LEMMA EvenIs ==
  ASSUME NEW u, NEW S, Sound(u, S), NEW x
  PROVE  EvenWith(u, x) <=> Level(u, S, Weight(u, x))
<1> DEFINE w == Weight(u, x)
<1>1. PICK bh : Sums(u, x, bh) /\ (EvenWith(u, x) <=> Cardinality(bh[u.root]) = 1)
  <2>1. \E bh : Sums(u, x, bh)
    BY SumsOfTree
  <2> QED BY <2>1 DEF EvenWith, Sums
<1>2. PICK B : Good(u, S, B)
  BY DEF Sound
<1>3. /\ S \subseteq Ptr /\ LEAF \in Ptr /\ LEAF \notin S /\ u.root \in S \cup {LEAF}
      /\ "left" \in Side /\ "right" \in Side /\ w \in [Ptr -> Int]
      /\ \A s \in Side : s = "left" \/ s = "right"
  BY SoundFacts, WeightType DEF Side
<1> HIDE DEF w
<1>4. /\ bh[LEAF] = {0}
      /\ \A n \in S : /\ bh[n] # {} /\ bh[n] \subseteq Nat
                      /\ \E K \in Nat : bh[n] \subseteq 0..K
                      /\ bh[n] = {h + w[n] : h \in bh[u.child["left"][n]]
                                                 \cup bh[u.child["right"][n]]}
  <2>1. Summed(u, S, w, bh)
    BY <1>1, SumsAre DEF w
  <2> QED BY <2>1 DEF Summed
<1>5. ASSUME NEW H, Levelled(u, S, w, H) PROVE Cardinality(bh[u.root]) = 1
  <2> DEFINE T == {n \in S : bh[n] = {H[n]}}
  <2>1. ASSUME NEW n \in S,
               \A s \in Side : u.child[s][n] \in S => u.child[s][n] \in T
        PROVE  n \in T
    <3>1. ASSUME NEW s \in Side PROVE bh[u.child[s][n]] = {H[n] - w[n]}
      <4> DEFINE c == u.child[s][n]
      <4>1. c \in S \cup {LEAF} /\ H[n] = H[c] + w[n] /\ H[LEAF] = 0
            /\ H \in [Ptr -> Int]
        BY <1>5, SoundFacts DEF Levelled
      <4>2. c \in S => c \in T
        BY <2>1
      <4> HIDE DEF c
      <4>3. bh[c] = {H[c]}
        BY <1>4, <4>1, <4>2
      <4>4. H[c] \in Int /\ w[n] \in Int
        BY <1>3, <4>1
      <4>5. H[c] = H[n] - w[n]
        BY <4>1, <4>4
      <4>6. bh[c] = {H[n] - w[n]}
        BY <4>3, <4>5
      <4> QED BY <4>6 DEF c
    <3>2. bh[n] = {h + w[n] : h \in {H[n] - w[n]}}
      BY <1>3, <1>4, <3>1
    <3>3. H[n] \in Int /\ w[n] \in Int
      BY <1>3, <1>5 DEF Levelled
    <3>4. (H[n] - w[n]) + w[n] = H[n]
      BY <3>3
    <3> QED BY <3>2, <3>4
  <2>2. T \in SUBSET S
    OBVIOUS
  <2>3. T = S
    <3> HIDE DEF T
    <3> QED BY <1>2, <2>1, <2>2, UpFromLeaves
  <2>4. \E h : bh[u.root] = {h}
    BY <1>3, <1>4, <2>3
  <2> QED BY <2>4, FS_Singleton
<1>6. ASSUME Cardinality(bh[u.root]) = 1 PROVE Level(u, S, w)
  <2>1. ASSUME u.root \in S PROVE \E h \in Nat : bh[u.root] = {h}
    <3>1. PICK K \in Nat : bh[u.root] \subseteq 0..K
      BY <1>4, <2>1
    <3>2. IsFiniteSet(0..K)
      BY <3>1, FS_Interval
    <3>3. IsFiniteSet(bh[u.root])
      BY <3>1, <3>2, FS_Subset
    <3>4. \E h : bh[u.root] = {h}
      BY <1>6, <3>3, FS_Singleton
    <3> QED BY <1>4, <2>1, <3>4
  <2> DEFINE T == {n \in S : \E h \in Nat : bh[n] = {h}}
  <2>2. ASSUME NEW q \in S, NEW s \in Side, u.child[s][q] \in S, NEW h \in Nat,
               bh[q] = {h}
        PROVE  bh[u.child[s][q]] = {h - w[q]}
    <3> DEFINE c == u.child[s][q]
    <3>1. c \in S /\ bh[c] # {} /\ bh[c] \subseteq Nat
      BY <1>4, <2>2
    <3>2. \A i \in bh[c] : i + w[q] \in bh[q]
      BY <1>3, <1>4
    <3> HIDE DEF c
    <3>3. w[q] \in Int
      BY <1>3
    <3>4. \A i \in bh[c] : i = h - w[q]
      BY <2>2, <3>1, <3>2, <3>3
    <3>5. bh[c] = {h - w[q]}
      BY <3>1, <3>4
    <3> QED BY <3>5 DEF c
  <2>3. ASSUME NEW n \in S, n = u.root \/ u.parent[n] \in T PROVE n \in T
    <3>1. CASE n = u.root
      BY <2>1, <3>1
    <3>2. CASE n # u.root
      <4> DEFINE q == u.parent[n]
      <4>1. q \in T /\ q \in S /\ SideOf(u, n) \in Side /\ u.child[SideOf(u, n)][q] = n
        BY <2>3, <3>2, SoundFacts
      <4> HIDE DEF q
      <4>2. PICK h \in Nat : bh[q] = {h}
        BY <4>1
      <4>3. bh[n] = {h - w[q]}
        BY <2>2, <4>1, <4>2
      <4>4. h - w[q] \in Nat
        BY <1>4, <4>3
      <4> QED BY <4>3, <4>4
    <3> QED BY <3>1, <3>2
  <2>4. T \in SUBSET S
    OBVIOUS
  <2>5. T = S
    <3> HIDE DEF T
    <3> QED BY <1>2, <2>3, <2>4, DownFromRoot
  <2>6. \A n \in S : \E h \in Nat : bh[n] = {h}
    BY <2>5
  <2> HIDE DEF T
  <2> DEFINE H == [m \in Ptr |-> IF m \in S THEN CHOOSE h \in Nat : bh[m] = {h} ELSE 0]
  <2>7. H \in [Ptr -> Int] /\ H[LEAF] = 0 /\ \A n \in S : bh[n] = {H[n]}
    <3>1. ASSUME NEW n \in S PROVE H[n] \in Nat /\ bh[n] = {H[n]}
      <4> DEFINE h == CHOOSE h \in Nat : bh[n] = {h}
      <4>1. h \in Nat /\ bh[n] = {h}
        BY <2>6
      <4>2. H[n] = h
        BY <1>3
      <4> HIDE DEF h, H
      <4> QED BY <4>1, <4>2
    <3>2. \A m \in Ptr : m \notin S => H[m] = 0
      OBVIOUS
    <3>3. H = [m \in Ptr |-> H[m]]
      OBVIOUS
    <3> HIDE DEF H
    <3> QED BY <1>3, <3>1, <3>2, <3>3
  <2> HIDE DEF H
  <2>8. ASSUME NEW n \in S, NEW s \in Side PROVE H[n] = H[u.child[s][n]] + w[n]
    <3> DEFINE c == u.child[s][n]
    <3>1. c \in S \cup {LEAF}
      BY SoundFacts
    <3>2. bh[c] = {H[c]}
      <4> HIDE DEF c
      <4> QED BY <1>4, <2>7, <3>1
    <3>3. H[c] + w[n] \in bh[n]
      BY <1>3, <1>4, <3>2
    <3> HIDE DEF c
    <3>4. H[n] = H[c] + w[n]
      BY <2>7, <3>3
    <3> QED BY <3>4 DEF c
  <2> QED BY <2>7, <2>8 DEF Level, Levelled
<1>7. Level(u, S, w) <=> \E H : Levelled(u, S, w, H)
  BY DEF Level
<1>8. EvenWith(u, x) <=> Level(u, S, w)
  BY <1>1, <1>5, <1>6, <1>7
<1> QED BY <1>8 DEF w

-----------------------------------------------------------------------------
(* Trees that are even *)

(* An only child is red: the paths to the leaf beside it have no black     *)
(* node that it could match.                                               *)
LEMMA OnlyChild ==
  ASSUME NEW u, NEW S, Sound(u, S), NEW x, Level(u, S, Weight(u, x)),
         NEW d \in S, NEW s \in Side, u.child[s][d] = LEAF, u.child[Other(s)][d] # LEAF
  PROVE  u.color[u.child[Other(s)][d]] = "red"
<1> DEFINE c == u.child[Other(s)][d]
           w == Weight(u, x)
<1>1. PICK H : Levelled(u, S, w, H)
  BY DEF Level
<1>2. /\ S \subseteq Ptr /\ Other(s) \in Side /\ c \in S
      /\ w \in [Ptr -> Int] /\ \A m \in Ptr : w[m] >= 0
      /\ \A m \in Ptr : u.color[m] = "black" => w[m] >= 1
      /\ \A m \in Ptr : u.color[m] = "red" \/ u.color[m] = "black"
  BY SoundFacts, Sides, WeightType
<1>3. H[d] = H[LEAF] + w[d] /\ H[d] = H[c] + w[d] /\ H[LEAF] = 0 /\ H \in [Ptr -> Int]
  BY <1>1, <1>2 DEF Levelled
<1> HIDE DEF w
<1>4. H[c] >= w[c]
  BY <1>1, <1>2, HeightsAreNatural
<1> HIDE DEF c
<1>5. H[c] = 0
  BY <1>2, <1>3
<1>6. u.color[c] # "black"
  BY <1>2, <1>4, <1>5
<1> QED BY <1>2, <1>6 DEF c

(* The two ways of deleteCheckSwitch to take out d.                        *)
Spliced(e, d) ==
  \E s \in Side : LET only == t.child[Other(s)][d]
                  IN /\ t.child[s][d] = LEAF
                     /\ e.tree = switchNodes(t, d, only) /\ e.temp = only
                     /\ e.color = t.color[d]
Replaced(e, S, d) ==
  \E min \in S : /\ Succeeded(e.tree, S, d, min) /\ t.child["left"][min] = LEAF
                 /\ t.child["left"][d] # LEAF /\ t.child["right"][d] # LEAF
                 /\ e.temp = t.child["right"][min] /\ e.color = t.color[min]

LEMMA RemovedCases ==
  ASSUME NEW S, Sound(t, S), Blank(t, S), NEW d \in S
  PROVE  Spliced(Removed(d), d) \/ Replaced(Removed(d), S, d)
<1> DEFINE left == t.child["left"][d]
           right == t.child["right"][d]
           only == IF left = LEAF THEN right ELSE left
           min == Outermost(right, "left")
<1>1. PICK B : Good(t, S, B)
  BY DEF Sound
<1>2. /\ S \subseteq Ptr /\ t \in Tree /\ "left" \in Side /\ "right" \in Side
      /\ Other("left") = "right" /\ Other("right") = "left"
  BY SoundFacts DEF Side, Other
<1>3. CASE left = LEAF \/ right = LEAF
  <2>1. PICK s \in Side : t.child[s][d] = LEAF /\ only = t.child[Other(s)][d]
    <3>1. CASE left = LEAF
      BY <1>2, <3>1
    <3>2. CASE left # LEAF
      BY <1>2, <1>3, <3>2
    <3> QED BY <3>1, <3>2
  <2>2. /\ Removed(d).tree = switchNodes(t, d, only) /\ Removed(d).temp = only
        /\ Removed(d).color = t.color[d]
    BY <1>3 DEF Removed
  <2> HIDE DEF only
  <2> QED BY <2>1, <2>2 DEF Spliced
<1>4. CASE left # LEAF /\ right # LEAF
  <2> DEFINE v == deleteNode(d, min)
             r == t.child["right"][min]
  <2>1. Removed(d).tree = v /\ Removed(d).temp = r /\ Removed(d).color = t.color[min]
    BY <1>4 DEF Removed
  <2>2. right \in S
    BY <1>1, <1>2, <1>4, Neighbours
  <2>3. LET y == Outermost(right, "left")
        IN /\ y \in B[right] /\ y \in S /\ t.child["left"][y] = LEAF
           /\ \A z \in B[right] : z = y \/ Before("left", t.key[y], t.key[z])
    <3>1. Outside(t, S) /\ "left" \in Side
      BY <1>2 DEF Sound
    <3> HIDE DEF right
    <3> QED BY <1>1, <2>2, <3>1, OutermostIs
  <2> HIDE DEF min
  <2>4. Successor(S, B, d, min)
    BY <1>4, <2>3 DEF Successor, min
  <2>5. Succeeded(v, S, d, min)
    BY <1>1, <1>2, <2>4, DeleteNodeGood
  <2>6. min \in S /\ t.child["left"][min] = LEAF
    BY <2>3 DEF min
  <2> HIDE DEF v
  <2> QED BY <1>4, <2>1, <2>5, <2>6 DEF Replaced
<1> QED BY <1>3, <1>4

(* So what takes the place of a node that is taken out is red, or a leaf.  *)
LEMMA RedMovesUp ==
  ASSUME NEW S, Sound(t, S), Blank(t, S), NEW x, Level(t, S, Weight(t, x)), NEW d \in S,
         Removed(d).temp # LEAF
  PROVE  Removed(d).tree.color[Removed(d).temp] = "red"
<1> DEFINE e == Removed(d)
<1>1. e.temp # LEAF
  OBVIOUS
<1>2. Spliced(e, d) \/ Replaced(e, S, d)
  BY RemovedCases
<1> HIDE DEF e
<1>3. ASSUME Spliced(e, d) PROVE e.tree.color[e.temp] = "red"
  <2>1. PICK s \in Side : /\ t.child[s][d] = LEAF /\ e.temp = t.child[Other(s)][d]
                          /\ e.tree = switchNodes(t, d, e.temp)
    BY <1>3 DEF Spliced
  <2>2. e.tree.color = t.color
    <3>1. e.temp \in Ptr /\ d \in Ptr /\ t.parent[d] \in Ptr /\ t \in Tree
      <4>1. Other(s) \in Side
        BY <2>1, Sides
      <4> QED BY <2>1, <4>1, SoundFacts
    <3> QED BY <2>1, <3>1, SwitchIs
  <2>3. t.color[e.temp] = "red"
    BY <1>1, <2>1, OnlyChild
  <2> QED BY <2>2, <2>3
<1>4. ASSUME Replaced(e, S, d) PROVE e.tree.color[e.temp] = "red"
  <2>1. PICK min \in S : /\ Succeeded(e.tree, S, d, min) /\ t.child["left"][min] = LEAF
                         /\ e.temp = t.child["right"][min]
    BY <1>4 DEF Replaced
  <2>2. "left" \in Side /\ "right" \in Side /\ Other("left") = "right"
    BY DEF Side, Other
  <2>3. e.temp # min /\ e.temp \in Ptr
    BY <1>1, <2>1, <2>2, SoundFacts
  <2>4. t.color[e.temp] = "red"
    BY <1>1, <2>1, <2>2, OnlyChild
  <2>5. e.tree.color[e.temp] = t.color[e.temp]
    BY <2>1, <2>3 DEF Succeeded
  <2> QED BY <2>4, <2>5
<1> QED BY <1>2, <1>3, <1>4 DEF e

(* A Delete from a red-black tree never enters the loop that restores the  *)
(* heights: line 389 stops at once, at a leaf or at a red node.            *)
THEOREM EvenTreesSkipTheLoop == Spec => LoopIsSkipped
<1>1. ASSUME Held, Coloured, [Next]_vars, Idle, IsRedBlack, pc' = "deleteFix"
      PROVE  ~Short'
  <2>1. PICK k \in Deletable : DeletePresent(k)
    BY <1>1, NextCases DEF Idle, Ask, InsertNew, Step, vars, InsertRecolour,
       InsertRotate, InsertEnd, DeleteNoSibling, DeleteRecolour, DeleteRotate,
       DeleteFixed, DeleteEnd
  <2> DEFINE d == FindNode(k)
             e == Removed(d)
  <2>2. t' = e.tree /\ node' = e.temp
    BY <2>1 DEF DeletePresent
  <2>3. d \in Linked
    BY <1>1, <2>1, DeletePresentHeld
  <2>4. Sound(t, Linked) /\ Blank(t, Linked)
    BY <1>1, PointerAssumption DEF Held, Blank, Linked, Idle
  <2>5. Level(t, Linked, Weight(t, Nil))
    BY <1>1, <2>4, EvenIs DEF IsRedBlack, SameBlackHeight
  <2> HIDE DEF d
  <2>6. e.temp # LEAF => e.tree.color[e.temp] = "red"
    BY <2>3, <2>4, <2>5, RedMovesUp
  <2> HIDE DEF e
  <2> QED BY <2>2, <2>6 DEF Short
<1>2. Held /\ Coloured /\ [Next]_vars
        => [Idle /\ IsRedBlack /\ pc' = "deleteFix" => ~Short']_vars
  BY <1>1
<1> QED BY <1>2, SpecHeld, PTL DEF Spec, LoopIsSkipped

(* A red child and its black parent trade colours and places.              *)
LEMMA ExchangedLevel ==
  ASSUME NEW u, NEW S, Sound(u, S), NEW x, Level(u, S, Weight(u, x)),
         NEW v, NEW n, NEW s, Exchanged(v, u, S, n, s),
         x # n, x # u.child[Other(s)][n]
  PROVE  Sound(v, S) /\ Level(v, S, Weight(v, x))
<1> DEFINE c == u.child[Other(s)][n]
           a == Paint(u, c, "black")
           b == Paint(a, n, "red")
           w == Weight(u, x)
<1>1. /\ n \in S /\ s \in Side /\ c # LEAF /\ u.color[c] = "red" /\ u.color[n] = "black"
      /\ v = Rotate(b, n, s)
  BY DEF Exchanged
<1>2. /\ S \subseteq Ptr /\ LEAF \notin S /\ c \in S /\ c \in Ptr /\ n \in Ptr /\ c # n
      /\ w \in [Ptr -> Int] /\ x # n /\ x # c
  BY <1>1, SoundFacts, Sides, WeightType
<1>3. /\ Sound(a, S) /\ a.root = u.root /\ a.child = u.child
      /\ \A m \in Ptr : a.color[m] = IF m = c THEN "black" ELSE u.color[m]
  <2>1. Sound(u, S) /\ c \in Ptr
    BY <1>2
  <2> HIDE DEF c
  <2> QED BY ONLY <2>1, PaintSound
<1> HIDE DEF a
<1>4. /\ Sound(b, S) /\ b.root = u.root /\ b.child = u.child
      /\ \A m \in Ptr : b.color[m] = IF m = n THEN "red" ELSE a.color[m]
  <2>1. Sound(a, S) /\ n \in Ptr /\ n # LEAF
    BY <1>1, <1>2, <1>3
  <2>2. /\ Sound(b, S) /\ b.root = a.root /\ b.child = a.child
        /\ \A m \in Ptr : b.color[m] = IF m = n THEN "red" ELSE a.color[m]
    BY ONLY <2>1, PaintSound
  <2> QED BY <1>3, <2>2
<1>5. b.child[Other(s)][n] = c
  BY <1>4
<1> HIDE DEF b, c
<1>6. Sound(v, S) /\ v.color = b.color
  <2>1. b.child[Other(s)][n] # LEAF
    BY <1>1, <1>5
  <2> QED BY ONLY <1>1, <1>4, <2>1, RotateSound
<1>7. Level(b, S, w)
  BY <1>4, SameHeights
<1> DEFINE w2 == Weight(v, x)
<1>8. /\ w2 \in [Ptr -> Int] /\ w[c] = 0 /\ w2[n] = 0 /\ w2[c] = w[n]
      /\ \A m \in S \ {n, c} : w2[m] = w[m]
  BY <1>1, <1>2, <1>3, <1>4, <1>6 DEF Weight
<1> HIDE DEF w, w2
<1>9. Level(Rotate(b, n, s), S, w2)
  <2>1. /\ b.child[Other(s)][n] # LEAF /\ w[b.child[Other(s)][n]] = 0
        /\ w2[b.child[Other(s)][n]] = w[n]
        /\ \A m \in S \ {n, b.child[Other(s)][n]} : w2[m] = w[m]
    BY <1>1, <1>5, <1>8
  <2> QED BY ONLY <1>1, <1>2, <1>4, <1>7, <1>8, <2>1, RotateHeights
<1> QED BY <1>1, <1>6, <1>9 DEF w2

(* And of two red nodes that change places none counts.                    *)
LEMMA RedsTurnLevel ==
  ASSUME NEW u, NEW S, Sound(u, S), NEW x, Level(u, S, Weight(u, x)),
         NEW n \in S, NEW s \in Side, u.child[Other(s)][n] # LEAF,
         u.color[n] = "red", u.color[u.child[Other(s)][n]] = "red",
         x # n, x # u.child[Other(s)][n]
  PROVE  LET v == Rotate(u, n, s) IN Level(v, S, Weight(v, x))
<1> DEFINE c == u.child[Other(s)][n]
           v == Rotate(u, n, s)
           w == Weight(u, x)
<1>1. S \subseteq Ptr /\ c \in S /\ w \in [Ptr -> Int]
  BY SoundFacts, Sides, WeightType
<1>2. v.color = u.color
  BY RotateSound
<1>3. Weight(v, x) = w
  BY <1>2 DEF Weight
<1>4. w[n] = 0 /\ w[c] = 0
  BY <1>1 DEF Weight
<1> HIDE DEF w, v
<1>5. Level(Rotate(u, n, s), S, w)
  <2>1. /\ Sound(u, S) /\ Level(u, S, w) /\ n \in S /\ s \in Side /\ c # LEAF
        /\ w[c] = 0 /\ w[n] = 0 /\ w[c] = w[n] /\ \A m \in S \ {n, c} : w[m] = w[m]
    BY <1>4 DEF w
  <2> QED BY ONLY <1>1, <2>1, RotateHeights
<1> QED BY <1>3, <1>5 DEF v

(* A new red leaf adds nothing to any path.                                *)
LEMMA LinkLevel ==
  ASSUME NEW v, NEW S, Sound(t, S), NEW n \in Node \ S, NEW k, Extended(v, S, n, k),
         Level(t, S, Weight(t, Nil))
  PROVE  Level(v, S \cup {n}, Weight(v, Nil))
<1> DEFINE p == LastNode(k)
           w == Weight(t, Nil)
           w2 == Weight(v, Nil)
<1>1. PICK H : Levelled(t, S, w, H)
  BY DEF Level
<1>2. /\ S \subseteq Ptr /\ LEAF \in Ptr /\ LEAF \notin S /\ n \in Ptr /\ n # LEAF
      /\ n # Nil /\ n \notin S /\ Nil \notin S
      /\ H \in [Ptr -> Int] /\ H[LEAF] = 0
  BY <1>1, SoundFacts, PointerAssumption DEF Levelled, Ptr
<1>3. /\ \A m \in Ptr : v.color[m] = IF m = n THEN "red" ELSE t.color[m]
      /\ \A r \in Side : v.child[r][n] = LEAF
      /\ p = LEAF \/ t.child[Toward(k, p)][p] = LEAF
      /\ \A r \in Side, m \in Ptr \ {n} :
           v.child[r][m] = IF p # LEAF /\ m = p /\ r = Toward(k, p) THEN n
                           ELSE t.child[r][m]
  BY DEF Extended
<1> HIDE DEF p
<1> DEFINE G == [H EXCEPT ![n] = 0]
<1>4. G \in [Ptr -> Int] /\ G[LEAF] = 0 /\ G[n] = 0 /\ \A m \in Ptr \ {n} : G[m] = H[m]
  BY <1>2
<1>5. w2[n] = 0 /\ \A m \in S : w2[m] = w[m] /\ w[m] \in Int
  BY <1>2, <1>3 DEF Weight
<1> HIDE DEF G, w, w2
<1>6. ASSUME NEW m \in S \cup {n}, NEW s \in Side
      PROVE  G[m] = G[v.child[s][m]] + w2[m]
  <2>1. CASE m = n
    BY <1>3, <1>4, <1>5, <2>1
  <2>2. CASE m # n
    <3>1. t.child[s][m] \in S \cup {LEAF} /\ m \in S
      BY <2>2, SoundFacts
    <3>2. G[v.child[s][m]] = H[t.child[s][m]]
      BY <1>2, <1>3, <1>4, <2>2, <3>1
    <3>3. H[m] = H[t.child[s][m]] + w[m]
      BY <1>1, <3>1 DEF Levelled
    <3> QED BY <1>2, <1>4, <1>5, <2>2, <3>1, <3>2, <3>3
  <2> QED BY <2>1, <2>2
<1> QED BY <1>4, <1>6 DEF Level, Levelled, w2

-----------------------------------------------------------------------------
(* Inserting *)

(* The rounds of a Delete are not part of an Insert.                       *)
Named == pc \in {"deleteFix", "free"} => call.op = "Delete"

LEMMA RoundsOf ==
  ASSUME Step
  PROVE  /\ call' = call
         /\ \/ InsertRecolour \/ InsertRotate \/ InsertEnd
            \/ pc \in {"deleteFix", "free"}
         /\ pc = "insertFix" => pc' \in {"insertFix", "idle"}
<1>1. CASE InsertRecolour
  BY Zenon, <1>1 DEF InsertRecolour
<1>2. CASE InsertRotate
  BY Zenon, <1>2 DEF InsertRotate
<1>3. CASE InsertEnd
  BY Zenon, <1>3 DEF InsertEnd
<1>4. CASE DeleteNoSibling
  BY <1>4 DEF DeleteNoSibling
<1>5. CASE DeleteRecolour
  <2>1. pc = "deleteFix" /\ call' = call
    BY Zenon, <1>5 DEF DeleteRecolour
  <2> QED BY <2>1
<1>6. CASE DeleteRotate
  <2>1. pc = "deleteFix" /\ call' = call
    BY Zenon, <1>6 DEF DeleteRotate
  <2> QED BY <2>1
<1>7. CASE DeleteFixed \/ DeleteEnd
  BY <1>7 DEF DeleteFixed, DeleteEnd
<1> QED BY <1>1, <1>2, <1>3, <1>4, <1>5, <1>6, <1>7 DEF Step

LEMMA SpecNamed == Spec => []Named
<1>1. Init => Named
  BY DEF Init, Named
<1>2. ASSUME Named, [Next]_vars PROVE Named'
  <2>1. CASE \E k \in Key, op \in {"Find", "Insert", "Delete"} : Ask(op, k)
    BY <2>1 DEF Named, Ask, Begin
  <2>2. CASE \E k \in Key : \E n \in free : InsertNew(k, n)
    BY <2>2 DEF Named, InsertNew
  <2>3. CASE \E k \in Deletable : DeletePresent(k)
    BY <2>3 DEF Named, DeletePresent, Begin
  <2>4. CASE Step
    <3>1. pc \in {"insertFix", "deleteFix", "free"}
      <4>1. CASE InsertRecolour \/ InsertRotate \/ InsertEnd
        BY Zenon, <4>1 DEF InsertRecolour, InsertRotate, InsertEnd
      <4> QED BY <2>4, <4>1, RoundsOf
    <3> QED BY <1>2, <2>4, <3>1, RoundsOf DEF Named
  <2>5. CASE UNCHANGED vars
    BY <1>2, <2>5 DEF Named, vars
  <2> QED BY <1>2, <2>1, <2>2, <2>3, <2>4, <2>5, NextCases, DeletableAssumption
<1> QED BY <1>1, <1>2, PTL DEF Spec

(* Where p, the parent of node, and its sibling are red, g gives both its  *)
(* black.                                                                  *)
LEMMA InsertRecolourLevel ==
  ASSUME Held, Coloured, InsertRecolour, Level(t, Linked, Weight(t, Nil))
  PROVE  Level(t', Linked, Weight(t', Nil))
<1> DEFINE p == t.parent[node]
           g == t.parent[p]
           s == SideOf(t, p)
           temp == t.child[Other(s)][g]
           w == Weight(t, Nil)
           w2 == Weight(t', Nil)
<1>1. /\ pc = "insertFix" /\ t.color[p] = "red" /\ g # LEAF /\ t.color[temp] = "red"
      /\ t' = Paint(Paint(Paint(t, p, "black"), temp, "black"), g, "red")
  BY DEF InsertRecolour, RedParent
<1>2. /\ Sound(t, Linked) /\ node \in Linked /\ t \in Tree
      /\ \A m \in Linked, r \in Side : RedPair(t, m, r) => t.child[r][m] = node
  <2>1. Sound(t, Linked) /\ t \in Tree
    BY DEF Held, Sound
  <2>2. /\ node \in Linked
        /\ \A m \in Linked, r \in Side : RedPair(t, m, r) => t.child[r][m] = node
    BY <1>1 DEF Coloured
  <2> QED BY <2>1, <2>2
<1>3. /\ Linked \subseteq Ptr /\ LEAF \in Ptr /\ LEAF \notin Linked
      /\ t.color[LEAF] = "black" /\ Nil \notin Linked
  BY <1>2, SoundFacts, PointerAssumption
<1>4. /\ p \in Linked /\ p # node
  BY <1>1, <1>2, <1>3, SoundFacts
<1>5. /\ g \in Linked /\ g # p /\ s \in Side /\ t.child[s][g] = p
  <2> HIDE DEF p
  <2> QED BY <1>1, <1>2, <1>4, SoundFacts
<1>6. /\ Other(s) \in Side /\ \A r \in Side : r = s \/ r = Other(s)
  BY <1>5, Sides
<1>7. temp # LEAF /\ temp \in Linked /\ temp # p /\ temp # g
  <2>1. temp # LEAF
    BY <1>1, <1>3
  <2> HIDE DEF s, g, p
  <2>2. temp \in Linked \cup {LEAF} /\ temp # g /\ temp # t.child[s][g]
    BY <1>2, <1>5, <1>6, <2>1, Sides, SoundFacts
  <2> QED BY <1>5, <2>1, <2>2
<1>8. t.color[g] = "black"
  <2>1. ~RedPair(t, g, s)
    BY <1>2, <1>4, <1>5
  <2>2. t.color[g] # "red"
    BY <1>1, <1>5, <2>1 DEF RedPair
  <2> QED BY <1>2, <1>3, <1>5, <2>2, SoundFacts
<1> HIDE DEF temp, s, g, p
<1>9. /\ t'.child = t.child
      /\ \A m \in Ptr : t'.color[m] = IF m = g THEN "red"
                                      ELSE IF m = p \/ m = temp THEN "black"
                                      ELSE t.color[m]
  BY <1>1, <1>2 DEF Paint, Tree
<1>10. /\ w \in [Ptr -> Int] /\ w2 \in [Ptr -> Int]
       /\ w[g] = 1 /\ w[p] = 0 /\ w[temp] = 0
       /\ w2[g] = 0 /\ w2[p] = 1 /\ w2[temp] = 1
       /\ \A m \in Linked \ {g, p, temp} : w2[m] = w[m]
  BY <1>1, <1>3, <1>4, <1>5, <1>7, <1>8, <1>9 DEF Weight
<1> HIDE DEF w, w2
<1>11. Level(t', Linked, w2)
  <2> DEFINE k == 0 - 1
  <2>1. k \in Int /\ w2[g] = w[g] + k
    BY <1>10
  <2>2. \A r \in Side : /\ t.child[r][g] \in {p, temp} /\ t.child[r][g] # LEAF
                        /\ w2[t.child[r][g]] = w[t.child[r][g]] - k
    BY <1>3, <1>4, <1>5, <1>6, <1>7, <1>10 DEF temp
  <2>3. \A m \in Linked \ {g} : (\A r \in Side : m # t.child[r][g]) => w2[m] = w[m]
    BY <1>5, <1>6, <1>10 DEF temp
  <2>4. Level(t, Linked, w)
    BY DEF w
  <2> HIDE DEF k
  <2> QED BY ONLY <1>2, <1>5, <1>9, <1>10, <2>1, <2>2, <2>3, <2>4, HoistHeights
<1> QED BY <1>11 DEF w2

(* Where it is not, p takes the black and the place of g.                  *)
LEMMA InsertRotateLevel ==
  ASSUME Held, Coloured, InsertRotate, Level(t, Linked, Weight(t, Nil))
  PROVE  Level(t', Linked, Weight(t', Nil))
<1>1. PICK u, n, g, s :
        /\ Climbing(u, n, g, s)
        /\ t' = Rotate(Paint(Paint(u, u.child[s][g], "black"), g, "red"), g, Other(s))
  BY InsertRotateIs
<1>2. /\ Sound(u, Linked) /\ g \in Linked /\ s \in Side /\ n \in Linked
      /\ u.child[s][g] # LEAF /\ u.child[s][u.child[s][g]] = n
      /\ u.color[u.child[s][g]] = "red"
      /\ \A m \in Linked, r \in Side : RedPair(u, m, r) => u.child[r][m] = n
      /\ \/ u = t
         \/ \E p \in Linked : /\ u = Rotate(t, p, s) /\ t.child[Other(s)][p] # LEAF
                              /\ t.color[p] = "red"
                              /\ t.color[t.child[Other(s)][p]] = "red"
  BY <1>1 DEF Climbing
<1>3. /\ Sound(t, Linked) /\ Nil \notin Linked /\ Nil \notin Ptr /\ Linked \subseteq Ptr
      /\ Other(s) \in Side /\ Other(Other(s)) = s
      /\ u.child[s][g] \in Linked
  BY <1>2, Sides, SoundFacts, PointerAssumption DEF Held
<1>4. Level(u, Linked, Weight(u, Nil))
  <2>1. CASE u = t
    BY <2>1
  <2>2. CASE u # t
    <3>1. PICK p \in Linked : /\ u = Rotate(t, p, s) /\ t.child[Other(s)][p] # LEAF
                              /\ t.color[p] = "red"
                              /\ t.color[t.child[Other(s)][p]] = "red"
      BY <1>2, <2>2
    <3>2. Nil # p /\ Nil # t.child[Other(s)][p]
      BY <1>3, <3>1, SoundFacts
    <3>3. LET v == Rotate(t, p, s) IN Level(v, Linked, Weight(v, Nil))
      BY <1>2, <1>3, <3>1, <3>2, RedsTurnLevel
    <3> QED BY <3>1, <3>3
  <2> QED BY <2>1, <2>2
<1>5. u.color[g] = "black"
  <2>1. u.child[s][g] # n
    BY <1>2, <1>3, SoundFacts
  <2>2. u.color[g] # "red"
    BY <1>2, <2>1 DEF RedPair
  <2> QED BY <1>2, <1>3, <2>2, SoundFacts
<1>6. Exchanged(t', u, Linked, g, Other(s))
  BY <1>1, <1>2, <1>3, <1>5 DEF Exchanged
<1>7. Nil # g /\ Nil # u.child[Other(Other(s))][g]
  BY <1>2, <1>3
<1> QED BY <1>2, <1>4, <1>6, <1>7, ExchangedLevel

LEMMA InsertEndLevel ==
  ASSUME Held, InsertEnd, Level(t, Linked, Weight(t, Nil))
  PROVE  Level(t', Linked, Weight(t', Nil))
<1>1. Sound(t, Linked) /\ t.root \in Ptr /\ t' = Paint(t, t.root, "black") /\ t \in Tree
      /\ Linked \subseteq Ptr
  BY SoundFacts DEF Held, InsertEnd
<1>2. t'.child = t.child /\ \A m \in Ptr \ {t.root} : t'.color[m] = t.color[m]
  BY <1>1 DEF Paint, Tree
<1>3. \A m \in Linked \ {t.root} : Weight(t', Nil)[m] = Weight(t, Nil)[m]
  BY <1>1, <1>2 DEF Weight
<1>4. Weight(t, Nil) \in [Ptr -> Int] /\ Weight(t', Nil) \in [Ptr -> Int]
  BY WeightType
<1> QED BY <1>1, <1>2, <1>3, <1>4, RootHeights

(* No round of an Insert makes the paths differ in their black nodes       *)
(* (rbtree.go:342-384).                                                    *)
THEOREM InsertKeepsEven == Spec => InsertKeepsHeights
<1>1. ASSUME Held, Coloured, Held', Named, [Next]_vars, call'.op = "Insert", SameBlackHeight
      PROVE  SameBlackHeight'
  <2>1. Sound(t, Linked) /\ Sound(t', Linked')
    BY <1>1 DEF Held
  <2>2. Level(t, Linked, Weight(t, Nil))
    BY <1>1, <2>1, EvenIs DEF SameBlackHeight
  <2>3. SUFFICES ASSUME t' # t PROVE Level(t', Linked', Weight(t', Nil))
    <3>1. Level(t', Linked', Weight(t', Nil)) => EvenWith(t', Nil)
      BY <2>1, EvenIs
    <3> QED BY <1>1, <3>1 DEF SameBlackHeight
  <2>4. ASSUME Same PROVE Linked' = Linked
    BY <2>4 DEF Same
  <2>5. CASE \E k \in Key : \E n \in free : InsertNew(k, n)
    <3>1. PICK k \in Key, n \in free : InsertNew(k, n)
      BY <2>5
    <3>2. /\ Linked' = Linked \cup {n} /\ n \notin Linked /\ n \in Node
      BY <1>1, <3>1, InsertNewHeld DEF Held
    <3>3. FindNode(k) = Nil /\ t' = Link(n, k)
      BY <3>1 DEF InsertNew
    <3>4. \A m \in Linked : t.key[m] # k
      BY <1>1, <3>3, FindNodeHeld
    <3>5. Extended(t', Linked, n, k)
      <4>1. PICK B : Good(t, Linked, B)
        BY <2>1 DEF Sound
      <4>2. Outside(t, Linked) /\ t \in Tree
        BY <2>1 DEF Sound
      <4> QED BY <3>2, <3>3, <3>4, <4>1, <4>2, LinkGood
    <3> QED BY <2>1, <2>2, <3>2, <3>5, LinkLevel
  <2>6. CASE InsertRecolour
    BY <1>1, <2>2, <2>4, <2>6, InsertRecolourLevel, InsertRecolourHeld
  <2>7. CASE InsertRotate
    BY <1>1, <2>2, <2>4, <2>7, InsertRotateLevel, InsertRotateHeld
  <2>8. CASE InsertEnd
    BY <1>1, <2>2, <2>4, <2>8, InsertEndLevel, InsertEndHeld
  <2>9. InsertRecolour \/ InsertRotate \/ InsertEnd
        \/ \E k \in Key : \E n \in free : InsertNew(k, n)
    <3>1. ASSUME NEW k, NEW op, Ask(op, k) PROVE FALSE
      BY <2>3, <3>1 DEF Ask
    <3>2. ~\E k \in Deletable : DeletePresent(k)
      BY <1>1 DEF DeletePresent, Begin
    <3>3. ~UNCHANGED vars
      BY <2>3 DEF vars
    <3>4. CASE Step
      <4>1. call' # call \/ pc \notin {"deleteFix", "free"}
        BY <1>1 DEF Named
      <4> QED BY <3>4, <4>1, RoundsOf
    <3> QED BY <1>1, <3>1, <3>2, <3>3, <3>4, NextCases
  <2> QED BY <2>5, <2>6, <2>7, <2>8, <2>9
<1>2. (Held /\ Coloured) /\ (Held /\ Coloured)' /\ Named /\ [Next]_vars
        => [call'.op = "Insert" /\ SameBlackHeight => SameBlackHeight']_vars
  BY <1>1
<1> QED BY <1>2, SpecHeld, SpecNamed, PTL DEF Spec, InsertKeepsHeights

-----------------------------------------------------------------------------
(* Deleting *)

(* The red sibling and its black parent trade places: nothing changes.     *)
LEMMA SiblingLevel ==
  ASSUME Held, Coloured, pc = "deleteFix", Short, Level(t, Linked, Weight(t, node))
  PROVE  LET u == BlackSibling.tree
         IN Sound(u, Linked) /\ Level(u, Linked, Weight(u, node))
<1> DEFINE b == BlackSibling
           u == b.tree
<1>1. SiblingOf(b)
  BY SiblingIs
<1> HIDE DEF b
<1>2. /\ Sound(t, Linked) /\ Sound(u, Linked) /\ b.p \in Linked /\ b.p = t.parent[node]
      /\ b.side \in Side /\ u.child[b.side][b.p] = node /\ node \in Linked /\ node # LEAF
      /\ u = t \/ Exchanged(u, t, Linked, b.p, b.side)
  BY <1>1, SiblingIs DEF Held, SiblingOf, Remade, Apt, Short
<1> HIDE DEF u
<1>3. Sound(u, Linked) /\ Level(u, Linked, Weight(u, node))
  <2> SUFFICES ASSUME u # t PROVE Sound(u, Linked) /\ Level(u, Linked, Weight(u, node))
    BY <1>2
  <2>1. Exchanged(u, t, Linked, b.p, b.side)
    BY <1>2
  <2>2. node # b.p
    BY <1>2, SoundFacts
  <2>3. t.color[node] = "black" /\ t.color[t.child[Other(b.side)][b.p]] = "red"
    BY <2>1 DEF Exchanged, Short
  <2>4. node # t.child[Other(b.side)][b.p]
    BY <2>3
  <2> QED BY <1>2, <2>1, <2>2, <2>4, ExchangedLevel
<1> QED BY <1>3 DEF u, b

(* There is a sibling: node and a leaf would not be even.                  *)
LEMMA HasSibling ==
  ASSUME Held, Coloured, pc = "deleteFix", Short, Level(t, Linked, Weight(t, node))
  PROVE  BlackSibling.temp # LEAF
<1> SUFFICES ASSUME BlackSibling.temp = LEAF PROVE FALSE
  OBVIOUS
<1> DEFINE b == BlackSibling
           u == b.tree
           w == Weight(u, node)
<1>1. SiblingOf(b) /\ Sound(u, Linked) /\ Level(u, Linked, w) /\ node \in Linked
  BY SiblingIs, SiblingLevel
<1>2. b.temp = LEAF
  OBVIOUS
<1> HIDE DEF b
<1>3. /\ b.p \in Linked /\ b.side \in Side /\ Other(b.side) \in Side
      /\ u.child[b.side][b.p] = node /\ u.child[Other(b.side)][b.p] = LEAF
  BY <1>1, <1>2, Sides DEF SiblingOf
<1> HIDE DEF u
<1>4. /\ w \in [Ptr -> Int] /\ \A m \in Ptr : w[m] >= 0
      /\ Linked \subseteq Ptr /\ LEAF \in Ptr
  BY <1>1, SoundFacts, WeightType
<1>5. w[node] >= 1
  BY <1>1, <1>4 DEF Weight
<1>6. PICK H : Levelled(u, Linked, w, H)
  BY <1>1 DEF Level
<1> HIDE DEF w
<1>7. H[b.p] = H[node] + w[b.p] /\ H[b.p] = H[LEAF] + w[b.p] /\ H[LEAF] = 0
      /\ H \in [Ptr -> Int]
  BY <1>3, <1>6 DEF Levelled
<1>8. H[node] = 0
  BY <1>1, <1>3, <1>4, <1>7
<1>9. H[node] >= w[node]
  BY <1>1, <1>4, <1>6, HeightsAreNatural
<1> QED BY <1>1, <1>4, <1>5, <1>8, <1>9

(* The sibling made red, its parent is the one that is short.              *)
LEMMA DeleteRecolourLevel ==
  ASSUME Held, Coloured, DeleteRecolour, Level(t, Linked, Weight(t, node))
  PROVE  Level(t', Linked, Weight(t', node'))
<1> DEFINE b == BlackSibling
           u == b.tree
           c == b.temp
           p == b.p
           w == Weight(u, node)
           w2 == Weight(t', p)
<1>1. /\ pc = "deleteFix" /\ Short /\ c # LEAF
      /\ t' = Paint(u, c, "red") /\ node' = u.parent[node]
  BY Zenon DEF DeleteRecolour
<1>2. SiblingOf(b) /\ Sound(u, Linked) /\ Level(u, Linked, w) /\ node \in Linked
  BY <1>1, SiblingIs, SiblingLevel
<1> HIDE DEF b
<1>3. /\ p \in Linked /\ b.side \in Side /\ u.child[b.side][p] = node
      /\ u.child[Other(b.side)][p] = c /\ u.color[c] = "black" /\ u.parent[node] = p
      /\ Other(b.side) \in Side /\ \A r \in Side : r = b.side \/ r = Other(b.side)
  BY <1>2, Sides DEF SiblingOf
<1> HIDE DEF u, c, p
<1>4. /\ Linked \subseteq Ptr /\ LEAF \notin Linked /\ c \in Linked /\ u \in Tree
      /\ node # p /\ c # p /\ c # node
  BY <1>1, <1>2, <1>3, SoundFacts
<1>5. t'.child = u.child /\ node' = p
      /\ \A m \in Ptr : t'.color[m] = IF m = c THEN "red" ELSE u.color[m]
  BY <1>1, <1>3, <1>4 DEF Paint, Tree
<1>6. /\ w \in [Ptr -> Int] /\ w2 \in [Ptr -> Int]
      /\ w2[p] = w[p] + 1 /\ w2[node] = w[node] - 1 /\ w2[c] = w[c] - 1
      /\ \A m \in Linked \ {p, node, c} : w2[m] = w[m]
  BY <1>2, <1>3, <1>4, <1>5 DEF Weight
<1> HIDE DEF w, w2
<1>7. Level(t', Linked, w2)
  <2>1. \A r \in Side : /\ u.child[r][p] \in {node, c} /\ u.child[r][p] # LEAF
                        /\ w2[u.child[r][p]] = w[u.child[r][p]] - 1
    BY <1>2, <1>3, <1>4, <1>6
  <2>2. \A m \in Linked \ {p} : (\A r \in Side : m # u.child[r][p]) => w2[m] = w[m]
    BY <1>3, <1>6
  <2>3. 1 \in Int
    OBVIOUS
  <2> QED BY ONLY <1>2, <1>3, <1>5, <1>6, <2>1, <2>2, <2>3, HoistHeights
<1> QED BY <1>5, <1>7 DEF w2

(* The last turn, of p under which node is short: its sibling q, black,    *)
(* takes the colour and the place of p, and p and the red f are the black  *)
(* nodes under it.                                                         *)
LEMMA LoweredLevel ==
  ASSUME NEW v, NEW S, Sound(v, S), NEW p \in S, NEW s \in Side, NEW x,
         v.child[s][p] = x, x # LEAF, Level(v, S, Weight(v, x)),
         NEW y, Sound(y, S), y.child = v.child,
         v.child[Other(s)][p] # LEAF, v.child[Other(s)][v.child[Other(s)][p]] # LEAF,
         v.color[v.child[Other(s)][p]] = "black",
         v.color[v.child[Other(s)][v.child[Other(s)][p]]] = "red",
         \A m \in Ptr : y.color[m] =
            IF m = p \/ m = v.child[Other(s)][v.child[Other(s)][p]] THEN "black"
            ELSE IF m = v.child[Other(s)][p] THEN v.color[p] ELSE v.color[m]
  PROVE  LET z == Rotate(y, p, s)
         IN Sound(z, S) /\ Level(z, S, Weight(z, z.root))
<1> DEFINE o == Other(s)
           q == v.child[o][p]
           f == v.child[o][q]
           i == v.child[s][q]
           z == Rotate(y, p, s)
<1>1. /\ S \subseteq Ptr /\ LEAF \in Ptr /\ LEAF \notin S /\ o \in Side /\ Other(o) = s
      /\ \A r \in Side : r = s \/ r = o
      /\ v.color[q] = "black" /\ v.color[f] = "red" /\ q # LEAF /\ f # LEAF
  BY SoundFacts, Sides
<1>2. /\ x \in S /\ q \in S /\ q # p /\ x # p /\ x # q /\ v.parent[q] = p /\ v.parent[x] = p
  BY <1>1, SoundFacts
<1> HIDE DEF q
<1>3. /\ f \in S /\ f # q /\ v.parent[f] = q /\ f # i
  BY <1>1, <1>2, SoundFacts
<1>4. f # x /\ f # p
  <2>1. f # x
    BY <1>2, <1>3
  <2>2. v.parent[p] # q
    BY <1>1, <1>2, SoundFacts
  <2> QED BY <1>3, <2>1, <2>2
<1> HIDE DEF f, i
<1>5. v.color[p] = "red" \/ v.color[p] = "black"
  BY <1>1, SoundFacts
<1> DEFINE k == IF v.color[p] = "black" THEN 1 ELSE 0
           w == Weight(v, x)
           w1 == [m \in Ptr |-> IF m = p THEN k + 1 ELSE IF m = q THEN 0
                                ELSE IF m = x THEN w[x] - 1 ELSE w[m]]
           w2 == [m \in Ptr |-> IF m = p THEN 0 ELSE IF m = q THEN k + 1
                                ELSE IF m = x THEN w[x] - 1 ELSE w[m]]
           w3 == Weight(z, Nil)
<1>6. k \in Int /\ w \in [Ptr -> Int] /\ w[p] = k /\ w[q] = 1 /\ w[f] = 0
      /\ w3 \in [Ptr -> Int]
  BY <1>1, <1>2, <1>3, <1>4 DEF Weight
<1>7. /\ w1 \in [Ptr -> Int] /\ w1[p] = k + 1 /\ w1[q] = 0 /\ w1[x] = w[x] - 1
      /\ \A m \in S \ {p, q, x} : w1[m] = w[m]
  <2> HIDE DEF w, k
  <2> QED BY <1>1, <1>2, <1>6
<1>8. /\ w2 \in [Ptr -> Int] /\ w2[p] = 0 /\ w2[q] = k + 1 /\ w2[x] = w[x] - 1
      /\ \A m \in S \ {p, q, x} : w2[m] = w[m]
  <2> HIDE DEF w, k
  <2> QED BY <1>1, <1>2, <1>6
<1>9. /\ Sound(z, S) /\ z.color = y.color
      /\ z.child[s][q] = p /\ z.child[o][q] = f
  <2>1. Sound(y, S) /\ y.child[Other(s)][p] # LEAF /\ y.child[Other(s)][p] = q
        /\ y.child[Other(s)][q] = f
    BY <1>1 DEF q, f
  <2>2. LET temp == y.child[Other(s)][p]
        IN /\ Sound(z, S) /\ z.color = y.color
           /\ z.child[s][temp] = p
           /\ z.child[Other(s)][temp] = y.child[Other(s)][temp]
    BY ONLY <2>1, p \in S, s \in Side, RotateSound
  <2> HIDE DEF z
  <2> QED BY <2>1, <2>2
<1>10. \A m \in Ptr : y.color[m] = IF m = p \/ m = f THEN "black"
                                   ELSE IF m = q THEN v.color[p] ELSE v.color[m]
  BY DEF f, q
<1> HIDE DEF z
<1>11. w3[q] = k /\ w3[p] = 1 /\ w3[f] = 1 /\ w3[x] = w[x] - 1
       /\ \A m \in S \ {p, q, f, x} : w3[m] = w[m]
  <2>1. Nil \notin S
    BY <1>1, PointerAssumption
  <2> QED BY <1>1, <1>2, <1>3, <1>4, <1>5, <1>9, <1>10, <2>1 DEF Weight
<1> HIDE DEF w, w1, w2, w3, k
<1>12. Level(v, S, w1)
  <2>1. \A r \in Side : /\ v.child[r][p] \in {q, x} /\ v.child[r][p] # LEAF
                        /\ w1[v.child[r][p]] = w[v.child[r][p]] - 1
    BY <1>1, <1>2, <1>6, <1>7 DEF q
  <2>2. \A m \in S \ {p} : (\A r \in Side : m # v.child[r][p]) => w1[m] = w[m]
    BY <1>1, <1>7 DEF q
  <2>3. /\ 1 \in Int /\ w1[p] = w[p] + 1 /\ Level(v, S, w) /\ v.child = v.child
        /\ Sound(v, S) /\ p \in S
    BY <1>6, <1>7 DEF w
  <2> QED BY ONLY <1>6, <1>7, <2>1, <2>2, <2>3, HoistHeights
<1>13. Level(y, S, w1)
  BY <1>12, SameHeights
<1>14. Level(z, S, w2)
  <2>1. /\ Sound(y, S) /\ p \in S /\ s \in Side
        /\ y.child[Other(s)][p] # LEAF /\ w1[y.child[Other(s)][p]] = 0
        /\ w2[y.child[Other(s)][p]] = w1[p]
        /\ \A m \in S \ {p, y.child[Other(s)][p]} : w2[m] = w1[m]
    BY <1>1, <1>2, <1>7, <1>8 DEF q
  <2> QED BY ONLY <1>7, <1>8, <1>13, <2>1, RotateHeights DEF z
<1>15. Level(z, S, w3)
  <2> DEFINE j == 0 - 1
  <2>1. \A r \in Side : /\ z.child[r][q] \in {p, f} /\ z.child[r][q] # LEAF
                        /\ w3[z.child[r][q]] = w2[z.child[r][q]] - j
    BY <1>1, <1>2, <1>3, <1>4, <1>6, <1>8, <1>9, <1>11
  <2>2. \A m \in S \ {q} : (\A r \in Side : m # z.child[r][q]) => w3[m] = w2[m]
    BY <1>1, <1>2, <1>3, <1>4, <1>8, <1>9, <1>11
  <2>3. /\ j \in Int /\ w3[q] = w2[q] + j
    BY <1>6, <1>8, <1>11
  <2>4. /\ Sound(z, S) /\ q \in S /\ z.child = z.child
        /\ w2 \in [Ptr -> Int] /\ w3 \in [Ptr -> Int]
    BY <1>2, <1>6, <1>8, <1>9
  <2> HIDE DEF j
  <2> QED BY ONLY <1>14, <2>1, <2>2, <2>3, <2>4, HoistHeights
<1> DEFINE w4 == Weight(z, z.root)
<1>16. w4 \in [Ptr -> Int] /\ \A m \in S \ {z.root} : w4[m] = w3[m]
  BY <1>1, <1>9, SoundFacts, PointerAssumption DEF Weight, w3
<1> HIDE DEF w4
<1>17. Level(z, S, w4)
  <2>1. z.child = z.child
    OBVIOUS
  <2> QED BY ONLY <1>6, <1>9, <1>15, <1>16, <2>1, RootHeights
<1> QED BY <1>9, <1>17 DEF z, w4

LEMMA DeleteRotateLevel ==
  ASSUME Held, Coloured, DeleteRotate, ~TurnUnderRed, Level(t, Linked, Weight(t, node))
  PROVE  Level(t', Linked, Weight(t', node'))
<1>1. PICK v, p, s, temp :
        /\ Lowering(v, p, s, temp) /\ Facing(v, p, s, temp)
        /\ pc = "deleteFix" /\ Short
        /\ t' = Rotate(PaintFar(Paint(Paint(v, temp, v.color[p]), p, "black"), temp,
                                Other(s)), p, s)
        /\ node' = t'.root
  BY DeleteRotateIs
<1> DEFINE o == Other(s)
           q == v.child[o][p]
           f == v.child[o][q]
           k == v.color[p]
           a == Paint(v, temp, k)
           b == Paint(a, p, "black")
           g == b.child[o][temp]
           y == Paint(b, g, "black")
<1>2. /\ Sound(v, Linked) /\ NoPairs(v, Linked) /\ p \in Linked /\ s \in Side
      /\ v.child[s][p] = node /\ q # LEAF /\ v.color[q] = "black" /\ v.color[f] = "red"
      /\ temp \in Linked /\ temp \in {q, f}
      /\ temp = q \/ k = "black"
  BY <1>1 DEF Lowering, Facing, Remade, Apt
<1>3. /\ Linked \subseteq Ptr /\ LEAF \in Ptr /\ LEAF \notin Linked /\ o \in Side
      /\ v.color[LEAF] = "black" /\ k \in {"red", "black"} /\ node # LEAF
  BY <1>1, <1>2, SoundFacts, Sides DEF Short
<1>4. Level(v, Linked, Weight(v, node))
  <2> DEFINE e == BlackSibling
             u == e.tree
             c == u.child[Other(s)][p]
  <2>1. Sound(u, Linked) /\ Level(u, Linked, Weight(u, node))
    BY <1>1, SiblingLevel
  <2>2. /\ SiblingOf(e) /\ p = e.p /\ s = e.side
        /\ v = u \/ Exchanged(v, u, Linked, c, Other(s))
    BY <1>1 DEF Facing
  <2> HIDE DEF e
  <2>3. u.child[s][p] = node /\ u.parent[node] = p
    BY <2>2 DEF SiblingOf
  <2> HIDE DEF u
  <2>4. CASE v = u
    BY <2>1, <2>4
  <2>5. CASE v # u
    <3>1. Exchanged(v, u, Linked, c, Other(s)) /\ c \in Linked
      BY <2>2, <2>5 DEF Exchanged
    <3>2. /\ c # LEAF /\ Other(Other(s)) = s /\ u.child[s][c] # LEAF
      <4>1. Other(Other(s)) = s
        BY <1>2, Sides
      <4>2. u.child[Other(Other(s))][c] # LEAF
        BY <3>1 DEF Exchanged
      <4> HIDE DEF c
      <4> QED BY <1>3, <3>1, <4>1, <4>2
    <3>3. node # c
      BY <1>2, <1>3, <2>1, <2>3, SoundFacts
    <3>4. c # p
      BY <1>2, <1>3, <2>1, SoundFacts
    <3> HIDE DEF c
    <3>5. u.parent[u.child[s][c]] = c
      BY <1>2, <2>1, <3>1, <3>2, SoundFacts
    <3>6. node # u.child[Other(Other(s))][c]
      BY <2>3, <3>2, <3>4, <3>5
    <3> QED BY ONLY <2>1, <3>1, <3>3, <3>6, ExchangedLevel
  <2> QED BY <2>4, <2>5
<1>5. q \in Linked /\ f \in Linked /\ q # p /\ f # q /\ f # LEAF
  <2>1. q \in Linked /\ q # p
    BY <1>2, <1>3, SoundFacts
  <2> HIDE DEF q
  <2>2. f # LEAF
    BY <1>2, <1>3
  <2> QED BY <1>2, <1>3, <2>1, <2>2, SoundFacts
<1>6. f # p
  <2>1. v.parent[q] = p /\ v.parent[f] = q
    <3>1. v.parent[q] = p
      BY <1>2, <1>3, <1>5, SoundFacts
    <3> HIDE DEF q
    <3> QED BY <1>2, <1>3, <1>5, <3>1, SoundFacts
  <2>2. v.parent[p] # q
    BY <1>2, <1>3, <1>5, <2>1, SoundFacts
  <2> QED BY <2>1, <2>2
<1>7. v.child[o][p] = q /\ v.child[o][q] = f
  OBVIOUS
<1> HIDE DEF q, f
<1>8. /\ Sound(a, Linked) /\ a.child = v.child
      /\ \A m \in Ptr : a.color[m] = IF m = temp THEN k ELSE v.color[m]
  <2>1. temp \in Ptr /\ temp # LEAF /\ Sound(v, Linked) /\ k \in {"red", "black"}
    BY <1>2, <1>3
  <2> HIDE DEF k
  <2> QED BY ONLY <2>1, PaintSound
<1> HIDE DEF a
<1>9. /\ Sound(b, Linked) /\ b.child = a.child
      /\ \A m \in Ptr : b.color[m] = IF m = p THEN "black" ELSE a.color[m]
  <2>1. p \in Ptr /\ Sound(a, Linked)
    BY <1>2, <1>3, <1>8
  <2> QED BY ONLY <2>1, PaintSound
<1> HIDE DEF b
<1>10. g = v.child[o][temp] /\ g \in Ptr
  BY <1>2, <1>3, <1>8, <1>9, SoundFacts
<1> HIDE DEF g
<1>11. /\ Sound(y, Linked) /\ y.child = b.child
       /\ \A m \in Ptr : y.color[m] = IF m = g THEN "black" ELSE b.color[m]
  BY ONLY <1>9, <1>10, PaintSound
<1> HIDE DEF y, k
<1>12. \A m \in Ptr : y.color[m] = IF m = p \/ m = f THEN "black"
                                   ELSE IF m = q THEN k ELSE v.color[m]
  <2>1. CASE temp = q
    <3>1. g = f
      BY <1>7, <1>10, <2>1
    <3> QED BY <1>8, <1>9, <1>11, <2>1, <3>1
  <2>2. CASE temp # q
    <3>1. temp = f /\ k = "black"
      BY <1>2, <2>2
    <3>2. ~RedPair(v, f, o)
      BY <1>2, <1>3, <1>5 DEF NoPairs
    <3>3. v.color[g] # "red"
      BY <1>2, <1>10, <3>1, <3>2 DEF RedPair
    <3>4. v.color[g] = "black"
      BY <1>2, <1>10, <3>3, SoundFacts
    <3> QED BY <1>2, <1>8, <1>9, <1>11, <3>1, <3>4
  <2> QED BY <2>1, <2>2
<1>13. LET z == Rotate(y, p, s)
       IN Sound(z, Linked) /\ Level(z, Linked, Weight(z, z.root))
  <2>1. y.child = v.child
    BY <1>8, <1>9, <1>11
  <2>2. /\ v.child[Other(s)][p] # LEAF
        /\ v.child[Other(s)][v.child[Other(s)][p]] # LEAF
        /\ v.color[v.child[Other(s)][p]] = "black"
        /\ v.color[v.child[Other(s)][v.child[Other(s)][p]]] = "red"
    BY <1>2, <1>5, <1>7
  <2>3. \A m \in Ptr : y.color[m] =
            IF m = p \/ m = v.child[Other(s)][v.child[Other(s)][p]] THEN "black"
            ELSE IF m = v.child[Other(s)][p] THEN v.color[p] ELSE v.color[m]
    BY <1>7, <1>12 DEF k
  <2> HIDE DEF o
  <2> QED BY ONLY <1>2, <1>3, <1>4, <1>11, <2>1, <2>2, <2>3, LoweredLevel
<1>14. t' = Rotate(y, p, s)
  BY Zenon, <1>1 DEF y, g, b, a, k, o, PaintFar
<1> QED BY <1>1, <1>13, <1>14

(* What ends the loop: a red node made black counts without being counted  *)
(* twice, and at the root it is all paths that are one longer.             *)
LEMMA DeleteFixedLevel ==
  ASSUME Held, Coloured, DeleteFixed, node # LEAF, Level(t, Linked, Weight(t, node))
  PROVE  Level(t', Linked, Weight(t', Nil))
<1> DEFINE w == Weight(t, node)
           w2 == Weight(t', Nil)
<1>1. /\ Sound(t, Linked) /\ node \in Linked /\ t \in Tree
      /\ pc = "deleteFix" /\ ~Short /\ t' = Paint(t, node, "black")
  BY DEF Held, Coloured, Sound, DeleteFixed
<1>2. /\ Linked \subseteq Ptr /\ Nil \notin Linked
      /\ \A m \in Ptr : t.color[m] = "red" \/ t.color[m] = "black"
  BY <1>1, SoundFacts, PointerAssumption
<1>3. /\ t'.child = t.child
      /\ \A m \in Ptr : t'.color[m] = IF m = node THEN "black" ELSE t.color[m]
  BY <1>1, <1>2 DEF Paint, Tree
<1>4. /\ w \in [Ptr -> Int] /\ w2 \in [Ptr -> Int]
      /\ \A m \in Linked \ {node} : w2[m] = w[m]
      /\ t.color[node] = "red" => w2[node] = w[node]
  BY <1>1, <1>2, <1>3 DEF Weight
<1>5. node = t.root \/ t.color[node] = "red"
  BY <1>1, <1>2 DEF Short
<1> HIDE DEF w, w2
<1>6. Level(t', Linked, w2)
  <2>1. CASE node = t.root
    BY <1>1, <1>3, <1>4, <2>1, RootHeights DEF w
  <2>2. CASE t.color[node] = "red"
    <3>1. \A m \in Linked : w2[m] = w[m]
      BY <1>4, <2>2
    <3> QED BY <1>1, <1>3, <3>1, SameHeights DEF w
  <2> QED BY <1>5, <2>1, <2>2
<1> QED BY <1>6 DEF w2

(* Once the loop of fixDeleteCollisions is entered at a node, and but for  *)
(* the turn under a red parent, every round moves the black node that a    *)
(* path is short of up the tree, and the last one makes up for it          *)
(* (rbtree.go:386-447).                                                    *)
THEOREM RoundsRestoreHeights == Spec => RoundsMend
<1>1. ASSUME Held, Coloured, Held', Coloured', [Next]_vars, vars' # vars,
             pc = "deleteFix", node # LEAF, EvenWith(t, node), ~TurnUnderRed
      PROVE  EvenWith(t', IF pc' = "deleteFix" THEN node' ELSE Nil)
  <2>1. Sound(t, Linked) /\ Sound(t', Linked')
    BY <1>1 DEF Held
  <2>2. Level(t, Linked, Weight(t, node))
    BY <1>1, <2>1, EvenIs
  <2>3. Step
    BY <1>1, NextCases DEF Ask, Begin, InsertNew, DeletePresent
  <2>4. Linked' = Linked
    BY <1>1, <2>3, RoundHeld DEF Same
  <2>5. CASE DeleteNoSibling
    <3>1. Short /\ BlackSibling.temp = LEAF
      BY Zenon, <2>5 DEF DeleteNoSibling
    <3> QED BY <1>1, <2>2, <3>1, HasSibling
  <2>6. CASE DeleteRecolour
    <3>1. pc' = "deleteFix"
      BY Zenon, <1>1, <2>6 DEF DeleteRecolour
    <3>2. Level(t', Linked', Weight(t', node'))
      BY <1>1, <2>2, <2>4, <2>6, DeleteRecolourLevel
    <3> QED BY <2>1, <3>1, <3>2, EvenIs
  <2>7. CASE DeleteRotate
    <3>1. pc' = "deleteFix"
      BY Zenon, <1>1, <2>7 DEF DeleteRotate
    <3>2. Level(t', Linked', Weight(t', node'))
      BY <1>1, <2>2, <2>4, <2>7, DeleteRotateLevel
    <3> QED BY <2>1, <3>1, <3>2, EvenIs
  <2>8. CASE DeleteFixed
    <3>1. pc' = "free"
      BY <2>8 DEF DeleteFixed
    <3>2. Level(t', Linked', Weight(t', Nil))
      BY <1>1, <2>2, <2>4, <2>8, DeleteFixedLevel
    <3> QED BY <2>1, <3>1, <3>2, EvenIs
  <2>9. ~InsertRecolour /\ ~InsertRotate /\ ~InsertEnd /\ ~DeleteEnd
    BY <1>1 DEF InsertRecolour, InsertRotate, InsertEnd, DeleteEnd
  <2> QED BY <2>3, <2>5, <2>6, <2>7, <2>8, <2>9 DEF Step
<1>2. (Held /\ Coloured) /\ (Held /\ Coloured)' /\ [Next]_vars
        => [pc = "deleteFix" /\ node # LEAF /\ EvenWith(t, node) /\ ~TurnUnderRed
              => EvenWith(t', IF pc' = "deleteFix" THEN node' ELSE Nil)]_vars
  BY <1>1
<1> QED BY <1>2, SpecHeld, PTL DEF Spec, RoundsMend

-----------------------------------------------------------------------------
(* Taking out *)

(* x is what e, the tree with a node taken out, is short of.               *)
Missing(e, x) == \/ e.color = "red" /\ x = Nil
                 \/ e.color = "black" /\ x = e.temp /\ x # LEAF

(* d has one child at most: it takes d's place, and its colour if black.   *)
LEMMA SpliceLevel ==
  ASSUME NEW S, Sound(t, S), Blank(t, S), Level(t, S, Weight(t, Nil)), NEW d \in S,
         NEW e, Spliced(e, d), NEW x,
         Missing(e, x)
  PROVE  Level(e.tree, S \ {d}, Weight(e.tree, x))
<1>1. PICK s \in Side : /\ t.child[s][d] = LEAF /\ e.temp = t.child[Other(s)][d]
                        /\ e.tree = switchNodes(t, d, t.child[Other(s)][d])
                        /\ e.color = t.color[d]
  BY DEF Spliced
<1>2. PICK B : Good(t, S, B)
  BY DEF Sound
<1> DEFINE only == t.child[Other(s)][d]
           v == switchNodes(t, d, only)
           w == Weight(t, Nil)
           w2 == Weight(v, x)
<1>3. /\ v.color = t.color
      /\ \A r \in Side, m \in S \ {d} :
           v.child[r][m] = IF t.child[r][m] = d THEN only ELSE t.child[r][m]
  <2>1. t \in Tree
    BY SoundFacts
  <2>2. t.child[s][d] = LEAF /\ Blank(t, S) /\ s \in Side /\ d \in S
    BY <1>1
  <2>3. LET o == t.child[Other(s)][d]
            y == switchNodes(t, d, o)
        IN /\ y \in Tree /\ y.key = t.key /\ y.color = t.color
           /\ o \in (S \ {d}) \cup {LEAF}
           /\ \E C : Good(y, S \ {d}, C)
           /\ Outside(y, S \ {d})
           /\ y.root = IF d = t.root THEN o ELSE t.root
           /\ o # LEAF => y.parent[o] = t.parent[d]
           /\ \A r \in Side, m \in S \ {d} :
                y.child[r][m] = IF t.child[r][m] = d THEN o ELSE t.child[r][m]
           /\ \A m \in Node \ S, r \in Side : y.child[r][m] = Nil
    BY ONLY <1>2, <2>1, <2>2, SpliceGood
  <2> QED BY <2>3
<1>4. /\ S \subseteq Ptr /\ LEAF \in Ptr /\ LEAF \notin S /\ Other(s) \in Side
      /\ only \in S \cup {LEAF} /\ only # d /\ only \in Ptr /\ d \in Ptr
      /\ only # LEAF => t.parent[only] = d
      /\ t.color[d] = "red" \/ t.color[d] = "black"
      /\ Nil \notin Ptr
  BY <1>1, SoundFacts, Sides, PointerAssumption
<1>5. \/ t.color[d] = "red" /\ x = Nil
      \/ t.color[d] = "black" /\ x = only /\ x # LEAF
  BY <1>1 DEF Missing
<1>6. PICK H : Levelled(t, S, w, H)
  BY DEF Level
<1> HIDE DEF v, only
<1>7. /\ w \in [Ptr -> Int] /\ w2 \in [Ptr -> Int]
      /\ w[d] = IF t.color[d] = "black" THEN 1 ELSE 0
      /\ w2[only] = w[only] + w[d]
      /\ \A m \in S \ {d, only} : w2[m] = w[m]
  BY <1>3, <1>4, <1>5 DEF Weight
<1> HIDE DEF w, w2
<1>8. /\ H \in [Ptr -> Int] /\ H[LEAF] = 0 /\ H[d] = H[LEAF] + w[d] /\ H[d] = H[only] + w[d]
      /\ \A m \in S, r \in Side : H[m] = H[t.child[r][m]] + w[m]
  BY <1>1, <1>4, <1>6 DEF Levelled, only
<1> DEFINE G == [H EXCEPT ![only] = H[d]]
<1>9. only = LEAF => H[d] = 0
  BY <1>4, <1>5, <1>7, <1>8
<1>10. /\ G \in [Ptr -> Int] /\ G[LEAF] = 0 /\ G[only] = H[d]
       /\ \A m \in Ptr \ {only} : G[m] = H[m]
  BY <1>4, <1>8, <1>9
<1> HIDE DEF G
<1>11. ASSUME NEW m \in S \ {d}, NEW r \in Side
       PROVE  G[m] = G[v.child[r][m]] + w2[m]
  <2> DEFINE c == t.child[r][m]
  <2>1. c \in S \cup {LEAF} /\ c \in Ptr /\ (c # LEAF => t.parent[c] = m)
    BY <1>4, SoundFacts
  <2>2. H[m] = H[c] + w[m] /\ H[c] \in Int /\ w[m] \in Int
    BY <1>4, <1>7, <1>8, <2>1
  <2>3. v.child[r][m] = IF c = d THEN only ELSE c
    BY <1>3
  <2> HIDE DEF c
  <2>4. G[v.child[r][m]] = H[c]
    <3>1. CASE c = d
      BY <1>10, <2>3, <3>1
    <3>2. CASE c # d
      <4>1. c = only => c = LEAF
        BY <1>4, <2>1
      <4> QED BY <1>8, <1>10, <2>1, <2>3, <3>2, <4>1
    <3> QED BY <3>1, <3>2
  <2>5. CASE m = only
    <3>1. H[d] = H[m] + w[d] /\ w2[m] = w[m] + w[d] /\ G[m] = H[d] /\ w[d] \in Int
      BY <1>4, <1>7, <1>8, <1>10, <2>5
    <3> QED BY <2>2, <2>4, <3>1
  <2>6. CASE m # only
    <3>1. G[m] = H[m] /\ w2[m] = w[m]
      BY <1>4, <1>7, <1>10, <2>6
    <3> QED BY <2>2, <2>4, <3>1
  <2> QED BY <2>5, <2>6
<1>12. Level(v, S \ {d}, w2)
  BY <1>10, <1>11 DEF Level, Levelled
<1> QED BY <1>1, <1>12 DEF v, only, w2

(* d has two: its successor min takes its place and its colour, and the    *)
(* only child of min takes min's place, and its colour if black.           *)
LEMMA ReplaceLevel ==
  ASSUME NEW S, Sound(t, S), Level(t, S, Weight(t, Nil)), NEW d \in S,
         NEW e, Replaced(e, S, d), NEW x,
         Missing(e, x)
  PROVE  Level(e.tree, S \ {d}, Weight(e.tree, x))
<1>1. PICK min \in S : /\ Succeeded(e.tree, S, d, min) /\ t.child["left"][min] = LEAF
                       /\ t.child["left"][d] # LEAF /\ t.child["right"][d] # LEAF
                       /\ e.temp = t.child["right"][min] /\ e.color = t.color[min]
  BY DEF Replaced
<1> DEFINE v == e.tree
           L == t.child["left"][d]
           R == t.child["right"][d]
           r == t.child["right"][min]
           w == Weight(t, Nil)
           w2 == Weight(v, x)
<1>2. /\ "left" \in Side /\ "right" \in Side /\ Other("left") = "right"
      /\ Other("right") = "left" /\ \A s \in Side : s = "left" \/ s = "right"
  BY DEF Side, Other
<1>3. /\ min # d /\ r \in (S \ {d}) \cup {LEAF}
      /\ \A m \in Ptr : v.color[m] = IF m = min THEN t.color[d] ELSE t.color[m]
      /\ v.child["left"][min] = L
      /\ v.child["right"][min] = IF min = R THEN r ELSE R
      /\ \A s \in Side, m \in S \ {d, min} :
           v.child[s][m] = IF t.child[s][m] = min THEN r
                           ELSE IF t.child[s][m] = d THEN min
                           ELSE t.child[s][m]
  BY <1>1 DEF Succeeded
<1>4. /\ S \subseteq Ptr /\ LEAF \in Ptr /\ LEAF \notin S /\ Nil \notin Ptr
      /\ L \in S /\ R \in S /\ t.parent[L] = d /\ t.parent[R] = d /\ L # R
      /\ r \in Ptr /\ r # min /\ (r # LEAF => t.parent[r] = min)
      /\ t.color[min] = "red" \/ t.color[min] = "black"
  BY <1>1, <1>2, <1>3, SoundFacts, PointerAssumption
<1>5. L # min
  <2>1. PICK C : Good(v, S \ {d}, C)
    BY <1>1 DEF Succeeded
  <2>2. min \in S \ {d}
    BY <1>3
  <2> HIDE DEF L, v
  <2>3. v.child["left"][min] # min
    BY <1>2, <2>1, <2>2, Neighbours
  <2> QED BY <1>3, <2>3
<1>6. PICK H : Levelled(t, S, w, H)
  BY DEF Level
<1>7. \/ t.color[min] = "red" /\ x = Nil
      \/ t.color[min] = "black" /\ x = r /\ x # LEAF
  BY <1>1 DEF Missing
<1>8. d \in Ptr /\ min \in Ptr
  BY <1>4
<1> HIDE DEF v, L, R, r
<1>9. /\ w \in [Ptr -> Int] /\ w2 \in [Ptr -> Int]
      /\ w[min] = IF t.color[min] = "black" THEN 1 ELSE 0
      /\ w2[min] = w[d]
      /\ r \in S => w2[r] = w[r] + w[min]
      /\ \A m \in S \ {d, min, r} : w2[m] = w[m]
  BY <1>3, <1>4, <1>7, <1>8 DEF Weight
<1> HIDE DEF w, w2
<1>10. /\ H \in [Ptr -> Int] /\ H[LEAF] = 0
       /\ \A m \in S, s \in Side : H[m] = H[t.child[s][m]] + w[m]
  BY <1>6 DEF Levelled
<1>11. /\ H[d] = H[L] + w[d] /\ H[d] = H[R] + w[d]
       /\ H[min] = H[r] + w[min] /\ H[min] = H[LEAF] + w[min]
  BY <1>1, <1>2, <1>10 DEF L, R, r
<1> DEFINE G == [m \in Ptr |-> IF m = min THEN H[d] ELSE IF m = r THEN H[min] ELSE H[m]]
<1>12. r = LEAF => H[min] = 0
  BY <1>7, <1>8, <1>9, <1>10, <1>11
<1>13. /\ G \in [Ptr -> Int] /\ G[LEAF] = 0 /\ G[min] = H[d] /\ G[r] = H[min]
       /\ \A m \in Ptr \ {min, r} : G[m] = H[m]
  BY <1>1, <1>4, <1>8, <1>10, <1>12
<1> HIDE DEF G
<1>14. ASSUME NEW m \in S \ {d}, NEW s \in Side
       PROVE  G[m] = G[v.child[s][m]] + w2[m]
  <2>1. CASE m = min
    <3>1. L # r /\ L \in Ptr /\ R \in Ptr /\ R # r
      BY <1>3, <1>4
    <3>2. G[v.child["left"][m]] = H[L]
      BY <1>3, <1>5, <1>13, <2>1, <3>1
    <3>3. G[v.child["right"][m]] = H[R]
      BY <1>3, <1>13, <2>1, <3>1
    <3>4. G[v.child[s][m]] = H[L] \/ G[v.child[s][m]] = H[R]
      BY <1>2, <3>2, <3>3
    <3> QED BY <1>9, <1>11, <1>13, <2>1, <3>4
  <2>2. CASE m # min
    <3> DEFINE c == t.child[s][m]
    <3>1. c \in S \cup {LEAF} /\ c \in Ptr /\ (c # LEAF => t.parent[c] = m) /\ m \in Ptr
      BY <1>4, SoundFacts
    <3>2. H[m] = H[c] + w[m] /\ H[c] \in Int /\ w[m] \in Int
      BY <1>9, <1>10, <3>1
    <3>3. v.child[s][m] = IF c = min THEN r ELSE IF c = d THEN min ELSE c
      BY <1>3, <2>2
    <3> HIDE DEF c
    <3>4. G[v.child[s][m]] = H[c]
      <4>1. c = r => c = LEAF
        BY <1>4, <2>2, <3>1
      <4> QED BY <1>10, <1>12, <1>13, <3>1, <3>3, <4>1
    <3>5. CASE m = r
      <4>1. w2[m] = w[m] + w[min] /\ G[m] = H[m] + w[min] /\ w[min] \in Int
        BY <1>8, <1>9, <1>11, <1>13, <3>5
      <4> QED BY <3>2, <3>4, <4>1
    <3>6. CASE m # r
      <4>1. w2[m] = w[m] /\ G[m] = H[m]
        BY <1>9, <1>13, <2>2, <3>1, <3>6
      <4> QED BY <3>2, <3>4, <4>1
    <3> QED BY <3>5, <3>6
  <2> QED BY <2>1, <2>2
<1>15. Level(v, S \ {d}, w2)
  BY <1>13, <1>14 DEF Level, Levelled
<1> QED BY <1>15 DEF v, w2

(* Once a node has been taken out of an even tree the paths through the    *)
(* node in its place are short of what deleteCheckSwitch returns           *)
(* (rbtree.go:274-317).                                                    *)
THEOREM DeleteKnowsWhatIsShort == Spec => ShortAtNode
<1>1. ASSUME Held, Coloured, Held', [Next]_vars, vars' # vars, Idle, SameBlackHeight
      PROVE  /\ pc' = "free" => SameBlackHeight'
             /\ pc' = "deleteFix" /\ node' # LEAF => EvenWith(t', node')
  <2>1. SUFFICES ASSUME pc' \in {"free", "deleteFix"}
                 PROVE  /\ pc' = "free" => SameBlackHeight'
                        /\ pc' = "deleteFix" /\ node' # LEAF => EvenWith(t', node')
    OBVIOUS
  <2>2. PICK k \in Deletable : DeletePresent(k)
    BY <1>1, <2>1, NextCases, RoundsOf DEF Idle, Ask, InsertNew, Step, vars,
       InsertRecolour, InsertRotate, InsertEnd
  <2> DEFINE d == FindNode(k)
             e == Removed(d)
  <2>3. /\ t' = e.tree /\ node' = e.temp /\ doomed' = d /\ free' = free
        /\ pc' = IF e.color = "black" THEN "deleteFix" ELSE "free"
    BY <2>2 DEF DeletePresent
  <2>4. d \in Linked
    BY <1>1, <2>2, DeletePresentHeld
  <2>5. Linked' = Linked \ {d}
    BY <1>1, <2>3, PointerAssumption DEF Held, Idle, Linked, Ptr
  <2>6. Sound(t, Linked) /\ Blank(t, Linked) /\ Sound(t', Linked')
    BY <1>1, PointerAssumption DEF Held, Blank, Linked, Idle
  <2>7. Level(t, Linked, Weight(t, Nil))
    BY <1>1, <2>6, EvenIs DEF SameBlackHeight
  <2> HIDE DEF d
  <2>8. Spliced(e, d) \/ Replaced(e, Linked, d)
    BY <2>4, <2>6, RemovedCases
  <2>9. e.color = "red" \/ e.color = "black"
    <3>1. ASSUME NEW m \in Linked PROVE t.color[m] = "red" \/ t.color[m] = "black"
      BY <2>6, SoundFacts
    <3> HIDE DEF e
    <3> QED BY <2>4, <2>8, <3>1 DEF Spliced, Replaced
  <2> HIDE DEF e
  <2>10. ASSUME NEW x, Missing(e, x) PROVE EvenWith(t', x)
    <3>1. Level(e.tree, Linked \ {d}, Weight(e.tree, x))
      BY <2>4, <2>6, <2>7, <2>8, <2>10, SpliceLevel, ReplaceLevel
    <3> QED BY <2>3, <2>5, <2>6, <3>1, EvenIs
  <2> QED BY <2>3, <2>9, <2>10 DEF SameBlackHeight, Missing
<1>2. (Held /\ Coloured) /\ (Held /\ Coloured)' /\ [Next]_vars
        => [Idle /\ SameBlackHeight
              => /\ pc' = "free" => SameBlackHeight'
                 /\ pc' = "deleteFix" /\ node' # LEAF => EvenWith(t', node')]_vars
  BY <1>1
<1> QED BY <1>2, SpecHeld, PTL DEF Spec, ShortAtNode
=============================================================================
