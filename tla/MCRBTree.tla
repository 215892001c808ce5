------------------------------ MODULE MCRBTree ------------------------------
(***************************************************************************)
(* Small instances of RBTree: integer keys, compared as the tests do.      *)
(* Which node the pool gives makes no difference, so the node of a key is  *)
(* the one of its number.  Any calls are made with the keys up to AllCalls; *)
(* and from the trees that Scripts make two keys are deleted: no smaller   *)
(* tree has a round of each kind that is to mend black heights, and one    *)
(* that turns temp over under a red parent (line 408) needs 14 nodes.      *)
(***************************************************************************)
EXTENDS RBTree, SequencesExt

CONSTANT AllCalls

MCCompare(a, b) == IF a = b THEN 0 ELSE IF a < b THEN -1 ELSE 1

Keys14 == 1..14
Scripts == {<<14, 11, 13, 10, 12, 9, 2, 1, 8, 7, 3, 4, 6, 5>>,
            <<3, 1, 2, 4, 5, 9, 6, 7, 10, 8>>,
            <<10, 1, 9, 8, 7, 2, 4, 6, 3, 5>>}

AnyCall ==
  /\ InTree \subseteq 1..AllCalls
  /\ \E k \in 1..AllCalls : \/ Find(k) \/ InsertPresent(k) \/ InsertNew(k, k)
                           \/ DeleteAbsent(k) \/ DeletePresent(k)

ScriptInsert(s) ==
  \E i \in DOMAIN s : /\ InTree = {s[j] : j \in 1..(i - 1)}
                      /\ InsertNew(s[i], s[i])

ScriptDelete(s) ==
  LET gone == Cardinality(ToSet(s) \ InTree)
  IN /\ InTree \subseteq ToSet(s)
     /\ gone = 0 \/ (gone = 1 /\ call.op = "Delete")
     /\ \E k \in Deletable : DeletePresent(k)

MCNext == \/ AnyCall
          \/ \E s \in Scripts : ScriptInsert(s) \/ ScriptDelete(s)
          \/ Step
MCSpec == Init /\ [][MCNext]_vars
=============================================================================
