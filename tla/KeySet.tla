------------------------------- MODULE KeySet -------------------------------
(***************************************************************************)
(* What an RBtree promises its caller: a set of keys.  Insert and Delete   *)
(* report whether the key was there, as FindKey and FindNode do.           *)
(***************************************************************************)
CONSTANTS Key, Deletable
VARIABLES keys, call   \* call: the last call, its key and its answer

Calls == [op : {"Insert", "Delete", "Find"}, key : Key, found : BOOLEAN]
NoCall == [op |-> "none"]

Init == keys = {} /\ call = NoCall

Answer(op, k) == call' = [op |-> op, key |-> k, found |-> k \in keys]

Insert(k) == Answer("Insert", k) /\ keys' = keys \cup {k}
Delete(k) == Answer("Delete", k) /\ keys' = keys \ {k}
Find(k)   == Answer("Find", k) /\ UNCHANGED keys

Next == \/ \E k \in Key : Insert(k) \/ Find(k)
        \/ \E k \in Deletable : Delete(k)

Spec == Init /\ [][Next]_<<keys, call>>
=============================================================================
