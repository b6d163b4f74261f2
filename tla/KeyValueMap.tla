----------------------------- MODULE KeyValueMap -----------------------------
(***************************************************************************)
(* What FlatHashMap promises: a finite map that changes one key at a time. *)
(***************************************************************************)
CONSTANTS Keys, Values

VARIABLE map    \* a function from the keys present to their values

Init == map = <<>>

\* insert: the key gets the value, whether it was there or not.
Put(k, v) == map' = [x \in DOMAIN map \cup {k} |-> IF x = k THEN v ELSE map[x]]

\* erase: the key, if it was there, is gone.
Delete(k) == map' = [x \in DOMAIN map \ {k} |-> map[x]]

Next == \E k \in Keys : Delete(k) \/ \E v \in Values : Put(k, v)

Spec == Init /\ [][Next]_map
==============================================================================
