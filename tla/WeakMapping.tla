---------------------------- MODULE WeakMapping ----------------------------
(***************************************************************************)
(* What a WeakMap or WeakSet promises: a map that loses, at a collection,  *)
(* the entries of keys that die in it, and nothing else ever.              *)
(***************************************************************************)
CONSTANTS Key, Value

VARIABLES
    map,        \* the values of the keys present
    answer      \* what the last operation returned

Init == map = <<>> /\ answer = <<"none">>

Put(key, value) ==
    /\ answer' = <<"none">>
    /\ map' = [k \in DOMAIN map \union {key} |-> IF k = key THEN value ELSE map[k]]

Get(key) ==
    /\ answer' = IF key \in DOMAIN map THEN <<"value", map[key]>> ELSE <<"absent">>
    /\ UNCHANGED map

Delete(key) ==
    /\ answer' = <<"deleted", key \in DOMAIN map>>
    /\ map' = [k \in DOMAIN map \ {key} |-> map[k]]

Collect(dead) ==
    /\ answer' = <<"died", dead>>
    /\ map' = [k \in DOMAIN map \ dead |-> map[k]]

Next ==
    \/ \E key \in Key : Get(key) \/ Delete(key) \/ \E value \in Value : Put(key, value)
    \/ \E dead \in SUBSET DOMAIN map : Collect(dead)

Spec == Init /\ [][Next]_<<map, answer>>
=============================================================================
