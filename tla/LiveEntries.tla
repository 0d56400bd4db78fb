---------------------------- MODULE LiveEntries ----------------------------
(***************************************************************************)
(* What a Map promises (and a Set, whose values are its keys): entries in  *)
(* the order they were added, and walks, any number of them, that go on    *)
(* while the entries change.  There are no positions here: a walk is the   *)
(* entries it has still to visit.                                          *)
(***************************************************************************)
EXTENDS Naturals, SequencesExt

CONSTANTS Key, Value, Walk

VARIABLES
    order,      \* the keys present, in the order they were added
    map,        \* their values
    ahead,      \* per walk, the keys it has yet to visit
    ended,      \* the walks that have reported their end
    answer      \* what the last operation returned

Without(keys, key) == RemoveFirst(keys, key)
Has(key) == key \in DOMAIN map

Init ==
    /\ order = <<>> /\ map = <<>>
    /\ ahead = [w \in Walk |-> <<>>] /\ ended = Walk
    /\ answer = <<"none">>

\* A new key goes last, and every walk under way will come to it.
Put(key, value) ==
    /\ answer' = <<"none">>
    /\ map' = [k \in DOMAIN map \union {key} |-> IF k = key THEN value ELSE map[k]]
    /\ IF Has(key)
       THEN UNCHANGED <<order, ahead>>
       ELSE /\ order' = Append(order, key)
            /\ ahead' = [w \in Walk |-> IF w \in ended THEN ahead[w] ELSE Append(ahead[w], key)]
    /\ UNCHANGED ended

Get(key) ==
    /\ answer' = IF Has(key) THEN <<"value", map[key]>> ELSE <<"absent">>
    /\ UNCHANGED <<order, map, ahead, ended>>

\* No walk visits what was deleted before it came there.
Delete(key) ==
    /\ answer' = <<"deleted", Has(key)>>
    /\ map' = [k \in DOMAIN map \ {key} |-> map[k]]
    /\ order' = Without(order, key)
    /\ ahead' = [w \in Walk |-> Without(ahead[w], key)]
    /\ UNCHANGED ended

\* A walk goes on after a clear, to what is added later.
Clear ==
    /\ answer' = <<"none">>
    /\ map' = <<>> /\ order' = <<>>
    /\ ahead' = [w \in Walk |-> <<>>]
    /\ UNCHANGED ended

Size ==
    /\ answer' = <<"size", Len(order)>>
    /\ UNCHANGED <<order, map, ahead, ended>>

Start(w) ==
    /\ answer' = <<"none">>
    /\ ahead' = [ahead EXCEPT ![w] = order]
    /\ ended' = ended \ {w}
    /\ UNCHANGED <<order, map>>

\* A walk that has ended stays so, whatever is added.
Advance(w) ==
    /\ IF ahead[w] = <<>>
       THEN /\ answer' = <<"end">>
            /\ ended' = ended \union {w}
            /\ UNCHANGED ahead
       ELSE /\ answer' = <<"visit", Head(ahead[w]), map[Head(ahead[w])]>>
            /\ ahead' = [ahead EXCEPT ![w] = Tail(@)]
            /\ UNCHANGED ended
    /\ UNCHANGED <<order, map>>

Next ==
    \/ \E key \in Key : Get(key) \/ Delete(key) \/ \E value \in Value : Put(key, value)
    \/ Clear \/ Size
    \/ \E w \in Walk : Start(w) \/ Advance(w)

Spec == Init /\ [][Next]_<<order, map, ahead, ended, answer>>
=============================================================================
