---------------------------- MODULE MCCollector ----------------------------
(***************************************************************************)
(* Collector on small instances: the handles are alike.                    *)
(***************************************************************************)
EXTENDS Collector, Naturals, FiniteSets, TLC

Symmetry == Permutations(Cell)

\* Cells that refer by a link or by their slots, not both at once, and
\* strings; or cells with entries and what these refer to.
LinksOrEntries ==
    LET Only(tags) == \A c \in Cell : tag[c] \in tags \union {"free"}
    IN  \/ Only({"linked", "string"}) /\ \A c \in Cell : link[c] = Null \/ slots[c] = NoSlots
        \/ Only({"plain", "table", "weak"}) /\ \A c \in Cell : slots[c] = NoSlots

\* Chains of ephemerons: the entries of one record, in full collections.
OneRecordFullOnly ==
    Cardinality({c \in Cell : tag[c] = "weak"}) <= 1 /\ ~minorCollection
=============================================================================
