----------------------------- MODULE AtomTable -----------------------------
(***************************************************************************)
(* The atom table (engine/runtime.zs): the cells of the interned strings,  *)
(* in an array searched from the hash of a string's text.  It has no marks *)
(* for removed entries: a minor collection closes the gap an atom leaves,  *)
(* and a full one builds the table anew.                                   *)
(*                                                                         *)
(* Any string may die in a collection; Collector says which.  What an atom *)
(* is looked up by after its death is the hash its header keeps.           *)
(***************************************************************************)
EXTENDS Probing

CONSTANTS
    StringCell,     \* handles the strings are allocated at
    NoAtom, NoText  \* an empty slot; the text of a free handle

ASSUME AtomAssumption == NoAtom \notin StringCell /\ NoText \notin Key /\ FirstCapacity > 1

VARIABLES
    text,           \* the text (a Key) of each string cell
    interned,       \* the cells with FLAG_INTERNED
    atoms,          \* the table
    atomCount,      \* the atoms in it
    youngStrings,   \* the cells allocated since the last collection
    atomAnswer      \* the atom last asked for

atomVars == <<text, interned, atoms, atomCount, youngStrings, atomAnswer>>

AtomInit ==
    /\ text = [cell \in StringCell |-> NoText]
    /\ interned = {} /\ youngStrings = {}
    /\ atoms = <<>> /\ atomCount = 0
    /\ atomAnswer = <<"none">>
-----------------------------------------------------------------------------
HashOf(cell) == Hash[text[cell]]

\* insertAtom, and the loops of growAtoms and of the interning functions
\* when the text is new.
Inserted(table, cell, hash) ==
    [table EXCEPT ![Found(table, hash, {NoAtom})] = cell]

\* The atoms of a table by their slots, into an empty one.
Reinserted(table, kept, into) ==
    LET after[n \in 0 .. Capacity(table)] ==
            IF n = 0 THEN into
            ELSE IF table[n - 1] \in kept
            THEN Inserted(after[n - 1], table[n - 1], HashOf(table[n - 1])) ELSE after[n - 1]
    IN  after[Capacity(table)]

\* growAtoms, when the table has room for less than twice its atoms.
Roomy ==
    IF (atomCount + 1) * 2 > Capacity(atoms)
    THEN Reinserted(atoms, StringCell,
                    Filled(IF atoms = <<>> THEN FirstCapacity ELSE 2 * Capacity(atoms), NoAtom))
    ELSE atoms

\* The search of the interning functions, in a table that has room.
Spelled(key) == {cell \in StringCell : text[cell] = key}
Match(table, key) == table[Found(table, Hash[key], {NoAtom} \union Spelled(key))]

\* A free handle becomes a string cell.
Allocated(cell, key) ==
    /\ text[cell] = NoText
    /\ text' = [text EXCEPT ![cell] = key]
    /\ youngStrings' = youngStrings \union {cell}

\* What the interning functions do with a cell whose text has no atom.
BecomesAtom(cell, key) ==
    /\ atoms' = Inserted(Roomy, cell, Hash[key])
    /\ atomCount' = atomCount + 1
    /\ interned' = interned \union {cell}
    /\ atomAnswer' = <<"atom", cell>>

AtomFound(atom) ==
    /\ atomAnswer' = <<"atom", atom>>
    /\ atoms' = Roomy
    /\ UNCHANGED <<text, interned, atomCount, youngStrings>>

\* internLatin1, internLatin1Borrowed, internUnits.
InternText(key) ==
    LET atom == Match(Roomy, key)
    IN  IF atom # NoAtom THEN AtomFound(atom)
        ELSE \E cell \in StringCell : Allocated(cell, key) /\ BecomesAtom(cell, key)

\* internExisting.
InternExisting(cell) ==
    /\ text[cell] # NoText
    /\ IF cell \in interned
       THEN /\ atomAnswer' = <<"atom", cell>>
            /\ UNCHANGED <<text, interned, atoms, atomCount, youngStrings>>
       ELSE LET atom == Match(Roomy, text[cell])
            IN  IF atom # NoAtom THEN AtomFound(atom)
                ELSE BecomesAtom(cell, text[cell]) /\ UNCHANGED <<text, youngStrings>>

\* A string the program makes.
NewString(key) ==
    /\ \E cell \in StringCell : Allocated(cell, key)
    /\ UNCHANGED <<interned, atoms, atomCount, atomAnswer>>
-----------------------------------------------------------------------------
\* Variant: the atom's slot is emptied and the others stay.
RemovedAlone(table, cell) ==
    [table EXCEPT ![Found(table, HashOf(cell), {cell})] = NoAtom]

\* removeAtom at the next slot: up to an empty one, an atom whose home is not
\* between the hole and it moves back into the hole.
SteppedOver(w, next) ==
    LET size == Capacity(w.table)
        moved == w.table[next]
    IN  IF w.over \/ moved = NoAtom THEN [w EXCEPT !.over = TRUE]
        ELSE IF Distance(w.hole, next, size) <= Distance(Home(w.table, HashOf(moved)), next, size)
        THEN [w EXCEPT !.table[w.hole] = moved, !.hole = next]
        ELSE w

\* removeAtom.
Removed(table, cell) ==
    LET size == Capacity(table)
        start == Found(table, HashOf(cell), {cell})
        after[steps \in 0 .. size - 1] ==
            IF steps = 0 THEN [table |-> table, hole |-> start, over |-> FALSE]
            ELSE SteppedOver(after[steps - 1], Around(start, steps, size))
    IN  [after[size - 1].table EXCEPT ![after[size - 1].hole] = NoAtom]

Freed(dead) ==
    /\ text' = [cell \in StringCell |-> IF cell \in dead THEN NoText ELSE text[cell]]
    /\ interned' = interned \ dead
    /\ youngStrings' = {}
    /\ atomAnswer' = <<"died", {text[cell] : cell \in dead \intersect interned}>>

Orders(cells) == {order \in [1 .. Cardinality(cells) -> cells] : IsInjective(order)}

RemovedInTurn(order) ==
    LET after[n \in 0 .. Len(order)] ==
            IF n = 0 THEN atoms ELSE Removed(after[n - 1], order[n])
    IN  after[Len(order)]

\* dropDeadAtoms, in the middle of a minor collection: one after the other,
\* in the order sweepYoung came to them.
MinorCollectionOf(dead) ==
    /\ dead \subseteq youngStrings
    /\ \E order \in Orders(dead \intersect interned) : atoms' = RemovedInTurn(order)
    /\ atomCount' = atomCount - Cardinality(dead \intersect interned)
    /\ Freed(dead)

\* rebuildAtoms, in the middle of a full collection.
FullCollectionOf(dead) ==
    /\ atoms' = Reinserted(atoms, StringCell \ dead, Filled(Capacity(atoms), NoAtom))
    /\ atomCount' = Cardinality(interned \ dead)
    /\ Freed(dead)

AtomNext ==
    \/ \E key \in Key : InternText(key) \/ NewString(key)
    \/ \E cell \in StringCell : InternExisting(cell)
    \/ \E dead \in SUBSET {cell \in StringCell : text[cell] # NoText} :
          MinorCollectionOf(dead) \/ FullCollectionOf(dead)

AtomSpec == AtomInit /\ [][AtomNext]_atomVars
-----------------------------------------------------------------------------
\* The cell of each text that some of the cells have.
AtomsOf(texts, cells) ==
    [key \in {texts[cell] : cell \in cells} |-> CHOOSE cell \in cells : texts[cell] = key]

\* A text has one atom for as long as it lives: every way of interning it
\* finds the same cell, after any removals, whatever ran into whatever
\* else's place and round the end of the table.
OneAtom == INSTANCE Interning WITH
    Text <- Key, atomOf <- AtomsOf(text, interned), answer <- atomAnswer
ImplementsInterning == OneAtom!Spec

\* Every search of the table ends.
AtomSearchesEnd == atoms = <<>> \/ \E slot \in DOMAIN atoms : atoms[slot] = NoAtom
=============================================================================
