----------------------------- MODULE Interning -----------------------------
(***************************************************************************)
(* What interning promises: one cell for one text, the same for as long as *)
(* the cell lives, so that texts are compared by comparing cells.          *)
(***************************************************************************)
CONSTANTS Text, StringCell

VARIABLES
    atomOf,     \* the cell of each text that has one
    answer      \* the cell last asked for

Atoms == {atomOf[text] : text \in DOMAIN atomOf}

Init == atomOf = <<>> /\ answer = <<"none">>

Intern(text) ==
    \E cell \in StringCell :
        /\ IF text \in DOMAIN atomOf
           THEN cell = atomOf[text] /\ UNCHANGED atomOf
           ELSE /\ cell \notin Atoms
                /\ atomOf' = [t \in DOMAIN atomOf \union {text} |-> IF t = text THEN cell ELSE atomOf[t]]
        /\ answer' = <<"atom", cell>>

\* A collection frees cells.
Forget(texts) ==
    /\ answer' = <<"died", texts>>
    /\ atomOf' = [t \in DOMAIN atomOf \ texts |-> atomOf[t]]

Next == (\E text \in Text : Intern(text)) \/ (\E texts \in SUBSET DOMAIN atomOf : Forget(texts))

Spec == Init /\ [][Next]_<<atomOf, answer>>
=============================================================================
