---------------------------- MODULE ContextTable ----------------------------
(***************************************************************************)
(* What zjs.h and docs/lifecycle.md promise of contexts and handles, with  *)
(* no slots, generations or locks: a handle names one context from its     *)
(* creation to its free and nothing ever after; a call on a handle that    *)
(* names a context holds it until it returns; a context is destroyed when, *)
(* and only when, nothing names or holds it.                               *)
(***************************************************************************)
CONSTANTS
    Thread, Context, Handle,
    NoContext       \* not in Context (Contexts!NoneAssumption)

VARIABLES
    built,      \* contexts created so far
    destroyed,  \* contexts whose runtime has been released
    issued,     \* handles given out so far
    names,      \* pairs <<handle, context>>: what handles name now
    asks,       \* the handle a thread's call was given, {} without one
    holds       \* the context a thread holds a reference to

vars == <<built, destroyed, issued, names, asks, holds>>

Init ==
    /\ built = {} /\ destroyed = {} /\ issued = {} /\ names = {}
    /\ asks = [t \in Thread |-> {}]
    /\ holds = [t \in Thread |-> NoContext]

Build(t, x) ==
    /\ holds[t] = NoContext /\ asks[t] = {} /\ x \notin built
    /\ built' = built \cup {x}
    /\ holds' = [holds EXCEPT ![t] = x]
    /\ UNCHANGED <<destroyed, issued, names, asks>>

\* A handle is never issued twice.
Publish(t, h) ==
    /\ holds[t] # NoContext /\ asks[t] = {} /\ h \notin issued
    /\ issued' = issued \cup {h}
    /\ names' = names \cup {<<h, holds[t]>>}
    /\ UNCHANGED <<built, destroyed, asks, holds>>

\* A call may be given any handle ever issued, freed or not.
Ask(t, h) ==
    /\ holds[t] = NoContext /\ asks[t] = {} /\ h \in issued
    /\ asks' = [asks EXCEPT ![t] = {h}]
    /\ UNCHANGED <<built, destroyed, issued, names, holds>>

\* It is admitted to the context its handle names at that moment,
Admit(t, e) ==
    /\ holds[t] = NoContext /\ e \in names /\ e[1] \in asks[t]
    /\ holds' = [holds EXCEPT ![t] = e[2]]
    /\ UNCHANGED <<built, destroyed, issued, names, asks>>

\* and refused only if the handle names none.
Refuse(t) ==
    /\ holds[t] = NoContext /\ asks[t] # {} /\ \A e \in names : e[1] \notin asks[t]
    /\ asks' = [asks EXCEPT ![t] = {}]
    /\ UNCHANGED <<built, destroyed, issued, names, holds>>

\* The freeing thread holds the context itself, so this destroys nothing.
Revoke(t, e) ==
    /\ e \in names /\ e[1] \in asks[t] /\ holds[t] = e[2]
    /\ names' = names \ {e}
    /\ UNCHANGED <<built, destroyed, issued, asks, holds>>

Drop(t) ==
    /\ holds[t] # NoContext
    /\ holds' = [holds EXCEPT ![t] = NoContext]
    /\ asks' = [asks EXCEPT ![t] = {}]
    /\ destroyed' = IF /\ \A u \in Thread \ {t} : holds[u] # holds[t]
                       /\ \A e \in names : e[2] # holds[t]
                    THEN destroyed \cup {holds[t]}
                    ELSE destroyed
    /\ UNCHANGED <<built, issued, names>>

Next ==
    \E t \in Thread :
        \/ \E x \in Context : Build(t, x)
        \/ \E h \in Handle : Publish(t, h) \/ Ask(t, h)
        \/ \E e \in names : Admit(t, e) \/ Revoke(t, e)
        \/ Refuse(t) \/ Drop(t)

Spec == Init /\ [][Next]_vars
=============================================================================
