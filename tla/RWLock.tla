------------------------------- MODULE RWLock -------------------------------
(***************************************************************************)
(* What the reader-writer lock of ServerCore promises to the code that     *)
(* takes it, with no word about how: held[t] is the stack of scopes thread *)
(* t is in, innermost last, "W" for exclusive and "R" for shared.          *)
(*                                                                         *)
(*  - an exclusive scope is entered by a thread that already is in one, or *)
(*    when no thread, the caller included, is in any scope;                *)
(*  - a shared scope is entered when no OTHER thread is in an exclusive    *)
(*    scope;                                                               *)
(*  - scopes are left innermost first.                                     *)
(***************************************************************************)
EXTENDS Naturals, Sequences

CONSTANT Threads

VARIABLE held

Modes == {"R", "W"}

HoldsWrite(t) == \E i \in DOMAIN held[t] : held[t][i] = "W"

HoldsAny(t) == held[t] # << >>

Init == held = [t \in Threads |-> << >>]

EnterWrite(t) ==
    /\ HoldsWrite(t) \/ \A u \in Threads : ~HoldsAny(u)
    /\ held' = [held EXCEPT ![t] = Append(@, "W")]

EnterRead(t) ==
    /\ \A u \in Threads \ {t} : ~HoldsWrite(u)
    /\ held' = [held EXCEPT ![t] = Append(@, "R")]

Leave(t) ==
    /\ HoldsAny(t)
    /\ held' = [held EXCEPT ![t] = SubSeq(@, 1, Len(@) - 1)]

Next == \E t \in Threads : EnterWrite(t) \/ EnterRead(t) \/ Leave(t)

Spec == Init /\ [][Next]_held

=============================================================================
