-------------------------------- MODULE Pool --------------------------------
(***************************************************************************)
(* What the register allocator of ir/lower.rs promises its callers         *)
(* (alloc_reg, free_reg and the LinearReg between them), without the free  *)
(* list: a register is handed out to one holder at a time, and a fresh one *)
(* only when every register taken so far is held.                          *)
(***************************************************************************)
EXTENDS Integers

CONSTANT Size    \* registers 0 .. Size-1 can be handed out

VARIABLES held,  \* the register of each holder that has one
          top    \* 0 .. top-1 have been taken so far

poolvars == <<held, top>>

Holding == DOMAIN held
InUse == {held[h] : h \in Holding}
Taken == 0 .. top - 1

Init == held = <<>> /\ top = 0

(* Holders without a register come and go, so they have no set of their    *)
(* own: h is the one that holds a register after the step only.            *)
Gets(h, r) == held' = [x \in Holding \cup {h} |-> IF x = h THEN r ELSE held[x]]

(* The pool grows by the register top only when no other is left.          *)
Grow == Taken \subseteq InUse /\ top < Size /\ top' = top + 1

(* Who asks gets a register that nobody holds.                             *)
Acquire == \E h \in DOMAIN held' \ Holding :
    \/ \E r \in Taken \ InUse : Gets(h, r) /\ UNCHANGED top
    \/ Grow /\ Gets(h, top)

(* A register is taken and given back at once.                             *)
Borrow == Grow /\ UNCHANGED held

Release == /\ DOMAIN held' \subseteq Holding
           /\ held' = [h \in DOMAIN held' |-> held[h]]
           /\ UNCHANGED top

Next == Acquire \/ Borrow \/ Release

Spec == Init /\ [][Next]_poolvars

-----------------------------------------------------------------------------
(* What the pool guarantees: a register taken is in range, and nobody      *)
(* holds a register of another.                                            *)
PoolOK ==
    /\ top \in 0 .. Size
    /\ InUse \subseteq Taken
    /\ \A h, i \in Holding : held[h] = held[i] => h = i
=============================================================================
