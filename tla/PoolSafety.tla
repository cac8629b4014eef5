----------------------------- MODULE PoolSafety -----------------------------
(***************************************************************************)
(* What a client of Pool may rely on, whatever keeps its promise.          *)
(***************************************************************************)
EXTENDS Pool, TLAPS

(* PoolOK is inductive. *)
LEMMA PoolStepOK == ASSUME Size \in Nat, PoolOK, [Next]_poolvars PROVE PoolOK'
<1>1. CASE Acquire
  <2>1. PICK h \in DOMAIN held' \ Holding :
           \/ \E r \in Taken \ InUse : Gets(h, r) /\ UNCHANGED top
           \/ Grow /\ Gets(h, top)
    BY <1>1 DEF Acquire
  <2>2. PICK r \in Int :
           /\ Gets(h, r) /\ r \notin InUse /\ r \in 0 .. top' - 1
           /\ top' \in 0 .. Size /\ top <= top'
    <3>1. ASSUME NEW r \in Taken \ InUse, Gets(h, r), UNCHANGED top
          PROVE  /\ r \in Int /\ r \notin InUse /\ r \in 0 .. top' - 1
                 /\ top' \in 0 .. Size /\ top <= top'
      BY <3>1 DEF PoolOK, Taken
    <3>2. ASSUME Grow
          PROVE  /\ top \in Int /\ top \notin InUse /\ top \in 0 .. top' - 1
                 /\ top' \in 0 .. Size /\ top <= top'
      <4>1. top' = top + 1 /\ top < Size /\ top \in 0 .. Size /\ InUse \subseteq 0 .. top - 1
        BY <3>2 DEF Grow, PoolOK, Taken
      <4>2. top \notin 0 .. top - 1
        BY <4>1
      <4> QED BY <4>1, <4>2
    <3> QED BY <2>1, <3>1, <3>2
  <2>3. DOMAIN held' = DOMAIN held \cup {h} /\ held'[h] = r /\ \A x \in DOMAIN held : held'[x] = held[x]
    BY <2>1, <2>2 DEF Gets, Holding
  <2>4. InUse' \subseteq Taken'
    BY <2>2, <2>3 DEF PoolOK, InUse, Taken, Holding
  <2>5. \A x, y \in DOMAIN held' : held'[x] = held'[y] => x = y
    BY <2>2, <2>3 DEF PoolOK, InUse, Holding
  <2> QED BY <2>2, <2>4, <2>5 DEF PoolOK, Holding
<1>2. CASE Borrow
  <2>1. top' = top + 1 /\ top < Size /\ top \in 0 .. Size /\ held' = held
    BY <1>2 DEF Borrow, Grow, PoolOK
  <2>2. top' \in 0 .. Size /\ Taken \subseteq Taken'
    BY <2>1 DEF Taken
  <2> QED BY <2>1, <2>2 DEF PoolOK, InUse, Holding
<1>3. CASE Release
  <2>1. top' = top /\ DOMAIN held' \subseteq DOMAIN held /\ \A x \in DOMAIN held' : held'[x] = held[x]
    BY <1>3 DEF Release, Holding
  <2>2. InUse' \subseteq InUse /\ Taken' = Taken
    BY <2>1 DEF InUse, Taken, Holding
  <2> QED BY <2>1, <2>2 DEF PoolOK, Holding
<1>4. CASE UNCHANGED poolvars
  BY <1>4 DEF poolvars, PoolOK, InUse, Taken, Holding
<1> QED BY <1>1, <1>2, <1>3, <1>4 DEF Next

(* In every run of the pool, of whatever size, a register has one holder   *)
(* and is below the top, which stays within the size: what alloc_reg must  *)
(* ensure for the two operands of a BinaryRegister to stay apart.          *)
THEOREM PoolIsSafe == ASSUME Size \in Nat PROVE Spec => []PoolOK
<1>1. Init => PoolOK
  <2> SUFFICES ASSUME Init PROVE PoolOK
    OBVIOUS
  <2>1. DOMAIN held = {}
    BY DEF Init
  <2> QED BY <2>1 DEF Init, PoolOK, InUse, Taken, Holding
<1>2. PoolOK /\ [Next]_poolvars => PoolOK'
  BY PoolStepOK
<1> QED BY <1>1, <1>2, PTL DEF Spec
=============================================================================
