----------------------------- MODULE PoolProofs -----------------------------
(***************************************************************************)
(* Registers of a body that opens no register scope (Flat): no two owners  *)
(* share one, none is lost, and the free list implements Pool.             *)
(*                                                                         *)
(* The argument: what the invariants say depends on Held, the free list    *)
(* and the pointer only (Sound).  Five effects on these keep it, and every *)
(* action of a flat body has one of the five.  That an action which drops  *)
(* an operand without freeing it drops one nobody owns follows from the    *)
(* order of the pending tasks (FlatControl).                               *)
(***************************************************************************)
EXTENDS LoweringProofs

-----------------------------------------------------------------------------
(* The invariants, of a function h from holders to registers, a free list  *)
(* f and a pointer p.                                                      *)
Sound(h, f, p) ==
    /\ p \in Nat
    /\ f \in Seq(Nat)
    /\ \A i \in DOMAIN h : h[i] \in Nat /\ h[i] < p
    /\ \A i, j \in DOMAIN h : i # j => h[i] # h[j]
    /\ \A i, j \in 1 .. Len(f) : i # j => f[i] # f[j]
    /\ \A i \in DOMAIN h, j \in 1 .. Len(f) : h[i] # f[j]
    /\ \A j \in 1 .. Len(f) : f[j] < p
    /\ \A r \in 0 .. p - 1 : (\E i \in DOMAIN h : h[i] = r) \/ (\E j \in 1 .. Len(f) : f[j] = r)

With(h, i, r) == [x \in DOMAIN h \cup {i} |-> IF x = i THEN r ELSE h[x]]
Without(h, i) == [x \in DOMAIN h \ {i} |-> h[x]]

(* A register from the top of the free list. *)
LEMMA SoundReuse ==
    ASSUME NEW h, NEW f, NEW p, Sound(h, f, p), f # <<>>, NEW i, i \notin DOMAIN h
    PROVE  Sound(With(h, i, f[Len(f)]), Take(f, Len(f) - 1), p)
<1> DEFINE n == Len(f)
           r == f[n]
           g == Take(f, n - 1)
           k == With(h, i, r)
<1>1. n \in Nat \ {0} /\ r \in Nat /\ r < p
  <2>1. f \in Seq(Nat)
    BY DEF Sound
  <2>2. n \in Nat \ {0}
    BY <2>1
  <2> QED BY <2>1, <2>2 DEF Sound
<1>2. g \in Seq(Nat) /\ Len(g) = n - 1 /\ \A j \in 1 .. n - 1 : g[j] = f[j]
  BY <1>1, TakeProperties DEF Sound
<1>3. DOMAIN k = DOMAIN h \cup {i} /\ k[i] = r /\ \A x \in DOMAIN h : k[x] = h[x]
  BY DEF With
<1> HIDE DEF n, r, g, k
<1>4. r = f[n] /\ n = Len(f)
  BY DEF n, r
<1>5. \A x \in DOMAIN k : k[x] \in Nat /\ k[x] < p
  BY <1>1, <1>3 DEF Sound
<1>6. \A x, y \in DOMAIN k : x # y => k[x] # k[y]
  BY <1>1, <1>3, <1>4 DEF Sound
<1>index. /\ n \in 1 .. n
       /\ \A j \in 1 .. Len(g) : j \in 1 .. n /\ j # n /\ g[j] = f[j]
  BY <1>1, <1>2
<1>distinct. \A x, y \in 1 .. n : x # y => f[x] # f[y]
  BY <1>4 DEF Sound
<1>7. \A x, y \in 1 .. Len(g) : x # y => g[x] # g[y]
  BY <1>index, <1>distinct
<1>8. \A x \in DOMAIN k, j \in 1 .. Len(g) : k[x] # g[j]
  <2> SUFFICES ASSUME NEW x \in DOMAIN k, NEW j \in 1 .. Len(g) PROVE k[x] # g[j]
    OBVIOUS
  <2>1. CASE x = i
    BY <1>3, <1>4, <1>index, <1>distinct, <2>1
  <2>2. CASE x # i
    BY <1>3, <1>4, <1>index, <2>2 DEF Sound
  <2> QED BY <2>1, <2>2
<1>9. \A j \in 1 .. Len(g) : g[j] < p
  BY <1>1, <1>2, <1>4 DEF Sound
<1>10. \A q \in 0 .. p - 1 : (\E x \in DOMAIN k : k[x] = q) \/ (\E j \in 1 .. Len(g) : g[j] = q)
  <2> SUFFICES ASSUME NEW q \in 0 .. p - 1, \A j \in 1 .. Len(g) : g[j] # q
               PROVE  \E x \in DOMAIN k : k[x] = q
    OBVIOUS
  <2>1. CASE \E x \in DOMAIN h : h[x] = q
    BY <1>3, <2>1
  <2>2. CASE \E j \in 1 .. n : f[j] = q
    <3>1. PICK j \in 1 .. n : f[j] = q
      BY <2>2
    <3>2. j = n
      BY <1>1, <1>2, <3>1
    <3> QED BY <1>3, <1>4, <3>1, <3>2
  <2> QED BY <1>4, <2>1, <2>2 DEF Sound
<1>11. p \in Nat
  BY DEF Sound
<1>12. Sound(k, g, p)
  BY <1>2, <1>5, <1>6, <1>7, <1>8, <1>9, <1>10, <1>11 DEF Sound
<1> QED BY <1>12 DEF n, r, g, k

(* A register from the pointer, when the free list is empty. *)
LEMMA SoundFresh ==
    ASSUME NEW h, NEW f, NEW p, Sound(h, f, p), f = <<>>, NEW i, i \notin DOMAIN h
    PROVE  Sound(With(h, i, p), f, p + 1)
<1> DEFINE k == With(h, i, p)
<1>1. p \in Nat /\ Len(f) = 0
  BY DEF Sound
<1>2. DOMAIN k = DOMAIN h \cup {i} /\ k[i] = p /\ \A x \in DOMAIN h : k[x] = h[x]
  BY DEF With
<1> HIDE DEF k
<1>3. \A x \in DOMAIN k : k[x] \in Nat /\ k[x] < p + 1
  BY <1>1, <1>2 DEF Sound
<1>4. \A x, y \in DOMAIN k : x # y => k[x] # k[y]
  BY <1>1, <1>2 DEF Sound
<1>5. \A q \in 0 .. p : \E x \in DOMAIN k : k[x] = q
  <2> SUFFICES ASSUME NEW q \in 0 .. p PROVE \E x \in DOMAIN k : k[x] = q
    OBVIOUS
  <2>1. CASE q = p
    BY <1>2, <2>1
  <2>2. CASE q \in 0 .. p - 1
    <3>1. \E x \in DOMAIN h : h[x] = q
      BY <1>1, <2>2 DEF Sound
    <3> QED BY <1>2, <3>1
  <2> QED BY <1>1, <2>1, <2>2
<1>6. f \in Seq(Nat) /\ (p + 1) - 1 = p /\ p + 1 \in Nat
  BY <1>1 DEF Sound
<1>7. Sound(k, f, p + 1)
  BY <1>1, <1>3, <1>4, <1>5, <1>6 DEF Sound
<1> QED BY <1>7 DEF k

(* A register given back. *)
LEMMA SoundGive ==
    ASSUME NEW h, NEW f, NEW p, Sound(h, f, p), NEW i \in DOMAIN h
    PROVE  Sound(Without(h, i), Append(f, h[i]), p)
<1> DEFINE g == Append(f, h[i])
           k == Without(h, i)
           n == Len(f)
<1>1. p \in Nat /\ n \in Nat /\ h[i] \in Nat /\ h[i] < p
  BY DEF Sound
<1>2. g \in Seq(Nat) /\ Len(g) = n + 1 /\ g[n + 1] = h[i] /\ \A j \in 1 .. n : g[j] = f[j]
  BY <1>1, AppendElements DEF Sound
<1>3. DOMAIN k = DOMAIN h \ {i} /\ \A x \in DOMAIN k : k[x] = h[x]
  BY DEF Without
<1>4. n = Len(f)
  OBVIOUS
<1> HIDE DEF g, k, n
<1>5. \A x \in DOMAIN k : k[x] \in Nat /\ k[x] < p
  BY <1>1, <1>3 DEF Sound
<1>6. \A x, y \in DOMAIN k : x # y => k[x] # k[y]
  BY <1>3 DEF Sound
<1>7. \A x \in 1 .. Len(g) : x \in 1 .. n \/ x = n + 1
  BY <1>1, <1>2
<1>8. \A x, y \in 1 .. Len(g) : x # y => g[x] # g[y]
  BY <1>1, <1>2, <1>4, <1>7 DEF Sound
<1>9. \A x \in DOMAIN k, j \in 1 .. Len(g) : k[x] # g[j]
  BY <1>1, <1>2, <1>3, <1>4, <1>7 DEF Sound
<1>10. \A j \in 1 .. Len(g) : g[j] < p
  BY <1>1, <1>2, <1>4, <1>7 DEF Sound
<1>11. \A q \in 0 .. p - 1 : (\E x \in DOMAIN k : k[x] = q) \/ (\E j \in 1 .. Len(g) : g[j] = q)
  <2> SUFFICES ASSUME NEW q \in 0 .. p - 1
               PROVE  (\E x \in DOMAIN k : k[x] = q) \/ (\E j \in 1 .. Len(g) : g[j] = q)
    OBVIOUS
  <2>1. CASE \E x \in DOMAIN h : h[x] = q
    <3>1. PICK x \in DOMAIN h : h[x] = q
      BY <2>1
    <3>2. CASE x = i
      <4>1. n + 1 \in 1 .. Len(g)
        BY <1>1, <1>2
      <4> QED BY <1>2, <3>1, <3>2, <4>1
    <3>3. CASE x # i
      BY <1>3, <3>1, <3>3
    <3> QED BY <3>2, <3>3
  <2>2. CASE \E j \in 1 .. n : f[j] = q
    <3>1. PICK j \in 1 .. n : f[j] = q
      BY <2>2
    <3>2. j \in 1 .. Len(g) /\ g[j] = q
      BY <1>1, <1>2, <3>1
    <3> QED BY <3>2
  <2> QED BY <1>4, <2>1, <2>2 DEF Sound
<1>12. Sound(k, g, p)
  BY <1>1, <1>2, <1>5, <1>6, <1>8, <1>9, <1>10, <1>11 DEF Sound
<1> QED BY <1>12 DEF g, k

(* What was taken from the top of a free list and given back. *)
LEMMA TakeLast ==
    ASSUME NEW f \in Seq(Nat), f # <<>>
    PROVE  Append(Take(f, Len(f) - 1), f[Len(f)]) = f
<1> DEFINE n == Len(f)
           g == Take(f, n - 1)
           k == Append(g, f[n])
<1>1. n \in Nat \ {0} /\ f[n] \in Nat
  OBVIOUS
<1>2. g \in Seq(Nat) /\ Len(g) = n - 1 /\ \A j \in 1 .. n - 1 : g[j] = f[j]
  BY <1>1, TakeProperties
<1>3. n - 1 + 1 = n /\ \A j \in 1 .. n : j \in 1 .. n - 1 \/ j = n
  BY <1>1
<1> HIDE DEF g
<1>4. k \in Seq(Nat) /\ Len(k) = n /\ k[n] = f[n] /\ \A j \in 1 .. n - 1 : k[j] = f[j]
  BY <1>1, <1>2, <1>3, AppendElements
<1> HIDE DEF k
<1>5. \A j \in 1 .. n : k[j] = f[j]
  BY <1>3, <1>4
<1>6. k = f
  BY <1>4, <1>5, SeqEqual
<1> QED BY <1>6 DEF k, g

(* A register taken from the pointer and given back at once. *)
LEMMA SoundBorrow ==
    ASSUME NEW h, NEW f, NEW p, Sound(h, f, p), f = <<>>
    PROVE  Sound(h, <<p>>, p + 1)
<1>1. p \in Nat /\ Len(f) = 0 /\ <<p>> \in Seq(Nat) /\ Len(<<p>>) = 1 /\ <<p>>[1] = p
  BY DEF Sound
<1>2. \A q \in 0 .. p : q = p \/ q \in 0 .. p - 1
  BY <1>1
<1>3. (p + 1) - 1 = p /\ p + 1 \in Nat
  BY <1>1
<1>4. \A x \in DOMAIN h : h[x] \in Nat /\ h[x] < p
  BY DEF Sound
<1>5. \A q \in 0 .. p : (\E x \in DOMAIN h : h[x] = q) \/ (\E j \in 1 .. Len(<<p>>) : <<p>>[j] = q)
  BY <1>1, <1>2 DEF Sound
<1>6. \A j \in 1 .. Len(<<p>>) : j = 1
  BY <1>1
<1> DEFINE g == <<p>>
<1>7. g \in Seq(Nat) /\ g[1] = p /\ \A j \in 1 .. Len(g) : j = 1
  BY <1>1, <1>6
<1>8. \A q \in 0 .. (p + 1) - 1 : (\E x \in DOMAIN h : h[x] = q) \/ (\E j \in 1 .. Len(g) : g[j] = q)
  BY <1>3, <1>5
<1> HIDE DEF g
<1>9. \A x, y \in DOMAIN h : x # y => h[x] # h[y]
  BY DEF Sound
<1>10. Sound(h, g, p + 1)
  BY <1>1, <1>3, <1>4, <1>7, <1>8, <1>9 DEF Sound
<1> QED BY <1>10 DEF g

-----------------------------------------------------------------------------
(* The registers a stack of operands holds. *)

HeldOf(l) == [i \in {j \in 1 .. Len(l) : l[j].own} |-> l[i].mi.n]

(* Pushing an operand. *)
LEMMA HeldPush ==
    ASSUME NEW l \in Seq(Operands), NEW x \in Operands
    PROVE  /\ ~x.own => HeldOf(Append(l, x)) = HeldOf(l)
           /\ x.own => HeldOf(Append(l, x)) = With(HeldOf(l), Len(l) + 1, x.mi.n)
           /\ Len(l) + 1 \notin DOMAIN HeldOf(l)
<1> DEFINE m == Append(l, x)
           D == {j \in 1 .. Len(l) : l[j].own}
           E == {j \in 1 .. Len(m) : m[j].own}
<1>1. /\ Len(l) \in Nat /\ Len(m) = Len(l) + 1 /\ m[Len(l) + 1] = x
      /\ \A j \in 1 .. Len(l) : m[j] = l[j]
  BY AppendElements
<1>2. \A j \in 1 .. Len(m) : j \in 1 .. Len(l) \/ j = Len(l) + 1
  BY <1>1
<1>3. Len(l) + 1 \notin 1 .. Len(l) /\ Len(l) + 1 \in 1 .. Len(m) /\ 1 .. Len(l) \subseteq 1 .. Len(m)
  BY <1>1
<1> HIDE DEF m
<1>4. HeldOf(l) = [i \in D |-> l[i].mi.n] /\ HeldOf(m) = [i \in E |-> m[i].mi.n]
  BY DEF HeldOf
<1>5. ~x.own => HeldOf(m) = HeldOf(l)
  <2> SUFFICES ASSUME ~x.own PROVE HeldOf(m) = HeldOf(l)
    OBVIOUS
  <2>1. E = D
    BY <1>1, <1>2, <1>3
  <2>2. \A i \in D : m[i] = l[i]
    BY <1>1
  <2> HIDE DEF D, E
  <2> QED BY <1>4, <2>1, <2>2
<1>6. x.own => HeldOf(m) = With(HeldOf(l), Len(l) + 1, x.mi.n)
  <2> SUFFICES ASSUME x.own PROVE HeldOf(m) = With(HeldOf(l), Len(l) + 1, x.mi.n)
    OBVIOUS
  <2> DEFINE h == HeldOf(l)
  <2>1. E = D \cup {Len(l) + 1} /\ DOMAIN h = D /\ \A i \in D : h[i] = l[i].mi.n
    BY <1>1, <1>2, <1>3, <1>4
  <2>2. \A i \in E : m[i].mi.n = IF i = Len(l) + 1 THEN x.mi.n ELSE h[i]
    BY <1>1, <1>3, <2>1
  <2> HIDE DEF D, E, h
  <2>3. HeldOf(m) = [i \in DOMAIN h \cup {Len(l) + 1} |-> IF i = Len(l) + 1 THEN x.mi.n ELSE h[i]]
    BY <1>4, <2>1, <2>2
  <2> QED BY <2>3 DEF With, h
<1>7. Len(l) + 1 \notin DOMAIN HeldOf(l)
  BY <1>1 DEF HeldOf
<1> QED BY <1>5, <1>6, <1>7 DEF m

(* Popping one. *)
LEMMA HeldPop ==
    ASSUME NEW l \in Seq(Operands), l # <<>>
    PROVE  LET n == Len(l)
               m == Take(l, n - 1)
           IN  /\ ~l[n].own => HeldOf(m) = HeldOf(l)
               /\ l[n].own => n \in DOMAIN HeldOf(l) /\ HeldOf(l)[n] = l[n].mi.n
                              /\ HeldOf(m) = Without(HeldOf(l), n)
               /\ m \in Seq(Operands) /\ Len(m) = n - 1
               /\ \A j \in 1 .. n - 1 : m[j] = l[j]
<1> DEFINE n == Len(l)
           m == Take(l, n - 1)
           D == {j \in 1 .. n : l[j].own}
           E == {j \in 1 .. Len(m) : m[j].own}
<1>1. n \in Nat \ {0}
  BY EmptySeq, LenProperties
<1>2. m \in Seq(Operands) /\ Len(m) = n - 1 /\ \A j \in 1 .. n - 1 : m[j] = l[j]
  BY <1>1, TakeProperties
<1>3. n \in 1 .. n /\ \A j \in 1 .. n : j \in 1 .. n - 1 \/ j = n
  BY <1>1
<1>4. n \notin 1 .. n - 1 /\ 1 .. n - 1 \subseteq 1 .. n
  BY <1>1
<1>5. HeldOf(l) = [i \in D |-> l[i].mi.n] /\ HeldOf(m) = [i \in E |-> m[i].mi.n]
  BY DEF HeldOf
<1> HIDE DEF m, n
<1>6. E = D \ {n}
  BY <1>2, <1>3, <1>4
<1>7. \A i \in E : m[i] = l[i]
  BY <1>2
<1>8. ~l[n].own => n \notin D
  OBVIOUS
<1>9. l[n].own => n \in D
  BY <1>3
<1> HIDE DEF D, E
<1>10. CASE ~l[n].own
  <2>1. E = D
    BY <1>6, <1>8, <1>10
  <2> QED BY <1>2, <1>5, <1>7, <1>10, <2>1 DEF m, n
<1>11. CASE l[n].own
  <2>1. DOMAIN HeldOf(l) = D /\ HeldOf(l)[n] = l[n].mi.n
    BY <1>5, <1>9, <1>11
  <2>2. HeldOf(m) = Without(HeldOf(l), n)
    BY <1>5, <1>6, <1>7 DEF Without
  <2> QED BY <1>2, <1>9, <1>11, <2>1, <2>2 DEF m, n
<1> QED BY <1>10, <1>11

-----------------------------------------------------------------------------
(* The effects of a step on the registers. *)

Kept == Held' = Held /\ SameRegs(code, code')

Obtained == /\ CanAlloc(code) /\ SameRegs(AllocReg(code), code')
            /\ \E i : i \notin DOMAIN Held /\ Held' = With(Held, i, NextReg(code))

Given == \E i \in DOMAIN Held :
    /\ Held' = Without(Held, i)
    /\ SameRegs(FreeReg(code, Held[i]), code')

GivenTwo == \E i, j \in DOMAIN Held :
    /\ i # j
    /\ Held' = Without(Without(Held, i), j)
    /\ SameRegs(FreeReg(FreeReg(code, Held[j]), Held[i]), code')

Borrowed == /\ CanAlloc(code) /\ Held' = Held
            /\ SameRegs(FreeReg(AllocReg(code), NextReg(code)), code')

Effect == Kept \/ Obtained \/ Given \/ GivenTwo \/ Borrowed

(* Held, of the locals before and after a step. *)
LEMMA HeldIsHeldOf == Held = HeldOf(locals) /\ Held' = HeldOf(locals')
  BY DEF Held, HeldOf, Owned

(* What the registers are after a Do. *)
LEMMA DoRegs ==
    ASSUME NEW c, NEW l, NEW tasks, Do(c, l, tasks)
    PROVE  Held' = HeldOf(l) /\ code' = c /\ locals' = l
  BY HeldIsHeldOf DEF Do

(* The operand on top and the stack without it. *)
LEMMA PopOne ==
    ASSUME TypeOK, locals # <<>>
    PROVE  /\ Local(0) = locals[Len(locals)] /\ Pop(1) = Take(locals, Len(locals) - 1)
           /\ Len(locals) \in Nat \ {0}
<1>1. Len(locals) \in Nat /\ Len(locals) # 0 /\ Len(locals) - 0 = Len(locals)
  BY LenProperties, EmptySeq DEF TypeOK
<1>2. (IF 1 < Len(locals) THEN Len(locals) - 1 ELSE 0) = Len(locals) - 1
  BY <1>1
<1> QED BY <1>1, <1>2 DEF Local, Pop

(* Popping an operand nobody owns. *)
LEMMA HeldDropped ==
    ASSUME TypeOK, ~Local(0).own
    PROVE  HeldOf(Pop(1)) = Held
<1>1. CASE locals = <<>>
  <2>1. Pop(1) = <<>>
    BY <1>1 DEF Pop, Take
  <2> QED BY <1>1, <2>1, HeldIsHeldOf
<1>2. CASE locals # <<>>
  BY <1>2, PopOne, HeldPop, HeldIsHeldOf DEF TypeOK
<1> QED BY <1>1, <1>2

(* The step does not touch an operand, or pushes one nobody owns. *)
LEMMA DoKeeps ==
    ASSUME TypeOK, NEW c, NEW l, NEW tasks, Do(c, l, tasks), SameRegs(code, c),
           \/ l = locals
           \/ \E x \in MaybeImm : l = Push(Plain(x))
           \/ l = Pop(1) /\ ~Local(0).own
    PROVE  Effect
<1>1. CASE l = locals
  BY <1>1, DoRegs, HeldIsHeldOf DEF Effect, Kept
<1>2. CASE \E x \in MaybeImm : l = Push(Plain(x))
  <2>1. PICK x \in MaybeImm : l = Push(Plain(x))
    BY <1>2
  <2>2. Plain(x) \in Operands /\ ~Plain(x).own
    BY OperandTypes DEF Plain
  <2>3. HeldOf(l) = HeldOf(locals)
    BY <2>1, <2>2, HeldPush DEF Push, TypeOK
  <2> QED BY <2>3, DoRegs, HeldIsHeldOf DEF Effect, Kept
<1>3. CASE l = Pop(1) /\ ~Local(0).own
  BY <1>3, HeldDropped, DoRegs DEF Effect, Kept
<1> QED BY <1>1, <1>2, <1>3

(* The step frees the operand on top. *)
LEMMA DoFrees ==
    ASSUME TypeOK, NEW c, HasRegs(c), SameRegs(code, c), NEW tasks, Do(FreeLocal(c, Local(0)), Pop(1), tasks)
    PROVE  Effect
<1>1. CASE ~Local(0).own
  <2>1. FreeLocal(c, Local(0)) = c
    BY <1>1 DEF FreeLocal
  <2> QED BY <1>1, <2>1, DoKeeps
<1>2. CASE Local(0).own
  <2> DEFINE n == Len(locals)
             h == Held
  <2>1. locals # <<>>
    <3>1. Len(<<>>) = 0
      OBVIOUS
    <3> QED BY <1>2, <3>1 DEF Local, Plain
  <2>2. Local(0) = locals[n] /\ Pop(1) = Take(locals, n - 1)
    BY <2>1, PopOne
  <2>3. n \in DOMAIN h /\ h[n] = locals[n].mi.n /\ HeldOf(Pop(1)) = Without(h, n)
    BY <1>2, <2>1, <2>2, HeldPop, HeldIsHeldOf DEF TypeOK
  <2>4. Held' = Without(h, n) /\ code' = FreeReg(c, h[n])
    BY <1>2, <2>2, <2>3, DoRegs DEF FreeLocal
  <2>5. SameRegs(FreeReg(code, h[n]), FreeReg(c, h[n]))
    BY DEF SameRegs, HasRegs, FreeReg
  <2> QED BY <2>3, <2>4, <2>5 DEF Effect, Given
<1> QED BY <1>1, <1>2

(* The step takes a register and pushes it. *)
LEMMA DoTakes ==
    ASSUME TypeOK, CanAlloc(code), NEW d, SameRegs(AllocReg(code), d),
           NEW l \in Seq(Operands), HeldOf(l) = Held,
           NEW tasks, Do(d, Append(l, Own(NextReg(code))), tasks)
    PROVE  Effect
<1> DEFINE r == NextReg(code)
<1>1. Own(r) \in Operands /\ Own(r).own /\ Own(r).mi.n = r
  <2>1. r \in Registers
    BY AllocProperties DEF TypeOK, Registers
  <2> QED BY <2>1, OperandTypes DEF Own, Reg
<1>2. /\ HeldOf(Append(l, Own(r))) = With(Held, Len(l) + 1, r)
      /\ Len(l) + 1 \notin DOMAIN Held
  BY <1>1, HeldPush
<1>3. Held' = With(Held, Len(l) + 1, r) /\ code' = d
  BY <1>2, DoRegs
<1> QED BY <1>2, <1>3 DEF Effect, Obtained

(* The step frees the two operands on top, the lower one first. *)
LEMMA DoFreesTwo ==
    ASSUME TypeOK, NEW c, HasRegs(c), SameRegs(code, c), NEW tasks,
           Do(FreeLocal(FreeLocal(c, Local(1)), Local(0)), Pop(2), tasks)
    PROVE  Effect
<1> DEFINE n == Len(locals)
           m == Take(locals, n - 1)
           x == Local(0)
           y == Local(1)
<1>1. n \in Nat /\ locals \in Seq(Operands)
  BY LenProperties DEF TypeOK
<1>2. CASE n = 0 \/ n = 1
  <2>1. y = Plain(Imm(0)) /\ ~y.own
    BY <1>2 DEF Local, Plain
  <2>2. FreeLocal(c, y) = c
    BY <2>1 DEF FreeLocal
  <2>3. Pop(2) = Pop(1)
    <3>1. (IF 2 < n THEN n - 2 ELSE 0) = 0 /\ (IF 1 < n THEN n - 1 ELSE 0) = 0
      BY <1>2
    <3> QED BY <3>1 DEF Pop
  <2> QED BY <2>2, <2>3, DoFrees
<1>3. CASE n # 0 /\ n # 1
  <2>1. locals # <<>> /\ n - 1 \in Nat \ {0}
    BY <1>1, <1>3
  <2>2. /\ x = locals[n] /\ m \in Seq(Operands) /\ Len(m) = n - 1
        /\ \A j \in 1 .. n - 1 : m[j] = locals[j]
    BY <1>1, <2>1, HeldPop, PopOne
  <2>3. m # <<>> /\ n - 1 \in 1 .. n - 1
    BY <2>1, <2>2
  <2>4. y = m[n - 1]
    <3>1. \A a \in Nat : a # 0 /\ a # 1 => 1 < a
      OBVIOUS
    <3>2. 1 < n
      BY <1>1, <1>3, <3>1
    <3> QED BY <2>2, <2>3, <3>2 DEF Local
  <2>5. Pop(2) = Take(m, Len(m) - 1)
    <3>1. (IF 2 < n THEN n - 2 ELSE 0) = n - 2 /\ n - 2 \in Nat /\ n - 2 = Len(m) - 1
      BY <1>1, <1>3, <2>2
    <3>2. Len(Take(locals, n - 2)) = n - 2 /\ Len(Take(m, n - 2)) = n - 2
      BY <1>1, <2>2, <3>1, TakeProperties
    <3>3. Take(locals, n - 2) \in Seq(Operands) /\ Take(m, n - 2) \in Seq(Operands)
      BY <1>1, <2>2, <3>1, TakeProperties
    <3>4. \A j \in 1 .. n - 2 : Take(locals, n - 2)[j] = locals[j] /\ Take(m, n - 2)[j] = m[j]
      BY <1>1, <2>2, <3>1, <3>2, TakeProperties
    <3>5. \A j \in 1 .. n - 2 : Take(locals, n - 2)[j] = Take(m, n - 2)[j]
      BY <1>1, <2>2, <3>4
    <3>6. Take(locals, n - 2) = Take(m, n - 2)
      BY <3>2, <3>3, <3>5, SeqEqual
    <3> QED BY <3>1, <3>6 DEF Pop
  <2> DEFINE h == Held
             k == HeldOf(m)
             d == FreeLocal(FreeLocal(c, y), x)
  <2>6. Held' = HeldOf(Take(m, Len(m) - 1)) /\ code' = d
    BY <2>5, DoRegs
  <2>7. /\ ~x.own => k = h
        /\ x.own => n \in DOMAIN h /\ h[n] = x.mi.n /\ k = Without(h, n)
    BY <1>1, <2>1, <2>2, HeldPop, HeldIsHeldOf
  <2>8. /\ ~y.own => Held' = k
        /\ y.own => n - 1 \in DOMAIN k /\ k[n - 1] = y.mi.n /\ Held' = Without(k, n - 1)
    BY <2>2, <2>3, <2>4, <2>6, HeldPop
  <2>9. DOMAIN k \subseteq DOMAIN h /\ \A i \in DOMAIN k : k[i] = h[i]
    BY <2>7 DEF Without
  <2>10. n - 1 # n
    BY <1>1
  <2> HIDE DEF n, m, x, y, h, k
  <2>11. \A r, s : /\ SameRegs(FreeReg(code, r), FreeReg(c, r))
                   /\ SameRegs(FreeReg(FreeReg(code, r), s), FreeReg(FreeReg(c, r), s))
    BY DEF SameRegs, HasRegs, FreeReg
  <2>12. CASE x.own /\ y.own
    BY <2>6, <2>7, <2>8, <2>9, <2>10, <2>11, <2>12 DEF Effect, GivenTwo, FreeLocal, h
  <2>13. CASE x.own /\ ~y.own
    BY <2>6, <2>7, <2>8, <2>11, <2>13 DEF Effect, Given, FreeLocal, h
  <2>14. CASE ~x.own /\ y.own
    BY <2>6, <2>7, <2>8, <2>11, <2>14 DEF Effect, Given, FreeLocal, h
  <2>15. CASE ~x.own /\ ~y.own
    BY <2>6, <2>7, <2>8, <2>15 DEF Effect, Kept, FreeLocal, h
  <2> QED BY <2>12, <2>13, <2>14, <2>15
<1> QED BY <1>2, <1>3

-----------------------------------------------------------------------------
(* The pending tasks of a flat body: none closes a register scope, and a   *)
(* task that drops the loaded operand without freeing it waits behind the  *)
(* task that loads it.                                                     *)

Scopes == {"ElseEnd", "CallEnd", "Redirection", "TernaryBranch", "TernaryThen", "TernaryElse"}
Droppers == {"AssignEmit", "Incr"}

FlatTask(t) ==
    /\ t.k \notin Scopes
    /\ t.k \in {"IfBranch", "ThenEnd"} => t.orelse = <<>>
    /\ t.k \in {"LoadPlace", "StorePlace", "AssignVal"} \cup Droppers => t.p.k \notin Indexed

FlatSeq(s) ==
    /\ Stream(s)
    /\ \A i \in 1 .. Len(s) : FlatTask(s[i])
    /\ \A i \in 1 .. Len(s) - 1 : s[i + 1].k \in Droppers => s[i].k = "LoadPlace"

(* Tasks that may be pushed whatever waits behind them. *)
Simples(s) ==
    /\ Stream(s)
    /\ \A i \in 1 .. Len(s) : FlatTask(s[i]) /\ s[i].k \notin Droppers

FlatControl ==
    /\ FlatSeq(control)
    /\ control # <<>> /\ Top.k \in Droppers => ~Local(0).own

(* Short sequences of simple tasks. *)
LEMMA SimplesShort ==
    ASSUME NEW a, NEW b, NEW c,
           FlatTask(a) /\ a.k \notin Droppers, FlatTask(b) /\ b.k \notin Droppers,
           FlatTask(c) /\ c.k \notin Droppers
    PROVE  Simples(<<>>) /\ Simples(<<a>>) /\ Simples(<<a, b>>) /\ Simples(<<a, b, c>>)
<1>1. <<>> \in Seq({a}) /\ <<a>> \in Seq({a}) /\ <<a, b>> \in Seq({a, b}) /\ <<a, b, c>> \in Seq({a, b, c})
  OBVIOUS
<1>2. Simples(<<>>)
  BY <1>1 DEF Simples, Stream
<1>3. /\ \A i \in 1 .. 1 : i = 1
      /\ \A i \in 1 .. 2 : i = 1 \/ i = 2
      /\ \A i \in 1 .. 3 : i = 1 \/ i = 2 \/ i = 3
  OBVIOUS
<1>4. Simples(<<a>>)
  <2> DEFINE s == <<a>>
  <2>1. Stream(s) /\ Len(s) = 1 /\ s[1] = a
    BY <1>1 DEF Stream
  <2> HIDE DEF s
  <2>2. Simples(s)
    BY <1>3, <2>1 DEF Simples
  <2> QED BY <2>2 DEF s
<1>5. Simples(<<a, b>>)
  <2> DEFINE s == <<a, b>>
  <2>1. Stream(s) /\ Len(s) = 2 /\ s[1] = a /\ s[2] = b
    BY <1>1 DEF Stream
  <2> HIDE DEF s
  <2>2. Simples(s)
    BY <1>3, <2>1 DEF Simples
  <2> QED BY <2>2 DEF s
<1>6. Simples(<<a, b, c>>)
  <2> DEFINE s == <<a, b, c>>
  <2>1. Stream(s) /\ Len(s) = 3 /\ s[1] = a /\ s[2] = b /\ s[3] = c
    BY <1>1 DEF Stream
  <2> HIDE DEF s
  <2>2. Simples(s)
    BY <1>3, <2>1 DEF Simples
  <2> QED BY <2>2 DEF s
<1> QED BY <1>2, <1>4, <1>5, <1>6

(* The same for one task alone. *)
LEMMA SimplesOne == ASSUME NEW a, FlatTask(a), a.k \notin Droppers PROVE Simples(<<a>>)
  BY SimplesShort

(* And for two. *)
LEMMA SimplesTwo ==
    ASSUME NEW a, NEW b, FlatTask(a), a.k \notin Droppers, FlatTask(b), b.k \notin Droppers
    PROVE  Simples(<<a, b>>)
  BY SimplesShort

(* The tasks that are simple by their kind. *)
LEMMA SimpleKind ==
    ASSUME NEW t, t.k \in {"Stmt", "Expr", "Into", "Free", "ForTop", "LoopBranch", "LoopEnd", "DoBranch",
                           "UnaryEmit", "BinaryEmit", "RecordEmit"}
    PROVE  FlatTask(t) /\ t.k \notin Droppers
  BY DEF FlatTask, Scopes, Droppers

(* Nothing is simple, too. *)
LEMMA SimplesNone == Simples(<<>>)
<1>1. <<>> \in Seq({0})
  OBVIOUS
<1> QED BY <1>1 DEF Simples, Stream

(* One after the other. *)
LEMMA SimplesConcat ==
    ASSUME NEW s, NEW t, Simples(s), Simples(t)
    PROVE  Simples(s \o t)
<1>1. /\ Stream(s \o t) /\ Len(s) \in Nat /\ Len(t) \in Nat /\ Len(s \o t) = Len(s) + Len(t)
      /\ \A i \in 1 .. Len(s) : (s \o t)[i] = s[i]
      /\ \A i \in 1 .. Len(t) : (s \o t)[Len(s) + i] = t[i]
  BY StreamConcat DEF Simples
<1>2. ASSUME NEW i \in 1 .. Len(s \o t)
      PROVE  FlatTask((s \o t)[i]) /\ (s \o t)[i].k \notin Droppers
  <2>1. CASE i \in 1 .. Len(s)
    BY <1>1, <2>1 DEF Simples
  <2>2. CASE i \notin 1 .. Len(s)
    <3>1. i - Len(s) \in 1 .. Len(t) /\ i = Len(s) + (i - Len(s))
      BY <1>1, <2>2
    <3>2. (s \o t)[i] = t[i - Len(s)]
      BY <1>1, <3>1
    <3> QED BY <3>1, <3>2 DEF Simples
  <2> QED BY <2>1, <2>2
<1> QED BY <1>1, <1>2 DEF Simples

(* The bodies and the optional statements that are pushed. *)
LEMMA SimplesOf ==
    ASSUME NEW ss \in Seq(Stmts)
    PROVE  Simples(Body(ss)) /\ Simples(Simple(ss))
<1>1. \A x : Stmt(x).k = "Stmt" /\ Expr(x).k = "Expr" /\ Free.k = "Free"
  BY DEF Stmt, Expr, Free
<1>2. \A t : t.k \in {"Stmt", "Expr", "Free"} => FlatTask(t) /\ t.k \notin Droppers
  BY DEF FlatTask, Scopes, Droppers
<1>3. Simples(Body(ss))
  <2>1. Body(ss) \in Seq(Tasks) /\ Len(ss) \in Nat
    BY BodyType, LenProperties
  <2>2. Len(Body(ss)) = Len(ss) /\ \A i \in 1 .. Len(ss) : Body(ss)[i] = Stmt(ss[i])
    BY <2>1 DEF Body
  <2> QED BY <1>1, <1>2, <2>1, <2>2 DEF Simples, Stream
<1>4. Simples(Simple(ss))
  <2>1. FlatTask(Free) /\ Free.k \notin Droppers
    BY <1>1, <1>2
  <2>2. FlatTask(Expr(ss[1].e)) /\ Expr(ss[1].e).k \notin Droppers
    BY <1>1, <1>2
  <2>3. Simples(<<Expr(ss[1].e), Free>>) /\ Simples(<<>>)
    BY <2>1, <2>2, SimplesShort
  <2> QED BY <2>3 DEF Simple
<1> QED BY <1>3, <1>4

(* What is pending behind the top task. *)
LEMMA FlatTail ==
    ASSUME TypeOK, FlatControl, control # <<>>
    PROVE  /\ FlatTask(Top) /\ FlatSeq(Tail(control))
           /\ Tail(control) # <<>> /\ Top.k # "LoadPlace" => Tail(control)[1].k \notin Droppers
<1> DEFINE s == control
           t == Tail(control)
<1>1. s \in Seq(Tasks) /\ Len(s) \in Nat \ {0}
  BY EmptySeq, LenProperties DEF TypeOK
<1>2. t \in Seq(Tasks) /\ Len(t) = Len(s) - 1 /\ \A i \in 1 .. Len(t) : t[i] = s[i + 1]
  BY <1>1
<1>3. FlatTask(Top)
  <2>1. 1 \in 1 .. Len(s)
    BY <1>1
  <2> QED BY <2>1 DEF FlatControl, FlatSeq, Top
<1>4. \A i \in 1 .. Len(t) : FlatTask(t[i])
  <2>1. \A i \in 1 .. Len(t) : i + 1 \in 1 .. Len(s)
    BY <1>1, <1>2
  <2> QED BY <1>2, <2>1 DEF FlatControl, FlatSeq
<1>5. ASSUME NEW i \in 1 .. Len(t) - 1, t[i + 1].k \in Droppers PROVE t[i].k = "LoadPlace"
  <2>1. i \in 1 .. Len(t) /\ i + 1 \in 1 .. Len(t) /\ i + 1 \in 1 .. Len(s) - 1
    BY <1>1, <1>2
  <2>2. t[i] = s[i + 1] /\ t[i + 1] = s[(i + 1) + 1]
    BY <1>2, <2>1
  <2> HIDE DEF t, s
  <2> QED BY <1>5, <2>1, <2>2 DEF FlatControl, FlatSeq, s
<1>6. t # <<>> /\ Top.k # "LoadPlace" => t[1].k \notin Droppers
  <2> SUFFICES ASSUME t # <<>>, t[1].k \in Droppers PROVE Top.k = "LoadPlace"
    OBVIOUS
  <2>1. Len(t) # 0
    BY <1>2, EmptySeq
  <2>2. 1 \in 1 .. Len(t) /\ 1 \in 1 .. Len(s) - 1
    BY <1>1, <1>2, <2>1
  <2>3. t[1] = s[1 + 1]
    BY <1>2, <2>2
  <2> HIDE DEF t
  <2> QED BY <2>2, <2>3 DEF FlatControl, FlatSeq, Top
<1>7. FlatSeq(t)
  BY <1>2, <1>4, <1>5 DEF FlatSeq, Stream
<1> QED BY <1>3, <1>6, <1>7

(* Simple tasks in front of flat ones. *)
LEMMA FlatConcat ==
    ASSUME NEW s, NEW t, Simples(s), FlatSeq(t), t # <<>> => t[1].k \notin Droppers
    PROVE  FlatSeq(s \o t) /\ (s \o t # <<>> => (s \o t)[1].k \notin Droppers)
<1> DEFINE u == s \o t
<1>1. /\ Stream(u) /\ Len(s) \in Nat /\ Len(t) \in Nat /\ Len(u) = Len(s) + Len(t)
      /\ \A i \in 1 .. Len(s) : u[i] = s[i]
      /\ \A i \in 1 .. Len(t) : u[Len(s) + i] = t[i]
  BY StreamConcat DEF Simples, FlatSeq
<1>2. t # <<>> \/ Len(t) = 0
  OBVIOUS
<1> HIDE DEF u
<1>3. ASSUME NEW i \in 1 .. Len(u)
      PROVE  /\ FlatTask(u[i])
             /\ i <= Len(s) + 1 => u[i].k \notin Droppers
             /\ i > Len(s) => i - Len(s) \in 1 .. Len(t) /\ u[i] = t[i - Len(s)]
  <2>1. CASE i \in 1 .. Len(s)
    BY <1>1, <2>1 DEF Simples
  <2>2. CASE i \notin 1 .. Len(s)
    <3>1. i - Len(s) \in 1 .. Len(t) /\ i = Len(s) + (i - Len(s)) /\ (i <= Len(s) + 1 => i - Len(s) = 1)
      BY <1>1, <2>2
    <3>2. u[i] = t[i - Len(s)]
      BY <1>1, <3>1
    <3>3. t # <<>>
      BY <1>2, <3>1
    <3> QED BY <1>1, <3>1, <3>2, <3>3 DEF FlatSeq
  <2> QED BY <2>1, <2>2
<1>4. ASSUME NEW i \in 1 .. Len(u) - 1, u[i + 1].k \in Droppers PROVE u[i].k = "LoadPlace"
  <2>1. i \in 1 .. Len(u) /\ i + 1 \in 1 .. Len(u)
    BY <1>1
  <2>2. ~(i + 1 <= Len(s) + 1)
    BY <1>3, <1>4, <2>1
  <2>3. i > Len(s) /\ i + 1 > Len(s)
    BY <1>1, <2>2
  <2>4. u[i] = t[i - Len(s)] /\ u[i + 1] = t[(i + 1) - Len(s)] /\ i - Len(s) \in 1 .. Len(t)
    BY <1>3, <2>1, <2>3
  <2>5. i - Len(s) \in 1 .. Len(t) - 1 /\ (i + 1) - Len(s) = (i - Len(s)) + 1
    BY <1>1, <2>3
  <2> QED BY <1>4, <2>4, <2>5 DEF FlatSeq
<1>5. u # <<>> => u[1].k \notin Droppers
  <2> SUFFICES ASSUME u # <<>> PROVE u[1].k \notin Droppers
    OBVIOUS
  <2>1. 1 \in 1 .. Len(u) /\ 1 <= Len(s) + 1
    BY <1>1 DEF Stream
  <2> QED BY <1>3, <2>1
<1> QED BY <1>1, <1>3, <1>4, <1>5 DEF FlatSeq, u

(* A step that pushes simple tasks keeps the order of the pending ones. *)
LEMMA DoSimple ==
    ASSUME TypeOK, FlatControl, control # <<>>, Top.k # "LoadPlace",
           NEW c, NEW l, NEW tasks, Do(c, l, tasks), Simples(tasks)
    PROVE  FlatControl'
<1>1. FlatSeq(Tail(control)) /\ (Tail(control) # <<>> => Tail(control)[1].k \notin Droppers)
  BY FlatTail
<1>2. control' = tasks \o Tail(control)
  BY DEF Do
<1>3. FlatSeq(control') /\ (control' # <<>> => control'[1].k \notin Droppers)
  BY <1>1, <1>2, FlatConcat
<1> QED BY <1>3 DEF FlatControl, Top

(* So does one that pushes a load and the task that drops its operand. *)
LEMMA DoLoad ==
    ASSUME TypeOK, FlatControl, control # <<>>, Top.k # "LoadPlace",
           NEW c, NEW l, NEW a, NEW b, Do(c, l, <<a, b>>),
           FlatTask(a), a.k = "LoadPlace", FlatTask(b)
    PROVE  FlatControl'
<1> DEFINE t == Tail(control)
           s == <<a, b>>
           u == s \o t
<1>1. FlatSeq(t) /\ (t # <<>> => t[1].k \notin Droppers)
  BY FlatTail
<1>2. control' = u
  BY DEF Do
<1>3. Stream(s) /\ Len(s) = 2 /\ s[1] = a /\ s[2] = b
  <2>1. s \in Seq({a, b})
    OBVIOUS
  <2> QED BY <2>1 DEF Stream
<1>4. t = <<>> \/ Len(t) # 0
  BY <1>1, EmptySeq DEF FlatSeq, Stream
<1> HIDE DEF s, t
<1>5. /\ Stream(u) /\ Len(t) \in Nat /\ Len(u) = 2 + Len(t)
      /\ \A i \in 1 .. 2 : u[i] = s[i]
      /\ \A i \in 1 .. Len(t) : u[2 + i] = t[i]
  <2>1. /\ Stream(u) /\ Len(t) \in Nat /\ Len(u) = Len(s) + Len(t)
        /\ \A i \in 1 .. Len(s) : u[i] = s[i]
        /\ \A i \in 1 .. Len(t) : u[Len(s) + i] = t[i]
    <3>1. Stream(s) /\ Stream(t)
      BY <1>1, <1>3 DEF FlatSeq
    <3> QED BY ONLY <3>1, StreamConcat
  <2> HIDE DEF u
  <2> QED BY <1>3, <2>1
<1>6. u[1] = a /\ u[2] = b
  BY <1>3, <1>5
<1> HIDE DEF u
<1>7. ASSUME NEW i \in 1 .. Len(u)
      PROVE  i = 1 \/ i = 2 \/ (i - 2 \in 1 .. Len(t) /\ u[i] = t[i - 2])
  <2>1. CASE i > 2
    <3>1. i - 2 \in 1 .. Len(t) /\ 2 + (i - 2) = i
      BY <1>5, <2>1
    <3> QED BY <1>5, <3>1
  <2> QED BY <2>1
<1>8. \A i \in 1 .. Len(u) : FlatTask(u[i])
  BY <1>1, <1>6, <1>7 DEF FlatSeq
<1>9. ASSUME NEW i \in 1 .. Len(u) - 1, u[i + 1].k \in Droppers PROVE u[i].k = "LoadPlace"
  <2>1. i \in 1 .. Len(u) /\ i + 1 \in 1 .. Len(u)
    BY <1>5
  <2>2. CASE i = 1
    BY <1>6, <2>2
  <2>3. CASE i = 2
    <3>1. (2 + 1) - 2 = 1 /\ 2 + 1 # 1 /\ 2 + 1 # 2
      OBVIOUS
    <3>2. 1 \in 1 .. Len(t) /\ u[i + 1] = t[1]
      BY <1>7, <2>1, <2>3, <3>1
    <3>3. t # <<>>
      BY <3>2
    <3> QED BY <1>1, <1>9, <3>2, <3>3
  <2>4. CASE i > 2
    <3>1. i - 2 \in 1 .. Len(t) - 1 /\ (i + 1) - 2 = (i - 2) + 1 /\ i # 1 /\ i # 2 /\ i + 1 # 1 /\ i + 1 # 2
      BY <1>5, <2>4
    <3>2. u[i] = t[i - 2] /\ u[i + 1] = t[(i - 2) + 1]
      BY <1>7, <2>1, <3>1
    <3> QED BY <1>1, <1>9, <3>1, <3>2 DEF FlatSeq
  <2> QED BY <2>2, <2>3, <2>4
<1>10. FlatSeq(u)
  BY <1>5, <1>8, <1>9 DEF FlatSeq
<1>11. u[1].k \notin Droppers
  BY <1>6 DEF Droppers
<1> QED BY <1>2, <1>10, <1>11 DEF FlatControl, Top

(* A load that pushes an operand nobody owns lets the next task drop it. *)
LEMMA DoLoaded ==
    ASSUME TypeOK, FlatControl, control # <<>>,
           NEW c, NEW x \in MaybeImm, Do(c, Push(Plain(x)), <<>>)
    PROVE  FlatControl'
<1>1. control' = Tail(control) /\ locals' = Append(locals, Plain(x))
  <2>1. Tail(control) \in Seq(Tasks)
    BY TopTypes
  <2>2. <<>> \o Tail(control) = Tail(control)
    BY <2>1, ConcatEmptySeq
  <2> QED BY <2>2 DEF Do, Push
<1>2. FlatSeq(control')
  BY <1>1, FlatTail
<1>3. ~Local(0)'.own
  <2>1. Plain(x) \in Operands /\ ~Plain(x).own
    BY OperandTypes DEF Plain
  <2>2. Len(locals') = Len(locals) + 1 /\ locals'[Len(locals) + 1] = Plain(x) /\ Len(locals) \in Nat
    BY <1>1, <2>1, AppendElements, LenProperties DEF TypeOK
  <2>3. 0 < Len(locals') /\ Len(locals') - 0 = Len(locals) + 1
    BY <2>2
  <2> QED BY <2>1, <2>2, <2>3 DEF Local
<1> QED BY <1>2, <1>3 DEF FlatControl

(* The guard of an action, in a flat body. *)
LEMMA FlatAt ==
    ASSUME TypeOK, FlatControl, NEW k, At(k)
    PROVE  control # <<>> /\ Top \in Tasks /\ Top.k = k /\ FlatTask(Top) /\ HasRegs(code)
  BY AtTypes, FlatTail, CodeHasRegs DEF At, TypeOK

-----------------------------------------------------------------------------
(* Every action of a flat body has one of the effects and keeps the order  *)
(* of the pending tasks.                                                   *)

(* A step that leaves the operands alone and pushes simple tasks. *)
LEMMA FlatQuiet ==
    ASSUME TypeOK, FlatControl, control # <<>>, Top.k # "LoadPlace",
           NEW c, NEW tasks, Do(c, locals, tasks), SameRegs(code, c), Simples(tasks)
    PROVE  Effect /\ FlatControl'
  BY DoKeeps, DoSimple

(* One that frees the operand on top. *)
LEMMA FlatFrees ==
    ASSUME TypeOK, FlatControl, control # <<>>, Top.k # "LoadPlace",
           NEW c, NEW tasks, Do(FreeLocal(c, Local(0)), Pop(1), tasks), SameRegs(code, c), Simples(tasks)
    PROVE  Effect /\ FlatControl'
  BY DoFrees, DoSimple DEF SameRegs

(* The ends of a body and the loops. *)
LEMMA FlatLoops ==
    ASSUME Flat, TypeOK, FlatControl, If \/ While \/ For \/ ForTop \/ DoWhile \/ LoopEnd
    PROVE  Effect /\ FlatControl'
<1>0. HasRegs(code) /\ SameRegs(code, code)
  BY CodeHasRegs DEF TypeOK, SameRegs
<1>1. CASE If
  <2> DEFINE b == [k |-> "IfBranch", st |-> SaveRegs(code), body |-> Top.s.body, orelse |-> Top.s.orelse]
  <2>1. At("Stmt") /\ Top.s.k = "if" /\ Do(code, locals, <<Expr(Top.s.c), b>>)
    BY <1>1 DEF If, AtStmt
  <2>2. control # <<>> /\ Top.k = "Stmt" /\ Top.s.orelse = <<>>
    BY <2>1, FlatAt, TaskFields DEF Flat, FlatOver
  <2>3. Simples(<<Expr(Top.s.c), b>>)
    <3>1. FlatTask(b) /\ b.k \notin Droppers
      BY <2>2 DEF FlatTask, Scopes, Droppers
    <3>2. FlatTask(Expr(Top.s.c)) /\ Expr(Top.s.c).k \notin Droppers
      BY SimpleKind DEF Expr
    <3> HIDE DEF b
    <3> QED BY <3>1, <3>2, SimplesTwo
  <2> QED BY <1>0, <2>1, <2>2, <2>3, FlatQuiet
<1>2. ASSUME NEW cond, NEW body, NEW update, Loop(cond, body, update),
             control # <<>>, Top.k \in {"Stmt", "ForTop"}
      PROVE  Effect /\ FlatControl'
  <2> DEFINE b == [k |-> "LoopBranch", top |-> FollowingInstr(code, 0), body |-> body, update |-> update]
  <2>1. Do(code, locals, <<Expr(cond), b>>)
    BY <1>2 DEF Loop
  <2>2. Simples(<<Expr(cond), b>>)
    <3>1. b.k \in {"LoopBranch", "DoBranch"} /\ Expr(cond).k = "Expr"
      BY DEF Expr
    <3> HIDE DEF b
    <3>2. FlatTask(b) /\ b.k \notin Droppers /\ FlatTask(Expr(cond)) /\ Expr(cond).k \notin Droppers
      BY <3>1, SimpleKind
    <3> QED BY <3>2, SimplesTwo
  <2> QED BY <1>0, <1>2, <2>1, <2>2, FlatQuiet
<1>3. CASE While
  BY <1>2, <1>3, FlatAt DEF While, AtStmt
<1>4. CASE For
  <2> DEFINE b == [k |-> "ForTop", s |-> Top.s]
  <2>1. At("Stmt") /\ Top.s.k = "for" /\ Do(code, locals, Simple(Top.s.init) \o <<b>>)
    BY <1>4 DEF For, AtStmt
  <2>2. control # <<>> /\ Top.k = "Stmt" /\ Top.s \in Stmts
    BY <2>1, FlatAt, TaskFields
  <2>3. Simples(Simple(Top.s.init))
    BY <2>1, <2>2, StmtFields, SimplesOf
  <2>4. Simples(<<b>>)
    <3>1. FlatTask(b) /\ b.k \notin Droppers
      BY DEF FlatTask, Scopes, Droppers
    <3> HIDE DEF b
    <3> QED BY <3>1, SimplesOne
  <2>5. Simples(Simple(Top.s.init) \o <<b>>)
    BY <2>3, <2>4, SimplesConcat
  <2> QED BY <1>0, <2>1, <2>2, <2>5, FlatQuiet
<1>5. CASE ForTop
  <2> DEFINE s == Top.s
             b == [k |-> "LoopEnd", top |-> FollowingInstr(code, 0), branch |-> <<>>]
             tasks == Body(s.body) \o Simple(s.update) \o <<b>>
  <2>1. control # <<>> /\ Top.k = "ForTop" /\ s \in Stmts /\ s.k = "for"
    BY <1>5, FlatAt, TaskFields DEF ForTop
  <2>2. CASE s.cond # <<>>
    BY <1>2, <1>5, <2>1, <2>2 DEF ForTop
  <2>3. CASE s.cond = <<>>
    <3>1. Do(code, locals, tasks)
      BY <1>5, <2>3 DEF ForTop
    <3>2. Simples(Body(s.body)) /\ Simples(Simple(s.update))
      BY <2>1, StmtFields, SimplesOf
    <3>3. Simples(<<b>>)
      <4>1. FlatTask(b) /\ b.k \notin Droppers
        BY DEF FlatTask, Scopes, Droppers
      <4> HIDE DEF b
      <4> QED BY <4>1, SimplesOne
    <3>4. Simples(tasks)
      BY <3>2, <3>3, SimplesConcat
    <3> QED BY <1>0, <2>1, <3>1, <3>4, FlatQuiet
  <2> QED BY <2>2, <2>3
<1>6. CASE DoWhile
  <2> DEFINE b == [k |-> "DoBranch", top |-> FollowingInstr(code, 0)]
             end == <<Expr(Top.s.c), b>>
  <2>1. At("Stmt") /\ Top.s.k = "dowhile" /\ Do(code, locals, Body(Top.s.body) \o end)
    BY <1>6 DEF DoWhile, AtStmt
  <2>2. control # <<>> /\ Top.k = "Stmt" /\ Top.s \in Stmts
    BY <2>1, FlatAt, TaskFields
  <2>3. Simples(Body(Top.s.body))
    BY <2>1, <2>2, StmtFields, SimplesOf
  <2>4. Simples(end)
    <3>1. b.k \in {"LoopBranch", "DoBranch"} /\ Expr(Top.s.c).k = "Expr"
      BY DEF Expr
    <3> HIDE DEF b
    <3>2. FlatTask(b) /\ b.k \notin Droppers /\ FlatTask(Expr(Top.s.c)) /\ Expr(Top.s.c).k \notin Droppers
      BY <3>1, SimpleKind
    <3> QED BY <3>2, SimplesTwo
  <2>5. Simples(Body(Top.s.body) \o end)
    BY <2>3, <2>4, SimplesConcat
  <2> HIDE DEF end
  <2> QED BY <1>0, <2>1, <2>2, <2>5, FlatQuiet
<1>7. CASE LoopEnd
  <2> DEFINE c == Emit(code, Jump(Top.top))
             d == IF Top.branch = <<>> THEN c ELSE SetLabel(c, Top.branch[1], FollowingInstr(c, 0))
  <2>1. At("LoopEnd") /\ Do(d, locals, <<>>)
    BY <1>7 DEF LoopEnd
  <2>2. control # <<>> /\ Top.k = "LoopEnd"
    BY <2>1, FlatAt
  <2>3. SameRegs(code, c) /\ HasRegs(c)
    BY <1>0, KeepRegs DEF SameRegs
  <2>4. SameRegs(c, SetLabel(c, Top.branch[1], FollowingInstr(c, 0)))
    BY <2>3, KeepRegs
  <2>5. SameRegs(code, d)
    BY <2>3, <2>4, SameRegsTrans
  <2>6. Simples(<<>>)
    BY SimplesNone
  <2> HIDE DEF d
  <2> QED BY <2>1, <2>2, <2>5, <2>6, FlatQuiet
<1> QED BY <1>1, <1>3, <1>4, <1>5, <1>6, <1>7

(* The end of a then-body, and the tests of the conditions. *)
LEMMA FlatBranches ==
    ASSUME Flat, TypeOK, FlatControl, IfBranch \/ ThenEnd \/ LoopBranch \/ DoBranch
    PROVE  Effect /\ FlatControl'
<1>0. HasRegs(code) /\ SameRegs(code, code)
  BY CodeHasRegs DEF TypeOK, SameRegs
<1>1. Simples(<<>>)
  BY SimplesNone
<1>2. CASE IfBranch
  <2> DEFINE c == Emit(code, Branch(Local(0).mi, FollowingInstr(code, 1), 0))
             b == [k |-> "ThenEnd", st |-> Top.st, orelse |-> Top.orelse, branch |-> EmitLabel(code)]
  <2>1. At("IfBranch") /\ Do(FreeLocal(c, Local(0)), Pop(1), Body(Top.body) \o <<b>>)
    BY <1>2 DEF IfBranch
  <2>2. control # <<>> /\ Top.k = "IfBranch" /\ FlatTask(Top) /\ Top.body \in Seq(Stmts)
    BY <2>1, FlatAt, TaskFields
  <2>3. Top.orelse = <<>>
    BY <2>2 DEF FlatTask
  <2>4. Simples(<<b>>)
    <3>1. FlatTask(b) /\ b.k \notin Droppers
      BY <2>3 DEF FlatTask, Scopes, Droppers
    <3> HIDE DEF b
    <3> QED BY <3>1, SimplesOne
  <2>5. Simples(Body(Top.body) \o <<b>>)
    BY <2>2, <2>4, SimplesOf, SimplesConcat
  <2>6. SameRegs(code, c)
    BY <1>0, KeepRegs
  <2> HIDE DEF c, b
  <2> QED BY <2>1, <2>2, <2>5, <2>6, FlatFrees
<1>3. CASE ThenEnd
  <2> DEFINE c == SetLabel(code, Top.branch, FollowingInstr(code, 0))
  <2>1. At("ThenEnd") /\ control # <<>> /\ Top.k = "ThenEnd" /\ FlatTask(Top)
    BY <1>3, FlatAt DEF ThenEnd
  <2>2. Top.orelse = <<>>
    BY <2>1 DEF FlatTask
  <2>3. Do(c, locals, <<>>)
    BY <1>3, <2>2 DEF ThenEnd
  <2>4. SameRegs(code, c)
    BY <1>0, KeepRegs
  <2> HIDE DEF c
  <2> QED BY <1>1, <2>1, <2>3, <2>4, FlatQuiet
<1>4. CASE LoopBranch
  <2> DEFINE c == Emit(code, Branch(Local(0).mi, FollowingInstr(code, 1), 0))
             b == [k |-> "LoopEnd", top |-> Top.top, branch |-> <<EmitLabel(code)>>]
             tasks == Body(Top.body) \o Simple(Top.update) \o <<b>>
  <2>1. At("LoopBranch") /\ Do(FreeLocal(c, Local(0)), Pop(1), tasks)
    BY <1>4 DEF LoopBranch
  <2>2. control # <<>> /\ Top.k = "LoopBranch" /\ Top.body \in Seq(Stmts) /\ Top.update \in Seq(Stmts)
    BY <2>1, FlatAt, TaskFields
  <2>3. Simples(<<b>>)
    <3>1. FlatTask(b) /\ b.k \notin Droppers
      BY DEF FlatTask, Scopes, Droppers
    <3> HIDE DEF b
    <3> QED BY <3>1, SimplesOne
  <2>4. Simples(tasks)
    BY <2>2, <2>3, SimplesOf, SimplesConcat
  <2>5. SameRegs(code, c)
    BY <1>0, KeepRegs
  <2> HIDE DEF c, tasks
  <2> QED BY <2>1, <2>2, <2>4, <2>5, FlatFrees
<1>5. CASE DoBranch
  <2> DEFINE c == Emit(code, Branch(Local(0).mi, Top.top, FollowingInstr(code, 1)))
  <2>1. At("DoBranch") /\ Do(FreeLocal(c, Local(0)), Pop(1), <<>>)
    BY <1>5 DEF DoBranch
  <2>2. control # <<>> /\ Top.k = "DoBranch"
    BY <2>1, FlatAt
  <2>3. SameRegs(code, c)
    BY <1>0, KeepRegs
  <2> HIDE DEF c
  <2> QED BY <1>1, <2>1, <2>2, <2>3, FlatFrees
<1> QED BY <1>2, <1>3, <1>4, <1>5

(* Where an operand's value is emitted, or a register is taken for it. *)
LEMMA FlatOperands ==
    ASSUME Flat, TypeOK, FlatControl, ExprStmt \/ FreeTop \/ LowerNode \/ AtomInto
    PROVE  Effect /\ FlatControl'
<1>0. HasRegs(code) /\ SameRegs(code, code)
  BY CodeHasRegs DEF TypeOK, SameRegs
<1>1. CASE ExprStmt
  <2>1. At("Stmt") /\ Do(code, locals, <<Expr(Top.s.e), Free>>)
    BY <1>1 DEF ExprStmt, AtStmt
  <2>2. control # <<>> /\ Top.k = "Stmt"
    BY <2>1, FlatAt
  <2>3. Expr(Top.s.e).k = "Expr" /\ Free.k = "Free"
    BY DEF Expr, Free
  <2>4. Simples(<<Expr(Top.s.e), Free>>)
    BY <2>3, SimpleKind, SimplesTwo
  <2> QED BY <1>0, <2>1, <2>2, <2>4, FlatQuiet
<1>2. CASE FreeTop
  <2>1. At("Free") /\ Do(FreeLocal(code, Local(0)), Pop(1), <<>>)
    BY <1>2 DEF FreeTop
  <2>2. control # <<>> /\ Top.k = "Free"
    BY <2>1, FlatAt
  <2> QED BY <1>0, <2>1, <2>2, SimplesNone, FlatFrees
<1>3. CASE LowerNode
  <2> DEFINE r == NextReg(code)
             d == AllocReg(code)
  <2>1. At("Expr") /\ Do(d, Append(locals, Own(r)), <<Into(Top.e, r)>>)
    BY <1>3 DEF LowerNode, Push
  <2>2. control # <<>> /\ Top.k = "Expr"
    BY <2>1, FlatAt
  <2>3. CanAlloc(code)
    BY <2>1, <2>2 DEF Do, Panics, Allocates
  <2>4. SameRegs(d, d)
    <3>1. HasRegs(d)
      BY <2>3, AllocProperties, CodeHasRegs DEF TypeOK
    <3> QED BY <3>1 DEF SameRegs
  <2>5. Into(Top.e, r).k = "Into"
    BY DEF Into
  <2>6. Simples(<<Into(Top.e, r)>>)
    BY <2>5, SimpleKind, SimplesOne
  <2>7. Effect
    BY <2>1, <2>3, <2>4, HeldIsHeldOf, DoTakes DEF TypeOK
  <2>8. FlatControl'
    BY <2>1, <2>2, <2>6, DoSimple
  <2> QED BY <2>7, <2>8
<1>4. CASE AtomInto
  <2>1. At("Into") /\ Top.e.k = "atom"
    BY <1>4 DEF AtomInto, AtInto
  <2>2. control # <<>> /\ Top.k = "Into" /\ Top.e \in Exprs
    BY <2>1, FlatAt, TaskFields
  <2>3. PICK slot \in Slots(Top.e.a) :
           LET x == AtomMi(code, Top.e.a, Top.dest, slot)
           IN  Do(IF x.mi = Reg(Top.dest) THEN x.code ELSE Emit(x.code, Unary("Copy", Top.dest, x.mi)),
                  locals, <<>>)
    BY <1>4 DEF AtomInto
  <2> DEFINE x == AtomMi(code, Top.e.a, Top.dest, slot)
             i == Unary("Copy", Top.dest, x.mi)
             c == IF x.mi = Reg(Top.dest) THEN x.code ELSE Emit(x.code, i)
  <2>4. Top.e.a \in Atoms /\ Top.e.a.k # "todo"
    BY <2>1, <2>2, <2>3, ExprFields DEF Do, Panics
  <2>5. SameRegs(code, x.code) /\ HasRegs(x.code)
    BY <1>0, <2>4, AtomRegs DEF SameRegs
  <2>6. SameRegs(x.code, Emit(x.code, i))
    BY <2>5, KeepRegs
  <2>7. Do(c, locals, <<>>)
    BY <2>3
  <2> HIDE DEF x, i
  <2>8. SameRegs(code, c)
    BY <2>5, <2>6, SameRegsTrans
  <2> HIDE DEF c
  <2> QED BY <2>2, <2>7, <2>8, SimplesNone, FlatQuiet
<1> QED BY <1>1, <1>2, <1>3, <1>4

(* An atom: its register is kept, or given back at once. *)
LEMMA FlatAtom ==
    ASSUME Flat, TypeOK, FlatControl, LowerAtom
    PROVE  Effect /\ FlatControl'
<1> DEFINE r == NextReg(code)
           d == AllocReg(code)
<1>1. At("Expr") /\ Top.e.k = "atom"
  BY DEF LowerAtom
<1>2. control # <<>> /\ Top.k = "Expr" /\ Top.e \in Exprs
  BY <1>1, FlatAt, TaskFields
<1>3. PICK slot \in Slots(Top.e.a) :
         LET x == AtomMi(d, Top.e.a, r, slot)
         IN  IF x.mi.k = "Reg" THEN Do(x.code, Push(Own(r)), <<>>)
                               ELSE Do(FreeReg(x.code, r), Push(Plain(x.mi)), <<>>)
  BY DEF LowerAtom
<1> DEFINE x == AtomMi(d, Top.e.a, r, slot)
<1>4. ~Panics(Top)
  BY <1>3 DEF Do
<1>5. CanAlloc(code) /\ Top.e.a \in Atoms /\ Top.e.a.k # "todo"
  BY <1>1, <1>2, <1>4, ExprFields DEF Panics, Allocates
<1>6. d \in CodeType /\ r \in Registers /\ HasRegs(d)
  BY <1>5, AllocProperties, CodeHasRegs DEF TypeOK, Registers
<1>7. SameRegs(d, x.code)
  BY <1>5, <1>6, AtomRegs
<1>8. x.mi \in MaybeImm
  <2>1. Top.e.a.k \in {"cnt", "regex"} => slot \in ConstSlots(d, Top.e.a.v)
    <3>1. d.consts = code.consts
      BY DEF AllocReg, CodeType, TypeOK
    <3> QED BY <1>3, <3>1 DEF Slots, ConstSlots
  <2> QED BY <1>5, <1>6, <2>1, AtomMiTypes
<1>9. CASE x.mi.k = "Reg"
  <2>1. Do(x.code, Append(locals, Own(r)), <<>>)
    BY <1>3, <1>9 DEF Push
  <2> HIDE DEF x
  <2>2. Effect
    BY <1>5, <1>7, <2>1, HeldIsHeldOf, DoTakes DEF TypeOK
  <2> QED BY <1>2, <2>1, <2>2, SimplesNone, DoSimple
<1>10. CASE x.mi.k # "Reg"
  <2>1. Do(FreeReg(x.code, r), Push(Plain(x.mi)), <<>>)
    BY <1>3, <1>10
  <2>2. Plain(x.mi) \in Operands /\ ~Plain(x.mi).own
    BY <1>8, OperandTypes DEF Plain
  <2>3. Held' = Held /\ code' = FreeReg(x.code, r)
    BY <2>1, <2>2, HeldPush, HeldIsHeldOf, DoRegs DEF Push, TypeOK
  <2> HIDE DEF x, d, r
  <2>4. SameRegs(FreeReg(d, r), FreeReg(x.code, r))
    BY <1>6, <1>7 DEF SameRegs, HasRegs, FreeReg
  <2>5. Effect
    BY <1>5, <2>3, <2>4 DEF Effect, Borrowed, d, r
  <2> QED BY <1>2, <2>1, <2>5, SimplesNone, DoSimple
<1> QED BY <1>9, <1>10

(* The operators. *)
LEMMA FlatOperators ==
    ASSUME Flat, TypeOK, FlatControl, UnaryInto \/ UnaryEmit \/ BinaryInto \/ BinaryEmit
    PROVE  Effect /\ FlatControl'
<1>0. HasRegs(code) /\ SameRegs(code, code)
  BY CodeHasRegs DEF TypeOK, SameRegs
<1>1. CASE UnaryInto
  <2> DEFINE a == Expr(Top.e.e)
             b == [k |-> "UnaryEmit", op |-> Top.e.op, dest |-> Top.dest]
  <2>1. At("Into") /\ Do(code, locals, <<a, b>>)
    BY <1>1 DEF UnaryInto, AtInto
  <2>2. control # <<>> /\ Top.k = "Into"
    BY <2>1, FlatAt
  <2>3. a.k = "Expr" /\ b.k = "UnaryEmit"
    BY DEF Expr
  <2> HIDE DEF a, b
  <2>4. Simples(<<a, b>>)
    BY <2>3, SimpleKind, SimplesTwo
  <2> QED BY <1>0, <2>1, <2>2, <2>4, FlatQuiet
<1>2. CASE UnaryEmit
  <2> DEFINE c == Emit(code, Unary(Top.op, Top.dest, Local(0).mi))
  <2>1. At("UnaryEmit") /\ Do(FreeLocal(c, Local(0)), Pop(1), <<>>)
    BY <1>2 DEF UnaryEmit
  <2>2. control # <<>> /\ Top.k = "UnaryEmit"
    BY <2>1, FlatAt
  <2>3. SameRegs(code, c)
    BY <1>0, KeepRegs
  <2> HIDE DEF c
  <2> QED BY <2>1, <2>2, <2>3, SimplesNone, FlatFrees
<1>3. CASE BinaryInto
  <2> DEFINE a == Expr(Top.e.l)
             b == Expr(Top.e.r)
             c == [k |-> "BinaryEmit", op |-> Top.e.op, dest |-> Top.dest]
  <2>1. At("Into") /\ Do(code, locals, <<a, b, c>>)
    BY <1>3 DEF BinaryInto, AtInto
  <2>2. control # <<>> /\ Top.k = "Into"
    BY <2>1, FlatAt
  <2>3. a.k = "Expr" /\ b.k = "Expr" /\ c.k = "BinaryEmit"
    BY DEF Expr
  <2> HIDE DEF a, b, c
  <2>4. Simples(<<a, b, c>>)
    <3>1. /\ FlatTask(a) /\ a.k \notin Droppers /\ FlatTask(b) /\ b.k \notin Droppers
          /\ FlatTask(c) /\ c.k \notin Droppers
      BY <2>3, SimpleKind
    <3> QED BY <3>1, SimplesShort
  <2> QED BY <1>0, <2>1, <2>2, <2>4, FlatQuiet
<1>4. CASE BinaryEmit
  <2> DEFINE c == Emit(code, Binary(Top.op, Top.dest, Local(1).mi, Local(0).mi))
             d == FreeLocal(FreeLocal(c, Local(1)), Local(0))
  <2>1. At("BinaryEmit") /\ Do(d, Pop(2), <<>>)
    BY <1>4 DEF BinaryEmit
  <2>2. control # <<>> /\ Top.k = "BinaryEmit"
    BY <2>1, FlatAt
  <2>3. SameRegs(code, c) /\ HasRegs(c)
    BY <1>0, KeepRegs DEF SameRegs
  <2> HIDE DEF c
  <2>4. Effect
    BY <2>1, <2>3, DoFreesTwo
  <2> HIDE DEF d
  <2> QED BY <2>1, <2>2, <2>4, SimplesNone, DoSimple
<1> QED BY <1>1, <1>2, <1>3, <1>4

(* Assignments: the register for the loaded place is taken before the      *)
(* load, and the operand the load gives is dropped.                        *)
LEMMA FlatAssign ==
    ASSUME Flat, TypeOK, FlatControl, AssignInto \/ AssignVal \/ AssignEmit
    PROVE  Effect /\ FlatControl'
<1>0. HasRegs(code) /\ SameRegs(code, code)
  BY CodeHasRegs DEF TypeOK, SameRegs
<1>1. CASE AssignInto
  <2> DEFINE a == Expr(Top.e.e)
             b == [k |-> "AssignVal", op |-> Top.e.op, p |-> Top.e.p, dest |-> Top.dest]
  <2>1. At("Into") /\ Top.e.k = "assign" /\ Do(code, locals, <<a, b>>)
    BY <1>1 DEF AssignInto, AtInto
  <2>2. control # <<>> /\ Top.k = "Into" /\ Top.e \in Exprs
    BY <2>1, FlatAt, TaskFields
  <2>3. Top.e.p.k \notin Indexed
    BY <2>1, <2>2 DEF Flat, FlatOver
  <2>4. FlatTask(a) /\ a.k \notin Droppers
    BY SimpleKind DEF Expr
  <2>5. FlatTask(b) /\ b.k \notin Droppers
    BY <2>3 DEF FlatTask, Scopes, Droppers
  <2> HIDE DEF a, b
  <2>6. Simples(<<a, b>>)
    BY <2>4, <2>5, SimplesTwo
  <2> QED BY <1>0, <2>1, <2>2, <2>6, FlatQuiet
<1>2. CASE AssignVal
  <2>1. At("AssignVal") /\ control # <<>> /\ Top.k = "AssignVal" /\ FlatTask(Top)
    BY <1>2, FlatAt DEF AssignVal
  <2>2. Top.p.k \notin Indexed
    BY <2>1 DEF FlatTask
  <2>3. CASE Top.op = "Set"
    <3> DEFINE a == StorePlace(Top.p, Top.dest, Local(0).mi)
    <3>1. Do(code, locals, <<a, Free>>)
      BY <1>2, <2>3 DEF AssignVal
    <3>2. FlatTask(a) /\ a.k \notin Droppers
      BY <2>2 DEF FlatTask, Scopes, Droppers, StorePlace
    <3>3. FlatTask(Free) /\ Free.k \notin Droppers
      BY SimpleKind DEF Free
    <3> HIDE DEF a
    <3>4. Simples(<<a, Free>>)
      BY <3>2, <3>3, SimplesTwo
    <3> QED BY <1>0, <2>1, <3>1, <3>4, FlatQuiet
  <2>4. CASE Top.op # "Set"
    <3> DEFINE r == NextReg(code)
               d == AllocReg(code)
               a == LoadPlace(Top.p, r)
               b == [k |-> "AssignEmit", op |-> Top.op, p |-> Top.p, dest |-> Top.dest]
    <3>1. Do(d, Append(locals, Own(r)), <<a, b>>)
      BY <1>2, <2>4 DEF AssignVal, Push
    <3>2. CanAlloc(code)
      BY <2>1, <2>4, <3>1 DEF Do, Panics, Allocates
    <3>3. SameRegs(d, d)
      <4>1. HasRegs(d)
        BY <3>2, AllocProperties, CodeHasRegs DEF TypeOK
      <4> QED BY <4>1 DEF SameRegs
    <3>4. Effect
      BY <3>1, <3>2, <3>3, HeldIsHeldOf, DoTakes DEF TypeOK
    <3>5. FlatTask(a) /\ a.k = "LoadPlace" /\ FlatTask(b)
      BY <2>2 DEF FlatTask, Scopes, Droppers, LoadPlace
    <3> HIDE DEF a, b, d
    <3>6. FlatControl'
      BY <2>1, <3>1, <3>5, DoLoad
    <3> QED BY <3>4, <3>6
  <2> QED BY <2>3, <2>4
<1>3. CASE AssignEmit
  <2> DEFINE c == Emit(code, Binary(Top.op, Top.dest, Local(0).mi, Local(2).mi))
             a == StorePlace(Top.p, Top.dest, Reg(Top.dest))
  <2>1. At("AssignEmit") /\ Do(c, Pop(1), <<a, Free, Free>>)
    BY <1>3 DEF AssignEmit
  <2>2. control # <<>> /\ Top.k = "AssignEmit" /\ FlatTask(Top)
    BY <2>1, FlatAt
  <2>3. Top.p.k \notin Indexed /\ ~Local(0).own
    BY <2>2 DEF FlatTask, FlatControl, Droppers
  <2>4. FlatTask(a) /\ a.k \notin Droppers /\ FlatTask(Free) /\ Free.k \notin Droppers
    BY <2>3 DEF FlatTask, Scopes, Droppers, StorePlace, Free
  <2>5. SameRegs(code, c)
    BY <1>0, KeepRegs
  <2> HIDE DEF a, c
  <2>6. Simples(<<a, Free, Free>>)
    BY <2>4, SimplesShort
  <2>7. Effect
    BY <2>1, <2>3, <2>5, DoKeeps
  <2> QED BY <2>1, <2>2, <2>6, <2>7, DoSimple
<1> QED BY <1>1, <1>2, <1>3

(* Increments. *)
LEMMA FlatIncr ==
    ASSUME Flat, TypeOK, FlatControl, IncrInto \/ Incr
    PROVE  Effect /\ FlatControl'
<1>0. HasRegs(code) /\ SameRegs(code, code)
  BY CodeHasRegs DEF TypeOK, SameRegs
<1>1. CASE IncrInto
  <2> DEFINE a == LoadPlace(Top.e.p, Top.dest)
             b == [k |-> "Incr", op |-> Top.e.op, post |-> Top.e.post, p |-> Top.e.p, dest |-> Top.dest]
  <2>1. At("Into") /\ Top.e.k = "incr" /\ Do(code, locals, <<a, b>>)
    BY <1>1 DEF IncrInto, AtInto
  <2>2. control # <<>> /\ Top.k = "Into" /\ Top.e \in Exprs
    BY <2>1, FlatAt, TaskFields
  <2>3. Top.e.p.k \notin Indexed
    BY <2>1, <2>2 DEF Flat, FlatOver
  <2>4. FlatTask(a) /\ a.k = "LoadPlace" /\ FlatTask(b)
    BY <2>3 DEF FlatTask, Scopes, Droppers, LoadPlace
  <2> HIDE DEF a, b
  <2>5. FlatControl'
    BY <2>1, <2>2, <2>4, DoLoad
  <2>6. Effect
    BY <1>0, <2>1, DoKeeps
  <2> QED BY <2>5, <2>6
<1>2. CASE Incr
  <2>1. At("Incr") /\ control # <<>> /\ Top.k = "Incr" /\ FlatTask(Top)
    BY <1>2, FlatAt DEF Incr
  <2>2. Top.p.k \notin Indexed /\ ~Local(0).own
    BY <2>1 DEF FlatTask, FlatControl, Droppers
  <2> DEFINE val == Local(0).mi
  <2>3. CASE ~Top.post
    <3> DEFINE c == Emit(code, Binary(Top.op, Top.dest, val, Imm(1)))
               a == StorePlace(Top.p, Top.dest, Reg(Top.dest))
    <3>1. Do(c, Pop(1), <<a>>)
      BY <1>2, <2>3 DEF Incr
    <3>2. FlatTask(a) /\ a.k \notin Droppers
      BY <2>2 DEF FlatTask, Scopes, Droppers, StorePlace
    <3>3. SameRegs(code, c)
      BY <1>0, KeepRegs
    <3> HIDE DEF a, c
    <3>4. Simples(<<a>>)
      BY <3>2, SimplesOne
    <3>5. Effect
      BY <2>2, <3>1, <3>3, DoKeeps
    <3> QED BY <2>1, <3>1, <3>4, <3>5, DoSimple
  <2>4. CASE Top.post
    <3> DEFINE c   == Emit(code, Binary("Add", Top.dest, val, Imm(0)))
               tmp == NextReg(c)
               d   == Emit(AllocReg(c), Binary(Top.op, tmp, val, Imm(1)))
               a   == StorePlace(Top.p, tmp, Reg(tmp))
    <3>1. Do(d, Append(Pop(1), Own(tmp)), <<a, Free>>)
      BY <1>2, <2>4 DEF Incr
    <3>2. FlatTask(a) /\ a.k \notin Droppers /\ FlatTask(Free) /\ Free.k \notin Droppers
      BY <2>2 DEF FlatTask, Scopes, Droppers, StorePlace, Free
    <3>3. CanAlloc(code)
      BY <2>1, <2>4, <3>1 DEF Do, Panics, Allocates
    <3>4. SameRegs(code, c) /\ HasRegs(c)
      BY <1>0, KeepRegs DEF SameRegs
    <3>5. tmp = NextReg(code) /\ SameRegs(AllocReg(code), AllocReg(c)) /\ HasRegs(AllocReg(c))
      <4> HIDE DEF c
      <4> QED BY <1>0, <3>4 DEF NextReg, AllocReg, SameRegs, HasRegs
    <3>6. SameRegs(AllocReg(c), d)
      BY <3>5, KeepRegs
    <3>7. SameRegs(AllocReg(code), d)
      <4> HIDE DEF c, d
      <4> QED BY <3>5, <3>6, SameRegsTrans
    <3>8. Pop(1) \in Seq(Operands)
      BY LocalTypes DEF TypeOK
    <3>9. HeldOf(Pop(1)) = Held
      BY <2>2, HeldDropped
    <3> HIDE DEF a, c, d, tmp
    <3>10. Simples(<<a, Free>>)
      BY <3>2, SimplesTwo
    <3>11. Effect
      BY <3>1, <3>3, <3>5, <3>7, <3>8, <3>9, DoTakes
    <3> QED BY <2>1, <3>1, <3>10, <3>11, DoSimple
  <2> QED BY <2>3, <2>4
<1> QED BY <1>1, <1>2

(* Places that are no array elements. *)
LEMMA FlatPlace ==
    ASSUME Flat, TypeOK, FlatControl, LoadScalar \/ StoreScalar \/ StoreRecord \/ RecordEmit
    PROVE  Effect /\ FlatControl'
<1>0. HasRegs(code) /\ SameRegs(code, code)
  BY CodeHasRegs DEF TypeOK, SameRegs
<1>1. CASE LoadScalar
  <2> DEFINE x == ScalarMi(code, Top.p, Top.dest)
  <2>1. At("LoadPlace") /\ Top.p.k \in {"user", "builtin"} /\ Do(x.code, Push(Plain(x.mi)), <<>>)
    BY <1>1 DEF LoadScalar, AtPlace, Scalars
  <2>2. control # <<>> /\ Top.p \in Places /\ Top.dest \in Registers
    BY <2>1, FlatAt, TaskFields
  <2>3. (Top.p.k = "user" => Top.p.id \in Idents) /\ (Top.p.k # "user" => Top.p.n \in Nat)
    BY <2>1, <2>2, PlaceFields
  <2>4. x.mi \in MaybeImm
    BY <2>2, <2>3, ScalarMiTypes DEF TypeOK
  <2>5. SameRegs(code, x.code)
    BY <1>0, ScalarRegs
  <2> HIDE DEF x
  <2>6. Effect
    BY <2>1, <2>4, <2>5, DoKeeps
  <2>7. FlatControl'
    BY <2>1, <2>2, <2>4, DoLoaded
  <2> QED BY <2>6, <2>7
<1>2. CASE StoreScalar
  <2> DEFINE c == RegisterUserVar(code, Top.p.id)
             d == Emit(c, Store("StoreUserScalar", Top.dest, Top.src, UserIndex(c, Top.p.id)))
             e == Emit(code, Store("StoreBuiltinScalar", Top.dest, Top.src, Top.p.n))
  <2>1. At("StorePlace") /\ (Do(d, locals, <<>>) \/ Do(e, locals, <<>>))
    BY <1>2 DEF StoreScalar, AtPlace
  <2>2. control # <<>> /\ Top.k = "StorePlace"
    BY <2>1, FlatAt
  <2>3. SameRegs(code, c) /\ HasRegs(c)
    BY <1>0, KeepRegs DEF SameRegs
  <2>4. SameRegs(c, d) /\ SameRegs(code, e)
    BY <1>0, <2>3, KeepRegs
  <2> HIDE DEF c, d, e
  <2>5. SameRegs(code, d)
    BY <2>3, <2>4, SameRegsTrans
  <2>6. CASE Do(d, locals, <<>>)
    BY <2>2, <2>5, <2>6, SimplesNone, FlatQuiet
  <2>7. CASE Do(e, locals, <<>>)
    BY <2>2, <2>4, <2>7, SimplesNone, FlatQuiet
  <2> QED BY <2>1, <2>6, <2>7
<1>3. CASE StoreRecord
  <2> DEFINE a == Expr(Top.p.e)
             b == [k |-> "RecordEmit", dest |-> Top.dest, src |-> Top.src]
  <2>1. At("StorePlace") /\ Do(code, locals, <<a, b>>)
    BY <1>3 DEF StoreRecord, AtPlace
  <2>2. control # <<>> /\ Top.k = "StorePlace"
    BY <2>1, FlatAt
  <2>3. a.k = "Expr" /\ b.k = "RecordEmit"
    BY DEF Expr
  <2> HIDE DEF a, b
  <2>4. Simples(<<a, b>>)
    BY <2>3, SimpleKind, SimplesTwo
  <2> QED BY <1>0, <2>1, <2>2, <2>4, FlatQuiet
<1>4. CASE RecordEmit
  <2> DEFINE c == Emit(code, Binary("StoreRecord", Top.dest, Local(0).mi, Top.src))
  <2>1. At("RecordEmit") /\ Do(FreeLocal(c, Local(0)), Pop(1), <<>>)
    BY <1>4 DEF RecordEmit
  <2>2. control # <<>> /\ Top.k = "RecordEmit"
    BY <2>1, FlatAt
  <2>3. SameRegs(code, c)
    BY <1>0, KeepRegs
  <2> HIDE DEF c
  <2> QED BY <2>1, <2>2, <2>3, SimplesNone, FlatFrees
<1> QED BY <1>1, <1>2, <1>3, <1>4

(* What no flat body does. *)
LEMMA FlatNever ==
    ASSUME Flat, TypeOK, FlatControl
    PROVE  /\ ~ElseEnd /\ ~Command /\ ~Redirection /\ ~CallEnd
           /\ ~TernaryInto /\ ~TernaryBranch /\ ~TernaryThen /\ ~TernaryElse
           /\ ~LoadIndex /\ ~StoreIndex
<1>1. ASSUME NEW k \in Scopes, At(k) PROVE FALSE
  BY <1>1, FlatAt DEF FlatTask
<1>2. ~ElseEnd /\ ~Redirection /\ ~CallEnd
  BY <1>1 DEF ElseEnd, Redirection, CallEnd, Scopes
<1>3. ~TernaryBranch /\ ~TernaryThen /\ ~TernaryElse
  BY <1>1 DEF TernaryBranch, TernaryThen, TernaryElse, Scopes
<1>4. ~Command
  <2> SUFFICES ASSUME At("Stmt"), Top.s.k = "command" PROVE FALSE
    BY DEF Command, AtStmt
  <2>1. Top.s \in Stmts
    BY FlatAt, TaskFields
  <2> QED BY <2>1 DEF Flat, FlatOver
<1>5. ~TernaryInto
  <2> SUFFICES ASSUME At("Into"), Top.e.k = "ternary" PROVE FALSE
    BY DEF TernaryInto, AtInto
  <2>1. Top.e \in Exprs
    BY FlatAt, TaskFields
  <2> QED BY <2>1 DEF Flat, FlatOver
<1>6. ~LoadIndex /\ ~StoreIndex
  <2> SUFFICES ASSUME NEW k \in {"LoadPlace", "StorePlace"}, At(k), Top.p.k \in Indexed PROVE FALSE
    BY DEF LoadIndex, StoreIndex, AtPlace
  <2> QED BY FlatAt DEF FlatTask
<1> QED BY <1>2, <1>3, <1>4, <1>5, <1>6

(* Every step of a flat body. *)
LEMMA FlatStep ==
    ASSUME Flat, TypeOK, FlatControl, [Next]_vars
    PROVE  Effect /\ FlatControl'
<1>1. CASE LowerStatement
  BY <1>1, FlatLoops, FlatBranches, FlatOperands, FlatNever DEF LowerStatement
<1>2. CASE LowerExpr
  BY <1>2, FlatOperands, FlatAtom, FlatOperators, FlatAssign, FlatIncr, FlatNever DEF LowerExpr
<1>3. CASE LowerPlace
  BY <1>3, FlatPlace, FlatNever DEF LowerPlace
<1>4. CASE UNCHANGED <<code, control, locals>>
  <2>1. SameRegs(code, code)
    BY CodeHasRegs DEF TypeOK, SameRegs
  <2>2. Held' = Held
    BY <1>4, HeldIsHeldOf
  <2>3. FlatControl'
    BY <1>4 DEF FlatControl, FlatSeq, Stream, FlatTask, Top, Local
  <2> QED BY <1>4, <2>1, <2>2, <2>3 DEF Effect, Kept
<1>5. CASE Panic \/ Finish \/ UNCHANGED vars
  BY <1>4, <1>5 DEF Panic, Finish, vars
<1> QED BY <1>1, <1>2, <1>3, <1>5 DEF Next

-----------------------------------------------------------------------------
(* The inductive invariant. *)

PoolInv == TypeOK /\ FlatControl /\ Sound(Held, code.free_regs, code.reg_pointer)

(* The effects keep what is said of the registers. *)
LEMMA EffectSound ==
    ASSUME TypeOK, Effect, Sound(Held, code.free_regs, code.reg_pointer)
    PROVE  Sound(Held, code.free_regs, code.reg_pointer)'
<1> DEFINE h == Held
           f == code.free_regs
           p == code.reg_pointer
<1>0. /\ code \in CodeType /\ HasRegs(code)
      /\ \A r : FreeReg(code, r).free_regs = Append(f, r) /\ FreeReg(code, r).reg_pointer = p
  <2>1. code \in CodeType /\ HasRegs(code)
    BY CodeHasRegs DEF TypeOK
  <2> QED BY <2>1 DEF FreeReg, HasRegs
<1>1. CASE Kept
  BY <1>1 DEF Kept, SameRegs, Sound
<1>2. CASE Obtained
  <2>1. PICK i : i \notin DOMAIN h /\ Held' = With(h, i, NextReg(code))
    BY <1>2 DEF Obtained
  <2>2. code'.free_regs = AllocReg(code).free_regs /\ code'.reg_pointer = AllocReg(code).reg_pointer
    BY <1>2 DEF Obtained, SameRegs
  <2>3. CASE f # <<>>
    <3>1. Sound(With(h, i, f[Len(f)]), Take(f, Len(f) - 1), p)
      BY <2>1, <2>3, SoundReuse
    <3>2. NextReg(code) = f[Len(f)] /\ code'.free_regs = Take(f, Len(f) - 1) /\ code'.reg_pointer = p
      BY <1>0, <2>2, <2>3 DEF NextReg, AllocReg, HasRegs
    <3> QED BY <2>1, <3>1, <3>2 DEF Sound
  <2>4. CASE f = <<>>
    <3>1. Sound(With(h, i, p), f, p + 1)
      BY <2>1, <2>4, SoundFresh
    <3>2. NextReg(code) = p /\ code'.free_regs = f /\ code'.reg_pointer = p + 1
      BY <1>0, <2>2, <2>4 DEF NextReg, AllocReg, HasRegs
    <3> QED BY <2>1, <3>1, <3>2 DEF Sound
  <2> QED BY <2>3, <2>4
<1>3. CASE Given
  <2>1. PICK i \in DOMAIN h : Held' = Without(h, i) /\ SameRegs(FreeReg(code, h[i]), code')
    BY <1>3 DEF Given
  <2>2. code'.free_regs = Append(f, h[i]) /\ code'.reg_pointer = p
    BY <1>0, <2>1 DEF SameRegs
  <2>3. Sound(Without(h, i), Append(f, h[i]), p)
    BY <2>1, SoundGive
  <2> QED BY <2>1, <2>2, <2>3
<1>4. CASE GivenTwo
  <2>1. PICK i, j \in DOMAIN h :
           /\ i # j /\ Held' = Without(Without(h, i), j)
           /\ SameRegs(FreeReg(FreeReg(code, h[j]), h[i]), code')
    BY <1>4 DEF GivenTwo
  <2>2. code'.free_regs = Append(Append(f, h[j]), h[i]) /\ code'.reg_pointer = p
    BY <1>0, <2>1 DEF SameRegs, FreeReg, HasRegs
  <2>3. Sound(Without(h, j), Append(f, h[j]), p)
    BY <2>1, SoundGive
  <2>4. i \in DOMAIN Without(h, j) /\ Without(h, j)[i] = h[i]
    BY <2>1 DEF Without
  <2>5. Sound(Without(Without(h, j), i), Append(Append(f, h[j]), h[i]), p)
    BY <2>3, <2>4, SoundGive
  <2>6. Without(Without(h, j), i) = Without(Without(h, i), j)
    BY DEF Without
  <2> QED BY <2>1, <2>2, <2>5, <2>6
<1>5. CASE Borrowed
  <2>1. /\ code'.free_regs = FreeReg(AllocReg(code), NextReg(code)).free_regs
        /\ code'.reg_pointer = FreeReg(AllocReg(code), NextReg(code)).reg_pointer /\ Held' = h
    BY <1>5 DEF Borrowed, SameRegs
  <2>2. CASE f # <<>>
    <3>1. code'.free_regs = Append(Take(f, Len(f) - 1), f[Len(f)]) /\ code'.reg_pointer = p
      BY <1>0, <2>1, <2>2 DEF FreeReg, AllocReg, NextReg, HasRegs
    <3>2. code'.free_regs = f
      BY <2>2, <3>1, TakeLast DEF Sound
    <3> QED BY <2>1, <3>1, <3>2
  <2>3. CASE f = <<>>
    <3>1. code'.free_regs = Append(f, p) /\ code'.reg_pointer = p + 1
      BY <1>0, <2>1, <2>3 DEF FreeReg, AllocReg, NextReg, HasRegs
    <3>2. code'.free_regs = <<p>>
      BY <2>3, <3>1
    <3>3. Sound(h, <<p>>, p + 1)
      BY <2>3, SoundBorrow
    <3> QED BY <2>1, <3>1, <3>2, <3>3
  <2> QED BY <2>2, <2>3
<1> QED BY <1>1, <1>2, <1>3, <1>4, <1>5 DEF Effect

(* It starts with nothing held. *)
LEMMA PoolInit == ASSUME Init PROVE PoolInv
<1>1. FlatControl
  <2>1. Simples(control)
    BY ProgramsAssumption, SimplesOf DEF Init
  <2>2. FlatSeq(control)
    <3>1. Len(control) \in Nat
      BY <2>1, StreamLength DEF Simples
    <3>2. \A i \in 1 .. Len(control) - 1 : i + 1 \in 1 .. Len(control)
      BY <3>1
    <3> QED BY <2>1, <3>2 DEF Simples, FlatSeq
  <2>3. ~Local(0).own
    <3>1. Len(locals) = 0
      BY DEF Init
    <3> QED BY <3>1 DEF Local, Plain
  <2> QED BY <2>2, <2>3 DEF FlatControl
<1>2. DOMAIN Held = {}
  <2>1. Len(locals) = 0
    BY DEF Init
  <2>2. \A j \in 1 .. 0 : FALSE
    OBVIOUS
  <2> QED BY <2>1, <2>2 DEF Held
<1>3. code.free_regs = <<>> /\ code.reg_pointer = 0
  BY DEF Init, EmptyCode
<1>4. Sound(Held, <<>>, 0)
  <2>1. <<>> \in Seq(Nat) /\ Len(<<>>) = 0 /\ (\A r \in 0 .. 0 - 1 : FALSE) /\ \A r \in 1 .. 0 : FALSE
    OBVIOUS
  <2> HIDE DEF Held
  <2> QED BY <1>2, <2>1 DEF Sound
<1> QED BY <1>1, <1>3, <1>4, InitTypes DEF PoolInv

(* And every step keeps it. *)
LEMMA PoolStep == ASSUME Flat PROVE PoolInv /\ [Next]_vars => PoolInv'
<1> SUFFICES ASSUME PoolInv, [Next]_vars PROVE PoolInv'
  OBVIOUS
<1>1. TypeOK'
  BY StepTypes DEF PoolInv
<1>2. Effect /\ FlatControl'
  BY FlatStep DEF PoolInv
<1>3. Sound(Held, code.free_regs, code.reg_pointer)'
  BY <1>2, EffectSound DEF PoolInv
<1> QED BY <1>1, <1>2, <1>3 DEF PoolInv

(* It is what the three invariants say. *)
LEMMA PoolImplies == PoolInv => OwnersDistinct /\ FreeListSound /\ NoRegisterLost
<1> SUFFICES ASSUME PoolInv PROVE OwnersDistinct /\ FreeListSound /\ NoRegisterLost
  OBVIOUS
<1> DEFINE h == Held
<1>1. /\ \A i \in 1 .. Len(locals) : Owned(i) <=> i \in DOMAIN h
      /\ \A i \in DOMAIN h : i \in 1 .. Len(locals) /\ h[i] = locals[i].mi.n
  BY DEF Held
<1> HIDE DEF h
<1>2. Sound(h, code.free_regs, code.reg_pointer)
  BY DEF PoolInv, h
<1>3. OwnersDistinct
  BY <1>1, <1>2 DEF OwnersDistinct, Sound
<1>4. FreeListSound
  BY <1>1, <1>2 DEF FreeListSound, Sound
<1>5. NoRegisterLost
  BY <1>1, <1>2 DEF NoRegisterLost, Sound
<1> QED BY <1>3, <1>4, <1>5

(* The inductive invariant holds always. *)
LEMMA PoolAlways == ASSUME Flat PROVE Spec => []PoolInv
<1>1. Init => PoolInv
  BY PoolInit
<1>2. PoolInv /\ [Next]_vars => PoolInv'
  BY PoolStep
<1> QED BY <1>1, <1>2, PTL DEF Spec

(* For every program that opens no register scope, whatever the depth of   *)
(* its expressions, and every width: two operands alive at the same time   *)
(* (the lhs and rhs of a binary operator) are in different registers.      *)
THEOREM OwnersAreDistinct == ASSUME Flat PROVE Spec => []OwnersDistinct
<1>1. PoolInv => OwnersDistinct
  BY PoolImplies
<1> QED BY <1>1, PoolAlways, PTL

(* Of the same programs: the free list holds no register twice and none    *)
(* that an operand is in, so alloc_reg gives away none that is in use.     *)
THEOREM FreeListIsSound == ASSUME Flat PROVE Spec => []FreeListSound
<1>1. PoolInv => FreeListSound
  BY PoolImplies
<1> QED BY <1>1, PoolAlways, PTL

(* Of the same programs: no path of the lowering forgets a register it     *)
(* took, so `Leaked register` (lower.rs:615) is not reached.               *)
THEOREM NoRegisterIsLost == ASSUME Flat PROVE Spec => []NoRegisterLost
<1>1. PoolInv => NoRegisterLost
  BY PoolImplies
<1> QED BY <1>1, PoolAlways, PTL

-----------------------------------------------------------------------------
(* The refinement. *)

(* The initial states are the pool's. *)
LEMMA PoolStarts == ASSUME Init PROVE RegisterPool!Init
<1>1. locals = <<>> /\ code.reg_pointer = 0
  BY DEF Init, EmptyCode
<1>2. Held = <<>>
  <2>1. Len(<<>>) = 0 /\ 1 .. 0 = {}
    OBVIOUS
  <2> QED BY <1>1, <2>1 DEF Held
<1> QED BY <1>1, <1>2 DEF RegisterPool!Init

(* Each effect is a step of the pool, or none. *)
LEMMA EffectOfPool ==
    ASSUME TypeOK, Effect, Sound(Held, code.free_regs, code.reg_pointer)
    PROVE  [RegisterPool!Next]_<<Held, code.reg_pointer>>
<1> DEFINE h == Held
           f == code.free_regs
           p == code.reg_pointer
<1>0. /\ code \in CodeType /\ HasRegs(code) /\ p \in 0 .. U8-1 /\ U8 \in Nat \ {0}
      /\ \A r : FreeReg(code, r).free_regs = Append(f, r) /\ FreeReg(code, r).reg_pointer = p
  <2>1. code \in CodeType /\ HasRegs(code)
    BY CodeHasRegs DEF TypeOK
  <2> QED BY <2>1, WidthAssumption DEF FreeReg, HasRegs, CodeType
<1>1. ASSUME CanAlloc(code), f = <<>>
      PROVE  RegisterPool!Taken \subseteq RegisterPool!InUse /\ p < U8 - 1 /\ AllocReg(code).reg_pointer = p + 1
  <2>1. \A r \in 0 .. p - 1 : \E i \in DOMAIN h : h[i] = r
    BY <1>1 DEF Sound
  <2>2. RegisterPool!Taken \subseteq RegisterPool!InUse
    BY <2>1 DEF RegisterPool!Taken, RegisterPool!InUse, RegisterPool!Holding
  <2>3. p + 1 < U8
    BY <1>1 DEF CanAlloc
  <2>4. p < U8 - 1
    BY <1>0, <2>3
  <2>5. AllocReg(code).reg_pointer = p + 1
    BY <1>0, <1>1 DEF AllocReg, HasRegs
  <2> QED BY <2>2, <2>4, <2>5
<1>2. CASE Kept
  BY <1>2 DEF Kept, SameRegs
<1>3. CASE Obtained
  <2>1. PICK i : i \notin DOMAIN h /\ Held' = With(h, i, NextReg(code))
    BY <1>3 DEF Obtained
  <2>2. p' = AllocReg(code).reg_pointer /\ CanAlloc(code)
    BY <1>3 DEF Obtained, SameRegs
  <2>3. i \in DOMAIN Held' \ DOMAIN h
    BY <2>1 DEF With
  <2>4. RegisterPool!Gets(i, NextReg(code))
    BY <2>1 DEF RegisterPool!Gets, RegisterPool!Holding, With
  <2>5. CASE f # <<>>
    <3>1. NextReg(code) = f[Len(f)] /\ p' = p
      BY <1>0, <2>2, <2>5 DEF NextReg, AllocReg, HasRegs
    <3>2. NextReg(code) \in RegisterPool!Taken \ RegisterPool!InUse
      <4>1. Len(f) \in 1 .. Len(f) /\ f[Len(f)] \in Nat
        <5>1. f \in Seq(Nat)
          BY DEF Sound
        <5> QED BY <2>5, <5>1
      <4>2. f[Len(f)] < p /\ \A x \in DOMAIN h : h[x] # f[Len(f)]
        BY <4>1 DEF Sound
      <4>3. f[Len(f)] \in 0 .. p - 1
        BY <1>0, <4>1, <4>2
      <4> QED BY <3>1, <4>2, <4>3 DEF RegisterPool!Taken, RegisterPool!InUse, RegisterPool!Holding
    <3> QED BY <2>3, <2>4, <3>1, <3>2 DEF RegisterPool!Next, RegisterPool!Acquire, RegisterPool!Holding
  <2>6. CASE f = <<>>
    <3>1. NextReg(code) = p
      BY <2>6 DEF NextReg
    <3>2. RegisterPool!Grow
      BY <1>1, <2>2, <2>6 DEF RegisterPool!Grow
    <3> QED BY <2>3, <2>4, <3>1, <3>2 DEF RegisterPool!Next, RegisterPool!Acquire, RegisterPool!Holding
  <2> QED BY <2>5, <2>6
<1>4. CASE Given
  <2>1. PICK i \in DOMAIN h : Held' = Without(h, i) /\ SameRegs(FreeReg(code, h[i]), code')
    BY <1>4 DEF Given
  <2>2. p' = p /\ DOMAIN Held' \subseteq DOMAIN h /\ Held' = [x \in DOMAIN Held' |-> h[x]]
    BY <1>0, <2>1 DEF SameRegs, Without
  <2> QED BY <2>2 DEF RegisterPool!Next, RegisterPool!Release, RegisterPool!Holding
<1>5. CASE GivenTwo
  <2>1. PICK i, j \in DOMAIN h :
           /\ i # j /\ Held' = Without(Without(h, i), j)
           /\ SameRegs(FreeReg(FreeReg(code, h[j]), h[i]), code')
    BY <1>5 DEF GivenTwo
  <2>2. p' = p
    BY <1>0, <2>1 DEF SameRegs, FreeReg, HasRegs
  <2>3. DOMAIN Held' \subseteq DOMAIN h /\ Held' = [x \in DOMAIN Held' |-> h[x]]
    BY <2>1 DEF Without
  <2> QED BY <2>2, <2>3 DEF RegisterPool!Next, RegisterPool!Release, RegisterPool!Holding
<1>6. CASE Borrowed
  <2>1. CanAlloc(code) /\ Held' = h /\ SameRegs(FreeReg(AllocReg(code), NextReg(code)), code')
    BY <1>6 DEF Borrowed
  <2>2. p' = AllocReg(code).reg_pointer
    <3>1. HasRegs(AllocReg(code))
      BY <2>1, AllocProperties, CodeHasRegs DEF TypeOK
    <3> QED BY <2>1, <3>1 DEF SameRegs, FreeReg, HasRegs
  <2>3. CASE f # <<>>
    BY <1>0, <2>1, <2>2, <2>3 DEF AllocReg, HasRegs
  <2>4. CASE f = <<>>
    <3>1. RegisterPool!Grow
      BY <1>1, <2>1, <2>2, <2>4 DEF RegisterPool!Grow
    <3> QED BY <2>1, <3>1 DEF RegisterPool!Next, RegisterPool!Borrow
  <2> QED BY <2>3, <2>4
<1> QED BY <1>2, <1>3, <1>4, <1>5, <1>6 DEF Effect

(* Every step of a flat body is one of the pool. *)
LEMMA PoolRefines ==
    ASSUME Flat, PoolInv, [Next]_vars
    PROVE  [RegisterPool!Next]_(RegisterPool!poolvars)
<1>1. Effect
  BY FlatStep DEF PoolInv
<1>2. [RegisterPool!Next]_<<Held, code.reg_pointer>>
  BY <1>1, EffectOfPool DEF PoolInv
<1> QED BY <1>2 DEF RegisterPool!poolvars

(* The allocator implements the pool: for every flat program and width,    *)
(* whoever asks gets a register nobody holds, and the register file grows  *)
(* only when every register in it is held.                                 *)
THEOREM AllocatorIsPool == ASSUME Flat PROVE Spec => ImplementsPool
<1>1. Init => RegisterPool!Init
  BY PoolStarts
<1>2. PoolInv /\ [Next]_vars => [RegisterPool!Next]_(RegisterPool!poolvars)
  BY PoolRefines
<1> QED BY <1>1, <1>2, PoolAlways, PTL DEF Spec, ImplementsPool, RegisterPool!Spec
=============================================================================
