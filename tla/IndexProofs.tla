---------------------------- MODULE IndexProofs -----------------------------
(***************************************************************************)
(* Indices: every slot of the tables of user variables and constants that  *)
(* the bytecode names is in them, in every program, at every width and     *)
(* whatever slot the hash set of constants answers.                        *)
(*                                                                         *)
(* The argument: code that grows (Grown) keeps an index that was in        *)
(* its table in it, so only what a step adds has to be looked at: the      *)
(* instructions it emits take their indices from interning, from an        *)
(* operand (Local) or from a pending task, and those are in their tables   *)
(* by the same invariant (IndexInv).                                       *)
(*                                                                         *)
(* Registers: the bytecode names none beyond the file the interpreter      *)
(* allocates, in programs that pass no arguments (FileInv, below).         *)
(***************************************************************************)
EXTENDS LoweringProofs

-----------------------------------------------------------------------------
(* An operand, and an instruction, whose indices are in the tables of c.   *)
Interned(c, x) == /\ x.n \in Int
                  /\ x.k = "ImmCnt" => x.n < Len(c.consts)
                  /\ x.k = "ImmUserVar" => x.n < Len(c.user)

UserOps == {"LoadUserScalar", "StoreUserScalar", "LoadUserArray", "StoreUserArray"}

Named(c, i) ==
    /\ {"op", "a", "b", "mem"} \subseteq DOMAIN i
    /\ Interned(c, i.a) /\ Interned(c, i.b) /\ i.mem \in Int
    /\ i.op = "LoadConst" => i.mem < Len(c.consts)
    /\ i.op \in UserOps => i.mem < Len(c.user)

Sound(c) == \A n \in 1 .. Len(c.bc) : Named(c, c.bc[n])

(* What each method of Code is to its result.                              *)
Fine(c, d) == Grown(c, d) /\ (Sound(c) => Sound(d))

LEMMA TablesLater ==
    ASSUME NEW c, NEW d, IsCode(c), Grown(c, d)
    PROVE  /\ Len(c.consts) \in Nat /\ Len(d.consts) \in Nat /\ Len(c.consts) <= Len(d.consts)
           /\ Len(c.user) \in Nat /\ Len(d.user) \in Nat /\ Len(c.user) <= Len(d.user)
  BY StreamLength DEF IsCode, Grown, GrowsInto, Keeps

(* Code that grows keeps the indices of operands and instructions.         *)
LEMMA InternedLater ==
    ASSUME NEW c, NEW d, IsCode(c), Grown(c, d), NEW x, Interned(c, x)
    PROVE  Interned(d, x)
  BY TablesLater DEF Interned

LEMMA NamedLater ==
    ASSUME NEW c, NEW d, IsCode(c), Grown(c, d), NEW i, Named(c, i)
    PROVE  Named(d, i)
<1>1. Interned(d, i.a) /\ Interned(d, i.b)
  BY InternedLater DEF Named
<1>2. \A n \in Int : /\ n < Len(c.consts) => n < Len(d.consts)
                     /\ n < Len(c.user) => n < Len(d.user)
  BY TablesLater
<1> QED BY <1>1, <1>2 DEF Named

(* Labels do not matter.                                                   *)
LEMMA NamedLabels ==
    ASSUME NEW c, NEW i, NEW j, Unlabelled(i) = Unlabelled(j), Named(c, j)
    PROVE  Named(c, i)
<1>1. \A x : DOMAIN Unlabelled(x) = DOMAIN x
  BY DEF Unlabelled
<1>2. \A x, f : f \in {"op", "a", "b", "mem"} /\ f \in DOMAIN x => Unlabelled(x)[f] = x[f]
  BY DEF Unlabelled
<1>3. {"op", "a", "b", "mem"} \subseteq DOMAIN i /\ {"op", "a", "b", "mem"} \subseteq DOMAIN j
  BY <1>1 DEF Named
<1>4. i.op = j.op /\ i.a = j.a /\ i.b = j.b /\ i.mem = j.mem
  BY <1>2, <1>3
<1> QED BY <1>3, <1>4 DEF Named

(* A method that emits nothing.                                            *)
LEMMA FineSilent ==
    ASSUME NEW c, NEW d, IsCode(c), Grown(c, d), Len(d.bc) = Len(c.bc)
    PROVE  Fine(c, d)
<1> SUFFICES ASSUME Sound(c), NEW n \in 1 .. Len(d.bc) PROVE Named(d, d.bc[n])
  BY DEF Fine, Sound
<1>1. Named(c, c.bc[n]) /\ Unlabelled(d.bc[n]) = Unlabelled(c.bc[n])
  BY DEF Sound, Grown, GrowsInto
<1> QED BY <1>1, NamedLater, NamedLabels

LEMMA FineTrans ==
    ASSUME NEW c, NEW d, NEW e, IsCode(c), Fine(c, d), Fine(d, e)
    PROVE  Fine(c, e)
  BY GrownTrans DEF Fine

LEMMA FineEmit ==
    ASSUME NEW c, IsCode(c), NEW i, Named(c, i)
    PROVE  Fine(c, Emit(c, i))
<1> DEFINE d == Emit(c, i)
<1>1. Grown(c, d)
  BY GrownEmit
<1>2. /\ Len(c.bc) \in Nat /\ Len(d.bc) = Len(c.bc) + 1 /\ d.bc[Len(c.bc) + 1] = i
      /\ \A n \in 1 .. Len(c.bc) : d.bc[n] = c.bc[n]
  <2>1. Emit(c, i) = Fields(Append(c.bc, i), c.consts, c.user, c.free_regs, c.reg_pointer)
    BY FieldsExcept DEF Emit
  <2>2. d.bc = Append(c.bc, i)
    BY <2>1 DEF Fields
  <2>3. Stream(c.bc)
    BY DEF IsCode
  <2>4. Append(c.bc, i)[Len(c.bc) + 1] = i
    <3>1. PICK S : c.bc \in Seq(S)
      BY <2>3 DEF Stream
    <3> QED BY <3>1
  <2> QED BY <2>2, <2>3, <2>4, StreamAppend, StreamLength
<1> HIDE DEF d
<1>3. ASSUME Sound(c), NEW n \in 1 .. Len(d.bc) PROVE Named(d, d.bc[n])
  <2>1. CASE n = Len(c.bc) + 1
    BY <1>1, <1>2, <2>1, NamedLater
  <2>2. CASE n # Len(c.bc) + 1
    <3>1. n \in 1 .. Len(c.bc)
      BY <1>2, <2>2
    <3> QED BY <1>1, <1>2, <1>3, <3>1, NamedLater DEF Sound
  <2> QED BY <2>1, <2>2
<1> QED BY <1>1, <1>3 DEF Fine, Sound, d

LEMMA FineRegs ==
    ASSUME NEW c, IsCode(c)
    PROVE  /\ Fine(c, c) /\ Fine(c, AllocReg(c))
           /\ \A x : Fine(c, FreeLocal(c, x)) /\ Fine(c, FreeReg(c, x))
           /\ \A st : Fine(c, ScopeEnd(st, c)) /\ Fine(c, ScopeHwmEnd(st, c))
           /\ \A r : Fine(c, [c EXCEPT !.reg_pointer = r])
<1>0. "bc" \in DOMAIN c
  BY DEF IsCode
<1>1. /\ AllocReg(c).bc = c.bc
      /\ \A x : FreeLocal(c, x).bc = c.bc /\ FreeReg(c, x).bc = c.bc
      /\ \A st : ScopeEnd(st, c).bc = c.bc /\ ScopeHwmEnd(st, c).bc = c.bc
      /\ \A r : [c EXCEPT !.reg_pointer = r].bc = c.bc
  BY <1>0 DEF AllocReg, FreeLocal, FreeReg, ScopeEnd, ScopeHwmEnd
<1>2. \A x : Grown(c, FreeReg(c, x))
  BY GrownRegs DEF FreeReg
<1> QED BY <1>1, <1>2, GrownRegs, GrownAlloc, GrownFree, GrownScope, FineSilent

LEMMA FineLabels ==
    ASSUME NEW c, IsCode(c), NEW l
    PROVE  /\ \A to : Fine(c, SetLabel(c, l, to))
           /\ Fine(c, PushStartLabel(c, l))
<1>1. \A x, m : Len([c.bc EXCEPT ![m] = x]) = Len(c.bc)
  <2>1. PICK S : c.bc \in Seq(S)
    BY DEF IsCode, Stream
  <2> QED BY <2>1
<1>2. \A to : Len(SetLabel(c, l, to).bc) = Len(c.bc)
  BY <1>1 DEF SetLabel, IsCode
<1>3. Len(PushStartLabel(c, l).bc) = Len(c.bc)
  BY <1>1 DEF PushStartLabel, IsCode
<1> QED BY <1>2, <1>3, GrownSetLabel, GrownPushStartLabel, FineSilent

LEMMA FineTables ==
    ASSUME NEW c, IsCode(c)
    PROVE  /\ \A id : Fine(c, RegisterUserVar(c, id))
           /\ \A v, slot : Fine(c, RegisterConst(c, v, slot))
<1>0. "bc" \in DOMAIN c
  BY DEF IsCode
<1>1. \A id : RegisterUserVar(c, id).bc = c.bc
  BY <1>0 DEF RegisterUserVar
<1>2. \A v, slot : RegisterConst(c, v, slot).bc = c.bc
  BY <1>0 DEF RegisterConst
<1> QED BY <1>1, <1>2, GrownUser, GrownConst, FineSilent

-----------------------------------------------------------------------------
(* The instructions.                                                       *)

LEMMA NamedOperands ==
    ASSUME NEW c, NEW op, op \notin UserOps \cup {"LoadConst"}, NEW dest, NEW x, NEW y,
           Interned(c, x), Interned(c, y)
    PROVE  /\ Named(c, Unary(op, dest, x)) /\ Named(c, Binary(op, dest, x, y))
           /\ \A on, to : Named(c, Branch(x, on, to))
<1>1. Interned(c, Imm(0))
  BY DEF Interned, Imm
<1>2. "Branch" \notin UserOps /\ "Branch" # "LoadConst"
  BY DEF UserOps
<1> QED BY <1>1, <1>2 DEF Named, Unary, Binary, Branch, Blank

LEMMA NamedJump == ASSUME NEW c PROVE \A to : Named(c, Jump(to))
<1>1. Interned(c, Imm(0)) /\ "Jump" \notin UserOps
  BY DEF Interned, Imm, UserOps
<1> QED BY <1>1 DEF Named, Jump, Blank

LEMMA NamedOutput == ASSUME NEW c PROVE \A out, redir : Named(c, Output(out, redir))
<1>1. Interned(c, Imm(0)) /\ "OutputCall" \notin UserOps
  BY DEF Interned, Imm, UserOps
<1> QED BY <1>1 DEF Named, Output, Blank

(* An instruction that names a slot of a table, or a builtin.              *)
LEMMA NamedSlot ==
    ASSUME NEW c, NEW op, NEW n \in Int,
           op \in UserOps => n < Len(c.user), op = "LoadConst" => n < Len(c.consts)
    PROVE  /\ \A dest : Named(c, Load(op, dest, n))
           /\ \A dest, x : Interned(c, x) => Named(c, Store(op, dest, x, n))
<1>1. Interned(c, Imm(0))
  BY DEF Interned, Imm
<1> QED BY <1>1 DEF Named, Load, Store, Blank

LEMMA RegInterned ==
    ASSUME NEW c
    PROVE  /\ \A r \in Int : Interned(c, Reg(r)) /\ Interned(c, Imm(r))
           /\ \A n \in Int : Interned(c, [k |-> "Rec", n |-> n])
  BY DEF Interned, Reg, Imm

-----------------------------------------------------------------------------
(* Interning.                                                              *)

ModuloBound == \A n, w \in Nat : w # 0 => n % w \in Nat /\ n % w <= n
LEMMA ModuloSmaller == ModuloBound
<1> SUFFICES ASSUME NEW n \in Nat, NEW w \in Nat \ {0} PROVE n % w \in Nat /\ n % w <= n
  BY DEF ModuloBound
<1>1. CASE n < w
  BY <1>1
<1>2. CASE n >= w
  <2>1. n % w \in 0 .. w - 1
    BY ModuloWidth
  <2> QED BY <1>2, <2>1
<1> QED BY <1>1, <1>2

(* MaybeImm::from_vs, from_cnt: whether or not the index fits an operand.  *)
LEMMA FineImm ==
    ASSUME NEW c, IsCode(c), NEW k, NEW n \in Nat, NEW load, NEW dest \in Int,
           load \in UserOps => n < Len(c.user), load = "LoadConst" => n < Len(c.consts),
           k = "ImmUserVar" => n < Len(c.user), k = "ImmCnt" => n < Len(c.consts)
    PROVE  LET x == ImmOrLoad(c, k, n, load, dest)
           IN  Fine(c, x.code) /\ Interned(x.code, x.mi)
<1>1. CASE n < U8
  <2>1. ImmOrLoad(c, k, n, load, dest) = [code |-> c, mi |-> [k |-> k, n |-> n]]
    BY <1>1 DEF ImmOrLoad
  <2>2. Interned(c, [k |-> k, n |-> n])
    BY DEF Interned
  <2> QED BY <2>1, <2>2, FineRegs
<1>2. CASE ~(n < U8)
  <2> DEFINE i == Load(load, dest, n)
  <2>1. ImmOrLoad(c, k, n, load, dest) = [code |-> Emit(c, i), mi |-> Reg(dest)]
    BY <1>2 DEF ImmOrLoad
  <2>2. Named(c, i)
    <3>1. n \in Int /\ (load \in UserOps => n < Len(c.user))
          /\ (load = "LoadConst" => n < Len(c.consts))
      OBVIOUS
    <3>2. \A d : Named(c, Load(load, d, n))
      BY <3>1, NamedSlot
    <3> QED BY <3>2
  <2> HIDE DEF i
  <2>3. Fine(c, Emit(c, i)) /\ Interned(Emit(c, i), Reg(dest))
    BY <2>2, FineEmit, RegInterned
  <2> QED BY <2>1, <2>3
<1> QED BY <1>1, <1>2

LEMMA UserSlot ==
    ASSUME NEW c \in CodeType, NEW id \in Idents
    PROVE  LET d == RegisterUserVar(c, id)
           IN  UserIndex(d, id) \in Nat /\ UserIndex(d, id) < Len(d.user)
<1> DEFINE d == RegisterUserVar(c, id)
           i == CHOOSE j \in 1 .. Len(d.user) : d.user[j] = id
<1>1. Known(d, id) /\ d \in CodeType
  BY RegisterUserVarProperties
<1>2. i \in 1 .. Len(d.user) /\ Len(d.user) \in Nat
  <2>1. \E j \in 1 .. Len(d.user) : d.user[j] = id
    BY <1>1 DEF Known
  <2>2. d.user \in Seq(Idents)
    BY <1>1 DEF CodeType
  <2> HIDE DEF d
  <2>3. Len(d.user) \in Nat
    BY <2>2
  <2>4. i \in 1 .. Len(d.user)
    BY <2>1
  <2> QED BY <2>3, <2>4
<1>3. UserIndex(d, id) = (i - 1) % U16
  BY DEF UserIndex
<1> HIDE DEF d, i
<1>4. i - 1 \in Nat /\ U16 \in Nat /\ U16 # 0
  BY <1>2, WidthAssumption
<1>5. (i - 1) % U16 \in Nat /\ (i - 1) % U16 <= i - 1
  BY <1>4, ModuloSmaller DEF ModuloBound
<1>6. UserIndex(d, id) \in Nat /\ UserIndex(d, id) < Len(d.user)
  BY <1>2, <1>3, <1>5
<1> QED BY <1>6 DEF d

LEMMA FineScalar ==
    ASSUME NEW c \in CodeType, NEW x, NEW dest \in Int,
           \/ x.k = "user" /\ x.id \in Idents
           \/ x.k = "builtin" /\ x.n \in Nat
    PROVE  Fine(c, ScalarMi(c, x, dest).code)
           /\ Interned(ScalarMi(c, x, dest).code, ScalarMi(c, x, dest).mi)
<1>1. IsCode(c)
  BY CodeTypeIsCode
<1>2. CASE x.k = "user"
  <2> DEFINE d == RegisterUserVar(c, x.id)
             n == UserIndex(d, x.id)
             y == ImmOrLoad(d, "ImmUserVar", n, "LoadUserScalar", dest)
  <2>1. Fine(c, d) /\ n \in Nat /\ n < Len(d.user)
    BY <1>1, <1>2, FineTables, UserSlot
  <2>2. ScalarMi(c, x, dest) = y
    BY <1>2 DEF ScalarMi
  <2> HIDE DEF d, n
  <2>3. Fine(d, y.code) /\ Interned(y.code, y.mi)
    BY <2>1, FineImm DEF Fine, Grown
  <2> HIDE DEF y
  <2>4. Fine(c, y.code)
    BY <1>1, <2>1, <2>3, FineTrans
  <2> QED BY <2>2, <2>3, <2>4
<1>3. CASE x.k # "user"
  <2> DEFINE y == ImmOrLoad(c, "ImmBuiltinVar", x.n, "LoadBuiltinScalar", dest)
  <2>1. ScalarMi(c, x, dest) = y
    BY <1>3 DEF ScalarMi
  <2>2. x.n \in Nat /\ "LoadBuiltinScalar" \notin UserOps
    BY <1>3 DEF UserOps
  <2>3. Fine(c, y.code) /\ Interned(y.code, y.mi)
    BY <1>1, <2>2, FineImm
  <2> QED BY <2>1, <2>3
<1> QED BY <1>2, <1>3

(* A constant, in whatever slot.                                           *)
LEMMA FineConst ==
    ASSUME NEW c \in CodeType, NEW v \in Consts, NEW slot \in ConstSlots(c, v), NEW dest \in Int
    PROVE  LET x == ImmOrLoad(RegisterConst(c, v, slot), "ImmCnt", (slot - 1) % U16, "LoadConst", dest)
           IN  Fine(c, x.code) /\ Interned(x.code, x.mi)
<1> DEFINE d == RegisterConst(c, v, slot)
           n == (slot - 1) % U16
           x == ImmOrLoad(d, "ImmCnt", n, "LoadConst", dest)
<1>1. IsCode(c)
  BY CodeTypeIsCode
<1>2. Fine(c, d)
  BY <1>1, FineTables
<1>3. slot \in 1 .. Len(d.consts) /\ d \in CodeType
  BY RegisterConstProperties
<1>4. Len(d.consts) \in Nat /\ slot - 1 \in Nat /\ U16 \in Nat /\ U16 # 0
  BY <1>3, WidthAssumption DEF CodeType
<1>5. n \in Nat /\ n <= slot - 1
  BY <1>4, ModuloSmaller DEF ModuloBound
<1>6. n < Len(d.consts) /\ "LoadConst" \notin UserOps
  BY <1>3, <1>4, <1>5 DEF UserOps
<1> HIDE DEF d, n
<1>7. Fine(d, x.code) /\ Interned(x.code, x.mi)
  BY <1>2, <1>5, <1>6, FineImm DEF Fine, Grown
<1> HIDE DEF x
<1>8. Fine(c, x.code)
  BY <1>1, <1>2, <1>7, FineTrans
<1> QED BY <1>7, <1>8 DEF x, d, n

(* lower_atom_mi: the operand it returns is in the tables it leaves.       *)
LEMMA FineAtom ==
    ASSUME NEW c \in CodeType, NEW a \in Atoms, a.k # "todo", NEW dest \in Int,
           NEW slot, a.k \in {"cnt", "regex"} => slot \in ConstSlots(c, a.v)
    PROVE  Fine(c, AtomMi(c, a, dest, slot).code)
           /\ Interned(AtomMi(c, a, dest, slot).code, AtomMi(c, a, dest, slot).mi)
<1>0. IsCode(c)
  BY CodeTypeIsCode
<1>1. CASE a.k \in {"user", "builtin"}
  BY <1>1, FineScalar, AtomFields DEF AtomMi
<1>2. CASE a.k = "int"
  <2>1. AtomMi(c, a, dest, slot) = [code |-> c, mi |-> Imm(a.n)] /\ a.n \in Int
    BY <1>2, AtomFields DEF AtomMi
  <2> QED BY <1>0, <2>1, FineRegs, RegInterned
<1>3. CASE a.k = "cnt"
  BY <1>3, FineConst, AtomFields DEF AtomMi
<1>4. CASE a.k = "regex"
  <2> DEFINE x == ImmOrLoad(RegisterConst(c, a.v, slot), "ImmCnt", (slot - 1) % U16,
                            "LoadConst", dest)
             i == Binary("Matches", dest, [k |-> "Rec", n |-> 0], x.mi)
  <2>1. AtomMi(c, a, dest, slot) = [code |-> Emit(x.code, i), mi |-> Reg(dest)]
    BY <1>4 DEF AtomMi
  <2>2. Fine(c, x.code) /\ Interned(x.code, x.mi)
    BY <1>4, FineConst, AtomFields
  <2> HIDE DEF x
  <2>3. Named(x.code, i)
    BY <2>2, NamedOperands, RegInterned DEF UserOps
  <2> HIDE DEF i
  <2>4. Fine(x.code, Emit(x.code, i))
    BY <2>2, <2>3, FineEmit DEF Fine, Grown
  <2>5. Fine(c, Emit(x.code, i)) /\ Interned(Emit(x.code, i), Reg(dest))
    BY <1>0, <2>2, <2>4, FineTrans, RegInterned
  <2> QED BY <2>1, <2>5
<1> QED BY <1>1, <1>2, <1>3, <1>4, AtomFields

-----------------------------------------------------------------------------
(* Several methods in a row.                                               *)

LEMMA FineThenEmit ==
    ASSUME NEW c, IsCode(c), NEW d, Fine(c, d), NEW i, Named(d, i)
    PROVE  Fine(c, Emit(d, i))
<1>1. Fine(d, Emit(d, i))
  BY FineEmit DEF Fine, Grown
<1> QED BY <1>1, FineTrans

LEMMA FineThenRegs ==
    ASSUME NEW c, IsCode(c), NEW d, Fine(c, d)
    PROVE  /\ Fine(c, AllocReg(d))
           /\ \A x : Fine(c, FreeLocal(d, x)) /\ Fine(c, FreeReg(d, x))
           /\ \A r : Fine(c, [d EXCEPT !.reg_pointer = r])
<1>1. IsCode(d)
  BY DEF Fine, Grown
<1> QED BY <1>1, FineRegs, FineTrans

LEMMA FineThenLabel ==
    ASSUME NEW c, IsCode(c), NEW d, Fine(c, d), NEW l
    PROVE  /\ \A to : Fine(c, SetLabel(d, l, to))
           /\ Fine(c, PushStartLabel(d, l))
<1>1. IsCode(d)
  BY DEF Fine, Grown
<1> QED BY <1>1, FineLabels, FineTrans

-----------------------------------------------------------------------------
(* Operands of the frames and indices in the pending tasks.                *)

LocalsIdx(c, l) == \A n \in 1 .. Len(l) : Interned(c, l[n].mi)

TaskIdx(c, t) == /\ t.k \in {"StorePlace", "RecordEmit"} => Interned(c, t.src)
                 /\ t.k = "CallEnd" => Named(c, t.instr)

TasksIdx(c, ts) == Stream(ts) /\ \A n \in 1 .. Len(ts) : TaskIdx(c, ts[n])

IndexInv == Sound(code) /\ LocalsIdx(code, locals) /\ TasksIdx(code, control)

LEMMA TaskLater ==
    ASSUME NEW c, NEW d, IsCode(c), Grown(c, d), NEW t, TaskIdx(c, t)
    PROVE  TaskIdx(d, t)
  BY InternedLater, NamedLater DEF TaskIdx

(* The tasks that hold no operand and no instruction.                      *)
LEMMA Bare ==
    ASSUME NEW c, NEW t, t.k \notin {"StorePlace", "RecordEmit", "CallEnd"}
    PROVE  TaskIdx(c, t)
  BY DEF TaskIdx

LEMMA Calls ==
    ASSUME NEW c
    PROVE  /\ \A s : TaskIdx(c, Stmt(s))
           /\ \A e : TaskIdx(c, Expr(e))
           /\ \A e, r : TaskIdx(c, Into(e, r))
           /\ TaskIdx(c, Free)
           /\ \A p, r : TaskIdx(c, LoadPlace(p, r))
           /\ \A p, r, x : Interned(c, x) => TaskIdx(c, StorePlace(p, r, x))
<1>1. /\ \A s : Stmt(s).k = "Stmt"
      /\ \A e : Expr(e).k = "Expr"
      /\ \A e, r : Into(e, r).k = "Into"
      /\ Free.k = "Free"
      /\ \A p, r : LoadPlace(p, r).k = "LoadPlace"
      /\ \A p, r, x : StorePlace(p, r, x).k = "StorePlace" /\ StorePlace(p, r, x).src = x
  BY DEF Stmt, Expr, Into, Free, LoadPlace, StorePlace
<1> QED BY <1>1 DEF TaskIdx

LEMMA TasksNone == ASSUME NEW c PROVE TasksIdx(c, <<>>)
<1>1. <<>> \in Seq({}) /\ Len(<<>>) = 0
  BY EmptySeq
<1> QED BY <1>1 DEF TasksIdx, Stream

LEMMA TasksOne == ASSUME NEW c, NEW t, TaskIdx(c, t) PROVE TasksIdx(c, <<t>>)
<1>1. <<t>> \in Seq({t}) /\ Len(<<t>>) = 1 /\ <<t>>[1] = t
  OBVIOUS
<1>2. \A n \in 1 .. Len(<<t>>) : <<t>>[n] = t
  BY <1>1
<1> QED BY <1>1, <1>2 DEF TasksIdx, Stream

LEMMA TasksConcat ==
    ASSUME NEW c, NEW s, NEW t, TasksIdx(c, s), TasksIdx(c, t)
    PROVE  TasksIdx(c, s \o t)
<1>1. Stream(s) /\ Stream(t)
  BY DEF TasksIdx
<1>2. /\ Stream(s \o t) /\ Len(s) \in Nat /\ Len(t) \in Nat /\ Len(s \o t) = Len(s) + Len(t)
      /\ \A i \in 1 .. Len(s) : (s \o t)[i] = s[i]
      /\ \A i \in 1 .. Len(t) : (s \o t)[Len(s) + i] = t[i]
  BY <1>1, StreamConcat
<1>3. ASSUME NEW n \in 1 .. Len(s) + Len(t) PROVE TaskIdx(c, (s \o t)[n])
  <2>1. CASE n <= Len(s)
    BY <1>2, <2>1 DEF TasksIdx
  <2>2. CASE n > Len(s)
    <3>1. n - Len(s) \in 1 .. Len(t) /\ Len(s) + (n - Len(s)) = n
      BY <1>2, <2>2
    <3> QED BY <1>2, <3>1 DEF TasksIdx
  <2> QED BY <1>2, <2>1, <2>2
<1> QED BY <1>2, <1>3 DEF TasksIdx

LEMMA TasksTwo ==
    ASSUME NEW c, NEW t, NEW u, TaskIdx(c, t), TaskIdx(c, u) PROVE TasksIdx(c, <<t, u>>)
<1>1. /\ <<t, u>> \in Seq({t, u}) /\ Len(<<t, u>>) = 2
      /\ <<t, u>>[1] = t /\ <<t, u>>[2] = u
  OBVIOUS
<1>2. \A n \in 1 .. 2 : n = 1 \/ n = 2
  OBVIOUS
<1> QED BY <1>1, <1>2 DEF TasksIdx, Stream

LEMMA TasksThree ==
    ASSUME NEW c, NEW t, NEW u, NEW v, TaskIdx(c, t), TaskIdx(c, u), TaskIdx(c, v)
    PROVE  TasksIdx(c, <<t, u, v>>)
<1>1. /\ <<t, u, v>> \in Seq({t, u, v}) /\ Len(<<t, u, v>>) = 3
      /\ <<t, u, v>>[1] = t /\ <<t, u, v>>[2] = u /\ <<t, u, v>>[3] = v
  OBVIOUS
<1>2. \A n \in 1 .. 3 : n = 1 \/ n = 2 \/ n = 3
  OBVIOUS
<1> QED BY <1>1, <1>2 DEF TasksIdx, Stream

LEMMA TasksBody == ASSUME NEW c, NEW ss \in Seq(Stmts) PROVE TasksIdx(c, Body(ss))
<1>1. Stream(Body(ss))
  BY BodyType DEF Stream
<1>2. Len(ss) \in Nat
  OBVIOUS
<1>3. Len(Body(ss)) = Len(ss) /\ \A n \in 1 .. Len(ss) : Body(ss)[n] = Stmt(ss[n])
  BY <1>2 DEF Body
<1> QED BY <1>1, <1>3, Calls DEF TasksIdx

LEMMA TasksSimple == ASSUME NEW c, NEW ss PROVE TasksIdx(c, Simple(ss))
  BY TasksNone, TasksTwo, Calls DEF Simple

(* Opening the window of a call: the instruction is kept in the task that  *)
(* will emit it.                                                           *)
LEMMA TasksWindow ==
    ASSUME NEW c, NEW args \in Seq(Exprs), NEW extra, TasksIdx(c, extra),
           NEW instr, Named(c, instr)
    PROVE  TasksIdx(c, Window(args, extra, instr))
<1> DEFINE fill == [i \in 1 .. Len(args) |-> Into(args[i], code.reg_pointer + i - 1)]
           call == [instr EXCEPT !.lo = code.reg_pointer, !.hi = code.reg_pointer + Len(args)]
           end  == [k |-> "CallEnd", st |-> SaveRegs(code), instr |-> call]
<1>1. TasksIdx(c, fill)
  <2>1. Len(args) \in Nat
    OBVIOUS
  <2>2. \A n \in 1 .. Len(args) : TaskIdx(c, fill[n])
    BY Calls
  <2>3. Stream(fill) /\ Len(fill) = Len(args)
    <3> DEFINE S == {fill[n] : n \in 1 .. Len(args)}
    <3>1. fill \in [1 .. Len(args) -> S]
      OBVIOUS
    <3> HIDE DEF fill, S
    <3>2. fill \in Seq(S) /\ Len(fill) = Len(args)
      BY <2>1, <3>1
    <3> QED BY <3>2 DEF Stream
  <2> HIDE DEF fill
  <2> QED BY <2>2, <2>3 DEF TasksIdx
<1>2. TasksIdx(c, <<end>>)
  <2>1. /\ DOMAIN call = DOMAIN instr
        /\ \A f \in {"op", "a", "b", "mem"} : call[f] = instr[f]
    BY DEF Named
  <2>2. call.op = instr.op /\ call.a = instr.a /\ call.b = instr.b /\ call.mem = instr.mem
    BY <2>1
  <2> HIDE DEF call
  <2>3. Named(c, call)
    BY <2>1, <2>2 DEF Named
  <2>4. end.k = "CallEnd" /\ end.instr = call
    OBVIOUS
  <2> HIDE DEF end
  <2>5. TaskIdx(c, end)
    BY <2>3, <2>4 DEF TaskIdx
  <2> QED BY <2>5, TasksOne
<1>3. Window(args, extra, instr) = fill \o extra \o <<end>>
  BY DEF Window
<1> HIDE DEF fill, end
<1> QED BY <1>1, <1>2, <1>3, TasksConcat

-----------------------------------------------------------------------------
(* A step.                                                                 *)

Ready == TypeOK /\ IndexInv
Kept  == IndexInv'

LEMMA DoKept ==
    ASSUME Ready, control # <<>>, NEW c, NEW l, NEW new, Do(c, l, new),
           Fine(code, c), LocalsIdx(c, l), TasksIdx(c, new)
    PROVE  Kept
<1> DEFINE tl == Tail(control)
<1>1. code' = c /\ locals' = l /\ control' = new \o tl
  BY DEF Do
<1>2. IsCode(code) /\ Grown(code, c) /\ Sound(c)
  BY CodeTypeIsCode DEF Ready, TypeOK, IndexInv, Fine
<1>3. TasksIdx(code, control)
  BY DEF Ready, IndexInv
<1>4. /\ Stream(tl) /\ Len(control) \in Nat \ {0} /\ Len(tl) = Len(control) - 1
      /\ \A n \in 1 .. Len(control) - 1 : tl[n] = control[n + 1]
  BY <1>3, StreamTail DEF TasksIdx
<1> HIDE DEF tl
<1>5. TasksIdx(c, tl)
  <2>1. ASSUME NEW n \in 1 .. Len(tl) PROVE TaskIdx(c, tl[n])
    <3>1. n + 1 \in 1 .. Len(control) /\ tl[n] = control[n + 1]
      BY <1>4
    <3>2. TaskIdx(code, control[n + 1])
      BY <1>3, <3>1 DEF TasksIdx
    <3> QED BY <1>2, <3>1, <3>2, TaskLater
  <2> QED BY <1>4, <2>1 DEF TasksIdx
<1>6. TasksIdx(c, new \o tl)
  BY <1>5, TasksConcat
<1> QED BY <1>1, <1>2, <1>6 DEF Kept, IndexInv

(* What the step finds.                                                    *)
LEMMA ReadyCode ==
    ASSUME Ready
    PROVE  /\ code \in CodeType /\ IsCode(code) /\ locals \in Seq(Operands)
           /\ Fine(code, code) /\ Fine(code, AllocReg(code))
           /\ \A x : Fine(code, FreeLocal(code, x))
           /\ NextReg(code) \in Int
<1>1. code \in CodeType /\ locals \in Seq(Operands) /\ IsCode(code)
  BY CodeTypeIsCode DEF Ready, TypeOK
<1>2. NextReg(code) \in Int
  <2>1. /\ code.free_regs \in Seq(0 .. U8-1) /\ code.reg_pointer \in Int
        /\ Len(code.free_regs) \in Nat
    BY <1>1, WidthAssumption DEF CodeType
  <2>2. CASE code.free_regs # <<>>
    <3>1. Len(code.free_regs) \in 1 .. Len(code.free_regs)
      BY <2>1, <2>2, EmptySeq
    <3>2. code.free_regs[Len(code.free_regs)] \in 0 .. U8-1
      BY <2>1, <3>1, ElementOfSeq
    <3> QED BY <2>2, <3>2, WidthAssumption DEF NextReg
  <2>3. CASE code.free_regs = <<>>
    BY <2>1, <2>3 DEF NextReg
  <2> QED BY <2>2, <2>3
<1> QED BY <1>1, <1>2, FineRegs

LEMMA TopIdx ==
    ASSUME Ready, control # <<>>
    PROVE  TaskIdx(code, Top) /\ Top \in Tasks
<1>1. control \in Seq(Tasks) /\ 1 \in 1 .. Len(control)
  BY EmptySeq DEF Ready, TypeOK
<1> QED BY <1>1, ElementOfSeq DEF Ready, IndexInv, TasksIdx, Top

(* The operands of the frames after a step.                                *)
LEMMA LocalsKept ==
    ASSUME Ready, NEW c, Fine(code, c)
    PROVE  /\ LocalsIdx(c, locals) /\ \A n \in Nat : LocalsIdx(c, Pop(n))
           /\ \A x : Interned(c, x.mi) => LocalsIdx(c, Push(x))
           /\ \A x : Interned(c, x.mi) => LocalsIdx(c, Append(Pop(1), x))
           /\ \A n \in Nat : Interned(code, Local(n).mi) /\ Interned(c, Local(n).mi)
<1>1. locals \in Seq(Operands) /\ Len(locals) \in Nat /\ IsCode(code) /\ Grown(code, c)
  BY ReadyCode DEF Fine
<1>2. LocalsIdx(c, locals)
  BY <1>1, InternedLater DEF Ready, IndexInv, LocalsIdx
<1>3. ASSUME NEW n \in Nat PROVE LocalsIdx(c, Pop(n)) /\ Pop(n) \in Seq(Operands)
  <2> DEFINE m == IF n < Len(locals) THEN Len(locals) - n ELSE 0
  <2>1. m \in 0 .. Len(locals)
    BY <1>1
  <2>2. Pop(n) = Take(locals, m)
    BY DEF Pop
  <2> HIDE DEF m
  <2>3. m \in Nat /\ Take(locals, m) \in Seq(Operands)
        /\ Len(Take(locals, m)) = (IF m < Len(locals) THEN m ELSE Len(locals))
        /\ \A i \in 1 .. Len(Take(locals, m)) : Take(locals, m)[i] = locals[i]
    BY <1>1, <2>1, TakeProperties
  <2>4. \A i \in 1 .. Len(Take(locals, m)) : i \in 1 .. Len(locals)
    BY <1>1, <2>1, <2>3
  <2> QED BY <1>2, <2>2, <2>3, <2>4 DEF LocalsIdx
<1>4. ASSUME NEW l, l \in Seq(Operands), LocalsIdx(c, l), NEW x, Interned(c, x.mi)
      PROVE  LocalsIdx(c, Append(l, x))
  <2> DEFINE m == Append(l, x)
  <2>1. Len(l) \in Nat /\ Len(m) = Len(l) + 1 /\ m[Len(l) + 1] = x
        /\ \A i \in 1 .. Len(l) : m[i] = l[i]
    BY <1>4
  <2> HIDE DEF m
  <2>2. ASSUME NEW i \in 1 .. Len(m) PROVE Interned(c, m[i].mi)
    <3>1. i = Len(l) + 1 \/ i \in 1 .. Len(l)
      BY <2>1
    <3> QED BY <1>4, <2>1, <3>1 DEF LocalsIdx
  <2> QED BY <2>2 DEF LocalsIdx, m
<1>5. ASSUME NEW n \in Nat PROVE Interned(code, Local(n).mi) /\ Interned(c, Local(n).mi)
  <2>1. CASE n < Len(locals)
    <3>1. Len(locals) - n \in 1 .. Len(locals)
      BY <1>1, <2>1
    <3>2. Local(n) = locals[Len(locals) - n]
      BY <2>1 DEF Local
    <3>3. Interned(code, locals[Len(locals) - n].mi) /\ Interned(c, locals[Len(locals) - n].mi)
      BY <1>2, <3>1 DEF Ready, IndexInv, LocalsIdx
    <3> QED BY <3>2, <3>3
  <2>2. CASE ~(n < Len(locals))
    <3>1. Local(n).mi = Imm(0)
      BY <2>2 DEF Local, Plain
    <3> QED BY <3>1, RegInterned
  <2> QED BY <2>1, <2>2
<1>6. 1 \in Nat
  OBVIOUS
<1> QED BY <1>1, <1>2, <1>3, <1>4, <1>5, <1>6 DEF Push

-----------------------------------------------------------------------------
(* The statements.                                                         *)

LEMMA IndicesOfLoop ==
    ASSUME Ready, control # <<>>, NEW cond, NEW body, NEW update, Loop(cond, body, update)
    PROVE  Kept
<1> DEFINE t == [k |-> "LoopBranch", top |-> FollowingInstr(code, 0), body |-> body,
                 update |-> update]
<1>1. TaskIdx(code, t)
  BY Bare
<1>2. TasksIdx(code, <<Expr(cond), t>>)
  BY <1>1, TasksTwo, Calls
<1>3. Do(code, locals, <<Expr(cond), t>>)
  BY DEF Loop
<1> QED BY <1>2, <1>3, ReadyCode, LocalsKept, DoKept

LEMMA IndicesOfStatement ==
    ASSUME Ready, If \/ While \/ For \/ DoWhile \/ ExprStmt
    PROVE  Kept
<1>1. At("Stmt") /\ control # <<>>
  BY DEF If, While, For, DoWhile, ExprStmt, AtStmt, At
<1>2. Top.s \in Stmts
  BY <1>1, AtTypes, TaskFields DEF Ready
<1>3. Fine(code, code) /\ LocalsIdx(code, locals)
  BY ReadyCode, LocalsKept
<1>4. CASE If
  <2> DEFINE t == [k |-> "IfBranch", st |-> SaveRegs(code), body |-> Top.s.body,
                   orelse |-> Top.s.orelse]
  <2>1. TasksIdx(code, <<Expr(Top.s.c), t>>)
    BY Bare, TasksTwo, Calls
  <2> QED BY <1>1, <1>3, <1>4, <2>1, DoKept DEF If
<1>5. CASE While
  BY <1>1, <1>5, IndicesOfLoop DEF While
<1>6. CASE For
  <2> DEFINE t == [k |-> "ForTop", s |-> Top.s]
  <2>1. TasksIdx(code, Simple(Top.s.init) \o <<t>>)
    BY Bare, TasksOne, TasksConcat, TasksSimple
  <2> QED BY <1>1, <1>3, <1>6, <2>1, DoKept DEF For
<1>7. CASE DoWhile
  <2> DEFINE t == [k |-> "DoBranch", top |-> FollowingInstr(code, 0)]
  <2>1. TasksIdx(code, <<Expr(Top.s.c), t>>)
    BY Bare, TasksTwo, Calls
  <2>2. Top.s.body \in Seq(Stmts)
    BY <1>2, <1>7, StmtFields DEF DoWhile, AtStmt
  <2>3. TasksIdx(code, Body(Top.s.body) \o <<Expr(Top.s.c), t>>)
    BY <2>1, <2>2, TasksBody, TasksConcat
  <2> QED BY <1>1, <1>3, <1>7, <2>3, DoKept DEF DoWhile
<1>8. CASE ExprStmt
  <2>1. TasksIdx(code, <<Expr(Top.s.e), Free>>)
    BY TasksTwo, Calls
  <2> QED BY <1>1, <1>3, <1>8, <2>1, DoKept DEF ExprStmt
<1> QED BY <1>4, <1>5, <1>6, <1>7, <1>8

LEMMA IndicesOfForTop == ASSUME Ready, ForTop PROVE Kept
<1> DEFINE s == Top.s
           t == [k |-> "LoopEnd", top |-> FollowingInstr(code, 0), branch |-> <<>>]
           new == Body(s.body) \o Simple(s.update) \o <<t>>
<1>1. At("ForTop") /\ control # <<>>
  BY DEF ForTop, At
<1>2. s \in Stmts /\ s.k = "for"
  BY <1>1, AtTypes, TaskFields DEF Ready
<1>3. CASE s.cond # <<>>
  BY <1>1, <1>3, IndicesOfLoop DEF ForTop
<1>4. CASE s.cond = <<>>
  <2>1. s.body \in Seq(Stmts)
    BY <1>2, StmtFields
  <2>2. TasksIdx(code, new)
    BY <2>1, Bare, TasksBody, TasksSimple, TasksOne, TasksConcat
  <2>3. Do(code, locals, new)
    BY <1>4 DEF ForTop
  <2> QED BY <1>1, <2>2, <2>3, ReadyCode, LocalsKept, DoKept
<1> QED BY <1>3, <1>4

(* The branch of an if, a loop, a do and a ternary.                        *)
LEMMA FineBranch ==
    ASSUME Ready, NEW on, NEW to
    PROVE  Fine(code, FreeLocal(Emit(code, Branch(Local(0).mi, on, to)), Local(0)))
<1> DEFINE i == Branch(Local(0).mi, on, to)
<1>1. Interned(code, Local(0).mi) /\ "Copy" \notin UserOps \cup {"LoadConst"}
  BY ReadyCode, LocalsKept DEF UserOps
<1>2. Named(code, i)
  BY <1>1, NamedOperands
<1> HIDE DEF i
<1>3. Fine(code, Emit(code, i))
  BY <1>2, ReadyCode, FineEmit
<1>4. Fine(code, FreeLocal(Emit(code, i), Local(0)))
  BY <1>3, ReadyCode, FineThenRegs
<1> QED BY <1>4 DEF i

LEMMA IndicesOfBranch ==
    ASSUME Ready, IfBranch \/ LoopBranch \/ DoBranch \/ TernaryBranch
    PROVE  Kept
<1>1. /\ control # <<>>
      /\ IfBranch => At("IfBranch")
      /\ LoopBranch => At("LoopBranch")
  BY DEF IfBranch, LoopBranch, DoBranch, TernaryBranch, At
<1>2. IfBranch \/ LoopBranch => Top.body \in Seq(Stmts)
  BY <1>1, AtTypes, TaskFields DEF Ready
<1> DEFINE c(on, to) == FreeLocal(Emit(code, Branch(Local(0).mi, on, to)), Local(0))
<1>3. \A on, to : Fine(code, c(on, to)) /\ LocalsIdx(c(on, to), Pop(1))
  BY FineBranch, LocalsKept
<1>4. CASE IfBranch
  <2> DEFINE t == [k |-> "ThenEnd", st |-> Top.st, orelse |-> Top.orelse,
                   branch |-> EmitLabel(code)]
             d == c(FollowingInstr(code, 1), 0)
  <2>1. Do(d, Pop(1), Body(Top.body) \o <<t>>)
    BY <1>4 DEF IfBranch
  <2>2. Fine(code, d) /\ LocalsIdx(d, Pop(1))
    BY <1>3
  <2> HIDE DEF c, d
  <2>3. TasksIdx(d, Body(Top.body) \o <<t>>)
    BY <1>2, <1>4, Bare, TasksBody, TasksOne, TasksConcat
  <2> QED BY <1>1, <2>1, <2>2, <2>3, DoKept
<1>5. CASE LoopBranch
  <2> DEFINE t == [k |-> "LoopEnd", top |-> Top.top, branch |-> <<EmitLabel(code)>>]
             d == c(FollowingInstr(code, 1), 0)
             new == Body(Top.body) \o Simple(Top.update) \o <<t>>
  <2>1. Do(d, Pop(1), new)
    BY <1>5 DEF LoopBranch
  <2>2. Fine(code, d) /\ LocalsIdx(d, Pop(1))
    BY <1>3
  <2> HIDE DEF c, d
  <2>3. TasksIdx(d, new)
    BY <1>2, <1>5, Bare, TasksBody, TasksSimple, TasksOne, TasksConcat
  <2> QED BY <1>1, <2>1, <2>2, <2>3, DoKept
<1>6. CASE DoBranch
  <2> DEFINE d == c(Top.top, FollowingInstr(code, 1))
  <2>1. Do(d, Pop(1), <<>>)
    BY <1>6 DEF DoBranch
  <2>2. Fine(code, d) /\ LocalsIdx(d, Pop(1))
    BY <1>3
  <2> HIDE DEF c, d
  <2> QED BY <1>1, <2>1, <2>2, TasksNone, DoKept
<1>7. CASE TernaryBranch
  <2> DEFINE d == c(FollowingInstr(code, 1), 0)
             t == [k |-> "TernaryThen", st |-> SaveRegs(d), f |-> Top.f, dest |-> Top.dest,
                   branch |-> EmitLabel(code)]
             new == <<Into(Top.t, Top.dest), t>>
  <2>1. Do(d, Pop(1), new)
    BY <1>7 DEF TernaryBranch
  <2>2. Fine(code, d) /\ LocalsIdx(d, Pop(1))
    BY <1>3
  <2> HIDE DEF c, d
  <2>3. TasksIdx(d, new)
    BY Bare, TasksTwo, Calls
  <2> QED BY <1>1, <2>1, <2>2, <2>3, DoKept
<1> QED BY <1>4, <1>5, <1>6, <1>7

(* The steps that emit jumps and patch labels.                             *)
LEMMA IndicesOfPatch ==
    ASSUME Ready, ThenEnd \/ ElseEnd \/ LoopEnd \/ TernaryThen \/ TernaryElse
    PROVE  Kept
<1>1. control # <<>> /\ IsCode(code) /\ Fine(code, code)
  BY ReadyCode DEF ThenEnd, ElseEnd, LoopEnd, TernaryThen, TernaryElse, At
<1>2. \A c : Fine(code, c) => LocalsIdx(c, locals)
  BY LocalsKept
<1>3. \A c : Fine(code, c) => \A to : Fine(code, Emit(c, Jump(to)))
  BY <1>1, NamedJump, FineThenEmit
<1>4. \A c, l : Fine(code, c) => /\ \A to : Fine(code, SetLabel(c, l, to))
                                 /\ Fine(code, PushStartLabel(c, l))
  BY <1>1, FineThenLabel
<1>5. \A st : Fine(code, ScopeEnd(st, code)) /\ Fine(code, ScopeHwmEnd(st, code))
  BY <1>1, FineRegs
<1>6. CASE ThenEnd
  <2> DEFINE c == SetLabel(code, Top.branch, FollowingInstr(code, 0))
             p == PushStartLabel(c, Top.branch)
             d == Emit(p, Jump(0))
             t == [k |-> "ElseEnd", st |-> [Top.st EXCEPT !.reg_pointer = @ + 1],
                   jump |-> EmitLabel(code)]
             new == Body(Top.orelse[1]) \o <<t>>
  <2>1. Fine(code, c)
    BY <1>1, <1>4
  <2>2. Fine(code, d)
    <3> HIDE DEF c
    <3>1. Fine(code, p)
      BY <1>4, <2>1
    <3> HIDE DEF p
    <3> QED BY <1>3, <3>1
  <2>3. CASE Top.orelse = <<>>
    <3>1. Do(c, locals, <<>>)
      BY <1>6, <2>3 DEF ThenEnd
    <3> HIDE DEF c
    <3> QED BY <1>1, <1>2, <2>1, <3>1, TasksNone, DoKept
  <2>4. CASE Top.orelse # <<>>
    <3>1. Do(d, locals, new)
      BY <1>6, <2>4 DEF ThenEnd
    <3>2. Top.orelse[1] \in Seq(Stmts)
      <4>1. Top.orelse \in Seq(Seq(Stmts))
        BY <1>6, AtTypes, TaskFields DEF Ready, ThenEnd
      <4>2. 1 \in 1 .. Len(Top.orelse)
        BY <2>4, <4>1, EmptySeq
      <4> QED BY <4>1, <4>2, ElementOfSeq
    <3> HIDE DEF c, p, d
    <3>3. TasksIdx(d, new)
      BY <3>2, Bare, TasksBody, TasksOne, TasksConcat
    <3> QED BY <1>1, <1>2, <2>2, <3>1, <3>3, DoKept
  <2> QED BY <2>3, <2>4
<1>7. CASE ElseEnd
  <2> DEFINE c == ScopeHwmEnd(Top.st, code)
             d == SetLabel(c, Top.jump, FollowingInstr(c, 0))
  <2>1. Do(d, locals, <<>>)
    BY <1>7 DEF ElseEnd
  <2>2. Fine(code, c)
    BY <1>5
  <2> HIDE DEF c
  <2>3. Fine(code, d)
    BY <1>4, <2>2
  <2> HIDE DEF d
  <2> QED BY <1>1, <1>2, <2>1, <2>3, TasksNone, DoKept
<1>8. CASE LoopEnd
  <2> DEFINE c == Emit(code, Jump(Top.top))
             d == SetLabel(c, Top.branch[1], FollowingInstr(c, 0))
  <2>1. Do(c, locals, <<>>) \/ Do(d, locals, <<>>)
    BY <1>8 DEF LoopEnd
  <2>2. Fine(code, c)
    BY <1>1, <1>3
  <2> HIDE DEF c
  <2>3. Fine(code, d)
    BY <1>4, <2>2
  <2> HIDE DEF d
  <2> QED BY <1>1, <1>2, <2>1, <2>2, <2>3, TasksNone, DoKept
<1>9. CASE TernaryThen
  <2> DEFINE b == ScopeEnd(Top.st, code)
             c == Emit(b, Jump(0))
             t == [k |-> "TernaryElse", st |-> AfterScope(Top.st, code), branch |-> Top.branch,
                   jump |-> EmitLabel(code), label |-> FollowingInstr(c, 0)]
             new == <<Into(Top.f, Top.dest), t>>
  <2>1. Do(c, locals, new)
    BY <1>9 DEF TernaryThen
  <2>2. Fine(code, b)
    BY <1>5
  <2> HIDE DEF b
  <2>3. Fine(code, c)
    BY <1>3, <2>2
  <2> HIDE DEF c
  <2>4. TasksIdx(c, new)
    BY Bare, TasksTwo, Calls
  <2> QED BY <1>1, <1>2, <2>1, <2>3, <2>4, DoKept
<1>10. CASE TernaryElse
  <2> DEFINE b == ScopeHwmEnd(Top.st, code)
             c == SetLabel(b, Top.branch, Top.label)
             d == SetLabel(c, Top.jump, FollowingInstr(c, 0))
  <2>1. Do(d, locals, <<>>)
    BY <1>10 DEF TernaryElse
  <2>2. Fine(code, b)
    BY <1>5
  <2> HIDE DEF b
  <2>3. Fine(code, c)
    BY <1>4, <2>2
  <2> HIDE DEF c
  <2>4. Fine(code, d)
    BY <1>4, <2>3
  <2> HIDE DEF d
  <2> QED BY <1>1, <1>2, <2>1, <2>4, TasksNone, DoKept
<1> QED BY <1>6, <1>7, <1>8, <1>9, <1>10

(* Opening and closing the window of a call.                               *)
LEMMA IndicesOfCall == ASSUME Ready, Command \/ CallEnd \/ Redirection PROVE Kept
<1>0. IsCode(code) /\ Fine(code, code)
  BY ReadyCode
<1>1. CASE Command
  <2> DEFINE s == Top.s
             extra == IF s.redir = <<>> THEN <<>> ELSE <<[k |-> "Redirection", e |-> s.redir[1]]>>
             instr == Output(s.name, s.redir # <<>>)
             c == [code EXCEPT !.reg_pointer = code.reg_pointer + Len(s.args)]
  <2>1. At("Stmt") /\ s.k = "command" /\ control # <<>>
    BY <1>1 DEF Command, AtStmt, At
  <2>2. s \in Stmts
    BY <2>1, AtTypes, TaskFields DEF Ready
  <2>3. s.args \in Seq(Exprs)
    BY <2>1, <2>2, StmtFields
  <2>4. Named(c, instr)
    BY NamedOutput
  <2>5. Fine(code, c)
    BY <1>0, FineRegs
  <2>6. TasksIdx(c, extra)
    BY Bare, TasksNone, TasksOne
  <2>7. TasksIdx(c, Window(s.args, extra, instr))
    <3> HIDE DEF extra, instr, c, s
    <3> QED BY <2>3, <2>4, <2>6, TasksWindow
  <2>8. Do(c, locals, Window(s.args, extra, instr))
    BY <1>1 DEF Command
  <2> HIDE DEF extra, instr, c, s
  <2> QED BY <2>1, <2>5, <2>7, <2>8, LocalsKept, DoKept
<1>2. CASE CallEnd
  <2> DEFINE c == ScopeEnd(Top.st, code)
             d == Emit(c, Top.instr)
             x == Plain(Reg(Top.instr.dest))
  <2>1. At("CallEnd") /\ control # <<>> /\ Top.k = "CallEnd"
    BY <1>2 DEF CallEnd, At, Top
  <2>2. Named(code, Top.instr) /\ Top.instr.dest \in Int
    <3>1. Top.instr \in Instruction
      BY <2>1, TopIdx, TaskFields
    <3> QED BY <2>1, <3>1, TopIdx DEF TaskIdx, Instruction
  <2>3. Fine(code, c)
    BY <1>0, FineRegs
  <2> HIDE DEF c
  <2>4. Named(c, Top.instr)
    BY <1>0, <2>2, <2>3, NamedLater DEF Fine
  <2>5. Fine(code, d)
    BY <1>0, <2>3, <2>4, FineThenEmit
  <2>6. Do(d, Push(x), <<>>) \/ Do(d, locals, <<>>)
    BY <1>2 DEF CallEnd, c
  <2>7. Interned(d, x.mi)
    BY <2>2, RegInterned DEF Plain
  <2> HIDE DEF d, x
  <2> QED BY <2>1, <2>5, <2>6, <2>7, LocalsKept, TasksNone, DoKept
<1>3. CASE Redirection
  <2> DEFINE r == NextReg(code)
             c == AllocReg(code)
             l == Push(Own(r))
  <2>1. control # <<>> /\ Do(c, l, <<Into(Top.e, r), Free>>)
    BY <1>3 DEF Redirection, At
  <2>2. Fine(code, c) /\ Interned(c, Own(r).mi)
    BY ReadyCode, RegInterned DEF Own
  <2> HIDE DEF c
  <2>3. LocalsIdx(c, l)
    BY <2>2, LocalsKept
  <2>4. TasksIdx(c, <<Into(Top.e, r), Free>>)
    BY TasksTwo, Calls
  <2> HIDE DEF l, r
  <2> QED BY <2>1, <2>2, <2>3, <2>4, DoKept
<1> QED BY <1>1, <1>2, <1>3

-----------------------------------------------------------------------------
(* The expressions.                                                        *)

LEMMA IndicesOfOperand ==
    ASSUME Ready,
           \/ FreeTop \/ LowerNode \/ UnaryInto \/ BinaryInto \/ TernaryInto
           \/ AssignInto \/ AssignVal \/ IncrInto \/ StoreRecord
    PROVE  Kept
<1>1. control # <<>>
  BY DEF FreeTop, LowerNode, UnaryInto, BinaryInto, TernaryInto, AssignInto, AssignVal,
     IncrInto, StoreRecord, AtInto, AtPlace, At
<1>2. /\ IsCode(code) /\ Fine(code, code) /\ LocalsIdx(code, locals)
      /\ Interned(code, Local(0).mi)
  BY ReadyCode, LocalsKept
<1> DEFINE r == NextReg(code)
<1>3. /\ Fine(code, AllocReg(code)) /\ LocalsIdx(AllocReg(code), Push(Own(r)))
  <2>1. Interned(AllocReg(code), Own(r).mi)
    BY ReadyCode, RegInterned DEF Own
  <2> QED BY <2>1, ReadyCode, LocalsKept
<1>4. CASE FreeTop
  <2>1. LocalsIdx(FreeLocal(code, Local(0)), Pop(1)) /\ Fine(code, FreeLocal(code, Local(0)))
    BY ReadyCode, LocalsKept
  <2> QED BY <1>1, <1>4, <2>1, TasksNone, DoKept DEF FreeTop
<1>5. CASE LowerNode
  <2>1. TasksIdx(AllocReg(code), <<Into(Top.e, r)>>)
    BY TasksOne, Calls
  <2> QED BY <1>1, <1>3, <1>5, <2>1, DoKept DEF LowerNode
<1>6. CASE UnaryInto
  <2> DEFINE t == [k |-> "UnaryEmit", op |-> Top.e.op, dest |-> Top.dest]
  <2>1. TasksIdx(code, <<Expr(Top.e.e), t>>)
    BY Bare, TasksTwo, Calls
  <2> QED BY <1>1, <1>2, <1>6, <2>1, DoKept DEF UnaryInto
<1>7. CASE BinaryInto
  <2> DEFINE t == [k |-> "BinaryEmit", op |-> Top.e.op, dest |-> Top.dest]
  <2>1. TasksIdx(code, <<Expr(Top.e.l), Expr(Top.e.r), t>>)
    BY Bare, TasksThree, Calls
  <2> QED BY <1>1, <1>2, <1>7, <2>1, DoKept DEF BinaryInto
<1>8. CASE TernaryInto
  <2> DEFINE t == [k |-> "TernaryBranch", t |-> Top.e.t, f |-> Top.e.f, dest |-> Top.dest]
  <2>1. TasksIdx(code, <<Expr(Top.e.c), t>>)
    BY Bare, TasksTwo, Calls
  <2> QED BY <1>1, <1>2, <1>8, <2>1, DoKept DEF TernaryInto
<1>9. CASE AssignInto
  <2> DEFINE t == [k |-> "AssignVal", op |-> Top.e.op, p |-> Top.e.p, dest |-> Top.dest]
  <2>1. TasksIdx(code, <<Expr(Top.e.e), t>>)
    BY Bare, TasksTwo, Calls
  <2> QED BY <1>1, <1>2, <1>9, <2>1, DoKept DEF AssignInto
<1>10. CASE AssignVal
  <2> DEFINE t == [k |-> "AssignEmit", op |-> Top.op, p |-> Top.p, dest |-> Top.dest]
             x == StorePlace(Top.p, Top.dest, Local(0).mi)
  <2>1. \/ Do(code, locals, <<x, Free>>)
        \/ Do(AllocReg(code), Push(Own(r)), <<LoadPlace(Top.p, r), t>>)
    BY <1>10 DEF AssignVal
  <2>2. TasksIdx(code, <<x, Free>>)
    BY <1>2, TasksTwo, Calls
  <2>3. TasksIdx(AllocReg(code), <<LoadPlace(Top.p, r), t>>)
    BY Bare, TasksTwo, Calls
  <2> HIDE DEF x, t, r
  <2> QED BY <1>1, <1>2, <1>3, <2>1, <2>2, <2>3, DoKept
<1>11. CASE IncrInto
  <2> DEFINE t == [k |-> "Incr", op |-> Top.e.op, post |-> Top.e.post, p |-> Top.e.p,
                   dest |-> Top.dest]
  <2>1. TasksIdx(code, <<LoadPlace(Top.e.p, Top.dest), t>>)
    BY Bare, TasksTwo, Calls
  <2> QED BY <1>1, <1>2, <1>11, <2>1, DoKept DEF IncrInto
<1>12. CASE StoreRecord
  <2> DEFINE t == [k |-> "RecordEmit", dest |-> Top.dest, src |-> Top.src]
  <2>1. Interned(code, t.src)
    <3>1. At("StorePlace") /\ Top.k = "StorePlace"
      BY <1>12, AtTypes DEF StoreRecord, AtPlace, Ready
    <3> QED BY <1>1, <3>1, TopIdx DEF TaskIdx
  <2>2. TaskIdx(code, t)
    BY <2>1 DEF TaskIdx
  <2>3. TasksIdx(code, <<Expr(Top.p.e), t>>)
    BY <2>2, TasksTwo, Calls
  <2> QED BY <1>1, <1>2, <1>12, <2>3, DoKept DEF StoreRecord
<1> QED BY <1>4, <1>5, <1>6, <1>7, <1>8, <1>9, <1>10, <1>11, <1>12

(* Emitting the instruction of an operator, then freeing its operand.      *)
LEMMA PlainOps ==
    (UnaryOps \cup BinaryOps \cup {"StoreRecord", "Copy"}) \cap (UserOps \cup {"LoadConst"}) = {}
  BY DEF UnaryOps, BinaryOps, ArithOps, UserOps

LEMMA IndicesOfOperator ==
    ASSUME Ready, UnaryEmit \/ BinaryEmit \/ AssignEmit \/ RecordEmit
    PROVE  Kept
<1>1. /\ UnaryEmit => At("UnaryEmit")
      /\ BinaryEmit => At("BinaryEmit")
      /\ AssignEmit => At("AssignEmit")
      /\ RecordEmit => At("RecordEmit")
  BY DEF UnaryEmit, BinaryEmit, AssignEmit, RecordEmit
<1>2. control # <<>>
  BY <1>1 DEF At
<1>3. /\ UnaryEmit => Top.op \in UnaryOps
      /\ BinaryEmit \/ AssignEmit => Top.op \in BinaryOps
      /\ RecordEmit => Interned(code, Top.src)
      /\ AssignEmit => Top.dest \in Int
  <2>1. RecordEmit => Top.k = "RecordEmit"
    BY <1>1, AtTypes DEF Ready
  <2>2. UnaryEmit => Top.op \in UnaryOps
    BY <1>1, AtTypes, TaskFields DEF Ready
  <2>3. BinaryEmit \/ AssignEmit => Top.op \in BinaryOps
    BY <1>1, AtTypes, TaskFields DEF Ready, BinaryOps
  <2>4. AssignEmit => Top.dest \in Int
    BY <1>1, AtTypes, TaskFields, WidthAssumption DEF Ready, Registers
  <2> QED BY <1>2, <2>1, <2>2, <2>3, <2>4, TopIdx DEF TaskIdx
<1>4. IsCode(code)
  BY ReadyCode
<1>5. Interned(code, Local(0).mi) /\ Interned(code, Local(1).mi) /\ Interned(code, Local(2).mi)
  BY ReadyCode, LocalsKept
<1>6. \A i : Named(code, i) => \A x : Fine(code, FreeLocal(Emit(code, i), x))
  BY <1>4, FineEmit, FineThenRegs
<1>7. \A c : Fine(code, c) => LocalsIdx(c, Pop(1)) /\ LocalsIdx(c, Pop(2))
  BY LocalsKept
<1>8. CASE UnaryEmit
  <2> DEFINE i == Unary(Top.op, Top.dest, Local(0).mi)
             c == FreeLocal(Emit(code, i), Local(0))
  <2>1. Do(c, Pop(1), <<>>)
    BY <1>8 DEF UnaryEmit
  <2>2. Top.op \notin UserOps \cup {"LoadConst"}
    BY <1>3, <1>8, PlainOps
  <2>3. Named(code, i)
    BY <1>5, <2>2, NamedOperands
  <2> HIDE DEF i
  <2>4. Fine(code, c)
    BY <1>6, <2>3
  <2> HIDE DEF c
  <2> QED BY <1>2, <1>7, <2>1, <2>4, TasksNone, DoKept
<1>9. CASE RecordEmit
  <2> DEFINE i == Binary("StoreRecord", Top.dest, Local(0).mi, Top.src)
             c == FreeLocal(Emit(code, i), Local(0))
  <2>1. Do(c, Pop(1), <<>>)
    BY <1>9 DEF RecordEmit
  <2>2. "StoreRecord" \notin UserOps \cup {"LoadConst"}
    BY PlainOps
  <2>3. Named(code, i)
    BY <1>3, <1>5, <1>9, <2>2, NamedOperands
  <2> HIDE DEF i
  <2>4. Fine(code, c)
    BY <1>6, <2>3
  <2> HIDE DEF c
  <2> QED BY <1>2, <1>7, <2>1, <2>4, TasksNone, DoKept
<1>10. CASE BinaryEmit
  <2> DEFINE i == Binary(Top.op, Top.dest, Local(1).mi, Local(0).mi)
             c == FreeLocal(Emit(code, i), Local(1))
             d == FreeLocal(c, Local(0))
  <2>1. Do(d, Pop(2), <<>>)
    BY <1>10 DEF BinaryEmit
  <2>2. Top.op \notin UserOps \cup {"LoadConst"}
    BY <1>3, <1>10, PlainOps
  <2>3. Named(code, i)
    BY <1>5, <2>2, NamedOperands
  <2> HIDE DEF i
  <2>4. Fine(code, c)
    BY <1>6, <2>3
  <2> HIDE DEF c
  <2>5. Fine(code, d)
    BY <1>4, <2>4, FineThenRegs
  <2> HIDE DEF d
  <2> QED BY <1>2, <1>7, <2>1, <2>5, TasksNone, DoKept
<1>11. CASE AssignEmit
  <2> DEFINE i == Binary(Top.op, Top.dest, Local(0).mi, Local(2).mi)
             c == Emit(code, i)
             x == StorePlace(Top.p, Top.dest, Reg(Top.dest))
  <2>1. Do(c, Pop(1), <<x, Free, Free>>)
    BY <1>11 DEF AssignEmit
  <2>2. Top.op \notin UserOps \cup {"LoadConst"}
    BY <1>3, <1>11, PlainOps
  <2>3. Named(code, i)
    BY <1>5, <2>2, NamedOperands
  <2> HIDE DEF i
  <2>4. Fine(code, c)
    BY <1>4, <2>3, FineEmit
  <2>5. TaskIdx(c, x)
    BY <1>3, <1>11, RegInterned, Calls
  <2> HIDE DEF c, x
  <2>6. TasksIdx(c, <<x, Free, Free>>)
    BY <2>5, TasksThree, Calls
  <2> QED BY <1>2, <1>7, <2>1, <2>4, <2>6, DoKept
<1> QED BY <1>8, <1>9, <1>10, <1>11

(* An increment, before or after.                                          *)
LEMMA IndicesOfIncr == ASSUME Ready, Incr PROVE Kept
<1>1. At("Incr") /\ control # <<>>
  BY DEF Incr, At
<1>2. Top.op \in BinaryOps /\ Top.dest \in Int
  BY <1>1, AtTypes, TaskFields, WidthAssumption DEF Ready, BinaryOps, ArithOps, Registers
<1>3. Top.op \notin UserOps \cup {"LoadConst"} /\ "Add" \notin UserOps \cup {"LoadConst"}
  BY <1>2, PlainOps DEF BinaryOps, ArithOps
<1>4. IsCode(code) /\ Interned(code, Local(0).mi)
  BY ReadyCode, LocalsKept
<1>5. CASE ~Top.post
  <2> DEFINE i == Binary(Top.op, Top.dest, Local(0).mi, Imm(1))
             c == Emit(code, i)
             x == StorePlace(Top.p, Top.dest, Reg(Top.dest))
  <2>1. Do(c, Pop(1), <<x>>)
    BY <1>5 DEF Incr
  <2>2. Named(code, i)
    BY <1>3, <1>4, RegInterned, NamedOperands
  <2> HIDE DEF i
  <2>3. Fine(code, c)
    BY <1>4, <2>2, FineEmit
  <2>4. TasksIdx(c, <<x>>)
    BY <1>2, RegInterned, TasksOne, Calls
  <2> HIDE DEF c, x
  <2> QED BY <1>1, <2>1, <2>3, <2>4, LocalsKept, DoKept
<1>6. CASE Top.post
  <2> DEFINE i == Binary("Add", Top.dest, Local(0).mi, Imm(0))
             c == Emit(code, i)
             d == AllocReg(c)
             tmp == NextReg(c)
             j == Binary(Top.op, tmp, Local(0).mi, Imm(1))
             e == Emit(d, j)
             x == StorePlace(Top.p, tmp, Reg(tmp))
  <2>1. Do(e, Append(Pop(1), Own(tmp)), <<x, Free>>)
    BY <1>6 DEF Incr
  <2>2. Named(code, i)
    BY <1>3, <1>4, RegInterned, NamedOperands
  <2>3. tmp \in Int
    <3>1. c.free_regs = code.free_regs /\ c.reg_pointer = code.reg_pointer
      BY <1>4, FieldsExcept DEF Emit, IsCode
    <3> HIDE DEF c
    <3>2. NextReg(c) = NextReg(code)
      BY <3>1 DEF NextReg
    <3> QED BY <3>2, ReadyCode
  <2> HIDE DEF i
  <2>4. Fine(code, c)
    BY <1>4, <2>2, FineEmit
  <2> HIDE DEF c, tmp
  <2>5. Fine(code, d)
    BY <1>4, <2>4, FineThenRegs
  <2>6. Named(d, j)
    <3>1. Interned(d, Local(0).mi) /\ Interned(d, Imm(1))
      BY <1>4, <2>5, InternedLater, RegInterned DEF Fine
    <3> QED BY <1>3, <3>1, NamedOperands
  <2> HIDE DEF d, j
  <2>7. Fine(code, e)
    BY <1>4, <2>5, <2>6, FineThenEmit
  <2>8. Interned(e, Reg(tmp)) /\ Interned(e, Own(tmp).mi)
    BY <2>3, RegInterned DEF Own
  <2>9. TasksIdx(e, <<x, Free>>)
    BY <2>8, TasksTwo, Calls
  <2> HIDE DEF e, x
  <2>10. LocalsIdx(e, Append(Pop(1), Own(tmp)))
    BY <2>7, <2>8, LocalsKept
  <2> QED BY <1>1, <2>1, <2>7, <2>9, <2>10, DoKept
<1> QED BY <1>5, <1>6

(* lower_atom and lower_atom_into.                                         *)
LEMMA IndicesOfAtom == ASSUME Ready, LowerAtom \/ AtomInto PROVE Kept
<1>1. \E k \in {"Expr", "Into"} : At(k)
  BY DEF LowerAtom, AtomInto, AtInto
<1>2. control # <<>> /\ Top \in Tasks /\ Top.k \in {"Expr", "Into"}
  BY <1>1, AtTypes DEF Ready, At
<1>3. Top.e \in Exprs /\ Top.e.k = "atom" /\ ~Panics(Top)
  BY <1>2, TaskFields DEF LowerAtom, AtomInto, AtInto, Do
<1>4. Top.e.a \in Atoms /\ Top.e.a.k # "todo"
  BY <1>2, <1>3, ExprFields DEF Panics
<1>5. IsCode(code) /\ code \in CodeType
  BY ReadyCode
<1>6. CASE LowerAtom
  <2> DEFINE r == NextReg(code)
             b == AllocReg(code)
             x(slot) == AtomMi(b, Top.e.a, r, slot)
  <2>0. At("Expr") /\ Top.k = "Expr" /\ CanAlloc(code)
    BY <1>3, <1>6, AtTypes DEF Ready, LowerAtom, Panics, Allocates
  <2>1. PICK slot \in Slots(Top.e.a) :
            \/ Do(x(slot).code, Push(Own(r)), <<>>)
            \/ Do(FreeReg(x(slot).code, r), Push(Plain(x(slot).mi)), <<>>)
    BY <1>6 DEF LowerAtom
  <2> DEFINE c == x(slot).code
             y == x(slot).mi
             d == FreeReg(c, r)
             l == Push(Own(r))
             m == Push(Plain(y))
  <2>2. Do(c, l, <<>>) \/ Do(d, m, <<>>)
    BY <2>1
  <2>3. Fine(code, b) /\ b \in CodeType /\ r \in Int
    BY <1>5, <2>0, ReadyCode, AllocProperties
  <2>4. Top.e.a.k \in {"cnt", "regex"} => slot \in ConstSlots(b, Top.e.a.v)
    <3>1. b.consts = code.consts
      BY <1>5 DEF AllocReg, CodeType
    <3> QED BY <3>1 DEF Slots, ConstSlots
  <2>5. Fine(b, c) /\ Interned(c, y)
    <3> HIDE DEF b, r
    <3> QED BY <1>4, <2>3, <2>4, FineAtom
  <2> HIDE DEF b, c, x, y
  <2>6. Fine(code, c)
    BY <1>5, <2>3, <2>5, FineTrans
  <2>7. Fine(code, d) /\ Fine(c, d)
    BY <1>5, <2>6, FineThenRegs, FineRegs DEF Fine, Grown
  <2>8. Interned(c, Own(r).mi) /\ Interned(d, Plain(y).mi)
    BY <2>3, <2>5, <2>6, <2>7, RegInterned, InternedLater DEF Own, Plain, Fine, Grown
  <2> HIDE DEF d
  <2>9. LocalsIdx(c, l) /\ LocalsIdx(d, m)
    BY <2>6, <2>7, <2>8, LocalsKept
  <2> HIDE DEF l, m
  <2> QED BY <1>2, <2>2, <2>6, <2>7, <2>9, TasksNone, DoKept
<1>7. CASE AtomInto
  <2> DEFINE x(slot) == AtomMi(code, Top.e.a, Top.dest, slot)
             i(slot) == Unary("Copy", Top.dest, x(slot).mi)
  <2>1. PICK slot \in Slots(Top.e.a) : \/ Do(x(slot).code, locals, <<>>)
                                       \/ Do(Emit(x(slot).code, i(slot)), locals, <<>>)
    BY <1>7 DEF AtomInto
  <2> DEFINE c == x(slot).code
             y == x(slot).mi
             j == Unary("Copy", Top.dest, y)
             d == Emit(c, j)
  <2>2. Do(c, locals, <<>>) \/ Do(d, locals, <<>>)
    BY <2>1
  <2>3. Top.dest \in Int
    <3>1. At("Into") /\ Top.k = "Into"
      BY <1>7, AtTypes DEF AtomInto, AtInto, Ready
    <3> QED BY <1>2, <3>1, TaskFields, WidthAssumption DEF Registers
  <2>4. Top.e.a.k \in {"cnt", "regex"} => slot \in ConstSlots(code, Top.e.a.v)
    BY DEF Slots
  <2>5. Fine(code, c) /\ Interned(c, y)
    BY <1>4, <1>5, <2>3, <2>4, FineAtom
  <2> HIDE DEF c, x, y
  <2>6. Named(c, j)
    BY <2>5, PlainOps, NamedOperands
  <2> HIDE DEF j
  <2>7. Fine(code, d)
    BY <1>5, <2>5, <2>6, FineThenEmit
  <2> HIDE DEF d
  <2> QED BY <1>2, <2>2, <2>5, <2>7, LocalsKept, TasksNone, DoKept
<1> QED BY <1>6, <1>7

-----------------------------------------------------------------------------
(* The places.                                                             *)

LEMMA IndicesOfScalar == ASSUME Ready, LoadScalar \/ StoreScalar PROVE Kept
<1>1. PICK k \in {"LoadPlace", "StorePlace"} : At(k) /\ Top.p.k \in Scalars
  BY DEF LoadScalar, StoreScalar, AtPlace
<1>2. control # <<>> /\ Top \in Tasks /\ Top.k = k
  BY <1>1, AtTypes DEF Ready, At
<1>3. Top.p \in Places /\ Top.dest \in Int
  BY <1>2, TaskFields, WidthAssumption DEF Registers
<1>4. \/ Top.p.k = "user" /\ Top.p.id \in Idents
      \/ Top.p.k = "builtin" /\ Top.p.n \in Nat
  BY <1>1, <1>3, PlaceFields DEF Scalars
<1>5. IsCode(code) /\ code \in CodeType
  BY ReadyCode
<1>6. CASE LoadScalar
  <2> DEFINE x == ScalarMi(code, Top.p, Top.dest)
             l == Push(Plain(x.mi))
  <2>1. Do(x.code, l, <<>>)
    BY <1>6 DEF LoadScalar
  <2>2. Fine(code, x.code) /\ Interned(x.code, x.mi)
    BY <1>3, <1>4, <1>5, FineScalar
  <2> HIDE DEF x
  <2>3. LocalsIdx(x.code, l)
    BY <2>2, LocalsKept DEF Plain
  <2> HIDE DEF l
  <2> QED BY <1>2, <2>1, <2>2, <2>3, TasksNone, DoKept
<1>7. CASE StoreScalar
  <2>1. Top.k = "StorePlace" /\ Interned(code, Top.src)
    <3>1. Top.k = "StorePlace"
      BY <1>7, AtTypes DEF StoreScalar, AtPlace, Ready
    <3> QED BY <1>2, <3>1, TopIdx DEF TaskIdx
  <2>2. CASE Top.p.k = "user"
    <3> DEFINE c == RegisterUserVar(code, Top.p.id)
               n == UserIndex(c, Top.p.id)
               i == Store("StoreUserScalar", Top.dest, Top.src, n)
    <3>1. Do(Emit(c, i), locals, <<>>)
      BY <1>7, <2>2 DEF StoreScalar
    <3>2. Fine(code, c) /\ n \in Nat /\ n < Len(c.user)
      BY <1>4, <1>5, <2>2, FineTables, UserSlot
    <3> HIDE DEF c, n
    <3>3. Interned(c, Top.src)
      BY <1>5, <2>1, <3>2, InternedLater DEF Fine
    <3>4. "StoreUserScalar" # "LoadConst" /\ n \in Int
      BY <3>2
    <3>5. Named(c, i)
      BY <3>2, <3>3, <3>4, NamedSlot
    <3> HIDE DEF i
    <3>6. Fine(code, Emit(c, i))
      BY <1>5, <3>2, <3>5, FineThenEmit
    <3> QED BY <1>2, <3>1, <3>6, LocalsKept, TasksNone, DoKept
  <2>3. CASE Top.p.k # "user"
    <3> DEFINE i == Store("StoreBuiltinScalar", Top.dest, Top.src, Top.p.n)
    <3>1. Do(Emit(code, i), locals, <<>>)
      BY <1>7, <2>3 DEF StoreScalar
    <3>2. "StoreBuiltinScalar" \notin UserOps /\ Top.p.n \in Int
      BY <1>4, <2>3 DEF UserOps
    <3>3. Named(code, i)
      BY <2>1, <3>2, NamedSlot
    <3> HIDE DEF i
    <3>4. Fine(code, Emit(code, i))
      BY <1>5, <3>3, FineEmit
    <3> QED BY <1>2, <3>1, <3>4, LocalsKept, TasksNone, DoKept
  <2> QED BY <2>2, <2>3
<1> QED BY <1>6, <1>7

LEMMA IndicesOfElement == ASSUME Ready, LoadIndex \/ StoreIndex PROVE Kept
<1>1. PICK user, builtin : ArrayAccess(user, builtin) /\ user # "LoadConst"
                           /\ builtin \notin UserOps \cup {"LoadConst"}
  BY DEF LoadIndex, StoreIndex, UserOps
<1>2. PICK k \in {"LoadPlace", "StorePlace"} : At(k) /\ Top.p.k \in Indexed
  BY DEF LoadIndex, StoreIndex, AtPlace
<1>3. control # <<>> /\ Top.p \in Places
  BY <1>2, AtTypes, TaskFields DEF Ready, At
<1> DEFINE p == Top.p
           c == IF p.k = "userindex" THEN RegisterUserVar(code, p.id) ELSE code
           n == UserIndex(c, p.id)
           ins == IF p.k = "userindex" THEN Load(user, Top.dest, n)
                                       ELSE Load(builtin, Top.dest, p.n)
           d == [c EXCEPT !.reg_pointer = c.reg_pointer + Len(p.args)]
<1>4. p.args \in Seq(Exprs) /\ (p.k = "userindex" => p.id \in Idents)
      /\ (p.k # "userindex" => p.n \in Nat)
  BY <1>2, <1>3, PlaceFields DEF Indexed
<1>5. Do(d, locals, Window(p.args, <<>>, ins))
  BY <1>1 DEF ArrayAccess
<1>6. IsCode(code) /\ code \in CodeType /\ Fine(code, code)
  BY ReadyCode
<1>7. Fine(code, c) /\ (p.k = "userindex" => n \in Nat /\ n < Len(c.user))
  BY <1>4, <1>6, FineTables, UserSlot
<1> HIDE DEF c, n
<1>8. Named(c, ins)
  <2>1. CASE p.k = "userindex"
    <3>1. n \in Int /\ n < Len(c.user)
      BY <1>7, <2>1
    <3>2. Named(c, Load(user, Top.dest, n))
      BY <1>1, <3>1, NamedSlot
    <3> QED BY <2>1, <3>2
  <2>2. CASE p.k # "userindex"
    <3>1. p.n \in Int
      BY <1>4, <2>2
    <3>2. Named(c, Load(builtin, Top.dest, p.n))
      BY <1>1, <3>1, NamedSlot
    <3> QED BY <2>2, <3>2
  <2> QED BY <2>1, <2>2
<1> HIDE DEF ins
<1>9. Fine(code, d) /\ Fine(c, d)
  BY <1>6, <1>7, FineThenRegs, FineRegs DEF Fine, Grown
<1>10. Named(d, ins)
  BY <1>7, <1>8, <1>9, NamedLater DEF Fine, Grown
<1> HIDE DEF d
<1>11. TasksIdx(d, Window(p.args, <<>>, ins))
  BY <1>4, <1>10, TasksNone, TasksWindow
<1> QED BY <1>3, <1>5, <1>9, <1>11, LocalsKept, DoKept

-----------------------------------------------------------------------------
(* The invariant.                                                          *)

(* The bytecode is empty and the pending tasks are statements.             *)
LEMMA IndexInit == ASSUME Init, TypeOK PROVE IndexInv
<1>1. code = EmptyCode /\ control = Body(program) /\ locals = <<>> /\ program \in Seq(Stmts)
  BY ProgramsAssumption DEF Init
<1>2. \A n : n \notin 1 .. Len(<<>>)
  BY EmptySeq
<1>3. Sound(code) /\ LocalsIdx(code, locals)
  BY <1>1, <1>2 DEF Sound, LocalsIdx, EmptyCode
<1>4. TasksIdx(code, control)
  BY <1>1, TasksBody
<1> QED BY <1>3, <1>4 DEF IndexInv

(* Every step keeps the indices in their tables.                           *)
LEMMA IndexStep == ASSUME TypeOK, IndexInv, [Next]_vars PROVE IndexInv'
<1>1. Ready
  BY DEF Ready
<1>2. CASE LowerStatement
  BY <1>1, <1>2, IndicesOfStatement, IndicesOfForTop, IndicesOfBranch, IndicesOfPatch,
     IndicesOfCall DEF LowerStatement, Kept
<1>3. CASE LowerExpr
  BY <1>1, <1>3, IndicesOfOperand, IndicesOfAtom, IndicesOfOperator, IndicesOfBranch,
     IndicesOfPatch, IndicesOfIncr DEF LowerExpr, Kept
<1>4. CASE LowerPlace
  BY <1>1, <1>4, IndicesOfScalar, IndicesOfElement, IndicesOfOperand, IndicesOfOperator
     DEF LowerPlace, Kept
<1>5. CASE Panic \/ Finish \/ UNCHANGED vars
  BY <1>5 DEF Panic, Finish, vars, IndexInv
<1> QED BY <1>2, <1>3, <1>4, <1>5 DEF Next

(* An index below the bound of its table is what the property asks.        *)
LEMMA SoundIsInterned == ASSUME Sound(code) PROVE IndicesInterned
<1>1. \A x : Interned(code, x) => x.n < IndexBound(x)
  BY DEF Interned, IndexBound
<1> QED BY <1>1 DEF Sound, Named, UserOps, IndicesInterned

(* For every program, every width and whatever slot the hash set of        *)
(* constants answers: every user variable or constant that the bytecode    *)
(* names, as an operand or in memory, is in the table the interpreter      *)
(* indexes (symbol_table.get and consts of vm.rs never panic).             *)
THEOREM IndicesStayInTables == Spec => []IndicesInterned
<1> QED BY TypeCorrect, InitTypes, IndexInit, IndexStep, SoundIsInterned, PTL
        DEF Spec, IndexInv

-----------------------------------------------------------------------------
(***************************************************************************)
(* The register file: in a program that passes no arguments, every         *)
(* register the finished bytecode names is below the pointer the lowering  *)
(* ended with, from which the interpreter allocates its registers.         *)
(*                                                                         *)
(* The pointer is not monotone: between the arms of a ternary it returns   *)
(* to where the scope began, and only the end of the second arm raises it  *)
(* again.  So the argument follows a bound H on every register that was    *)
(* named or can be named again (FileAt), and the invariant is that the     *)
(* pointer has reached H or that the end of an open scope will raise it to *)
(* H (Attained).                                                           *)
(***************************************************************************)

(* An operand, and an instruction, with its registers below H.             *)
In(H, x) == x.k = "Reg" => x.n \in Int /\ x.n < H

Within(H, i) ==
    /\ {"op", "dest", "a", "b", "lo", "hi"} \subseteq DOMAIN i
    /\ In(H, i.a) /\ In(H, i.b) /\ i.lo = 0 /\ i.hi = 0
    /\ i.op \notin Patchable \cup {"OutputCall"} => i.dest \in Int /\ i.dest < H

(* Code whose bytecode and free list are below H, with the pointer between *)
(* p and H.                                                                *)
FileCode(H, p, c) ==
    /\ IsCode(c)
    /\ \A n \in 1 .. Len(c.bc) : Within(H, c.bc[n])
    /\ Stream(c.free_regs)
    /\ \A n \in 1 .. Len(c.free_regs) : c.free_regs[n] \in Int /\ c.free_regs[n] < H
    /\ c.reg_pointer \in Int /\ p <= c.reg_pointer /\ c.reg_pointer <= H

(* A higher bound, a lower floor.                                          *)
LEMMA WithinHigher ==
    ASSUME NEW H \in Int, NEW K \in Int, H <= K
    PROVE  /\ \A x : In(H, x) => In(K, x)
           /\ \A i : Within(H, i) => Within(K, i)
<1>1. \A x : In(H, x) => In(K, x)
  BY DEF In
<1> QED BY <1>1 DEF Within

LEMMA FileHigher ==
    ASSUME NEW H \in Int, NEW K \in Int, H <= K, NEW p \in Int, NEW q \in Int, q <= p,
           NEW c, FileCode(H, p, c)
    PROVE  FileCode(K, q, c)
<1>1. \A n \in 1 .. Len(c.bc) : Within(K, c.bc[n])
  BY WithinHigher DEF FileCode
<1>2. \A n \in 1 .. Len(c.free_regs) : c.free_regs[n] \in Int /\ c.free_regs[n] < K
  BY DEF FileCode
<1>3. c.reg_pointer \in Int /\ q <= c.reg_pointer /\ c.reg_pointer <= K
  BY DEF FileCode
<1> QED BY <1>1, <1>2, <1>3 DEF FileCode

(* Labels do not matter.                                                   *)
LEMMA WithinLabels ==
    ASSUME NEW H, NEW i, NEW j, Unlabelled(i) = Unlabelled(j), Within(H, j)
    PROVE  Within(H, i)
<1> DEFINE F == {"op", "dest", "a", "b", "lo", "hi"}
<1>1. \A x : DOMAIN Unlabelled(x) = DOMAIN x
  BY DEF Unlabelled
<1>2. \A x, f : f \in F /\ f \in DOMAIN x => Unlabelled(x)[f] = x[f]
  BY DEF Unlabelled
<1>3. F \subseteq DOMAIN i /\ F \subseteq DOMAIN j
  BY <1>1 DEF Within
<1>4. \A f \in F : i[f] = j[f]
  BY <1>2, <1>3
<1>5. /\ i.op = j.op /\ i.dest = j.dest /\ i.a = j.a /\ i.b = j.b
      /\ i.lo = j.lo /\ i.hi = j.hi
  BY <1>4
<1> QED BY <1>3, <1>5 DEF Within

(* A method that emits nothing and leaves the registers.                   *)
LEMMA FileSilent ==
    ASSUME NEW H, NEW p, NEW c, FileCode(H, p, c),
           NEW d, Grown(c, d), Len(d.bc) = Len(c.bc), SameRegs(c, d)
    PROVE  FileCode(H, p, d)
<1>1. \A n \in 1 .. Len(d.bc) : Within(H, d.bc[n])
  <2> TAKE n \in 1 .. Len(d.bc)
  <2>1. Within(H, c.bc[n]) /\ Unlabelled(d.bc[n]) = Unlabelled(c.bc[n])
    BY DEF FileCode, Grown, GrowsInto
  <2> QED BY <2>1, WithinLabels
<1> QED BY <1>1 DEF FileCode, Grown, SameRegs

LEMMA FileHasRegs == ASSUME NEW H, NEW p, NEW c, FileCode(H, p, c) PROVE HasRegs(c) /\ IsCode(c)
  BY DEF FileCode, IsCode, HasRegs

LEMMA FileEmit ==
    ASSUME NEW H, NEW p, NEW c, FileCode(H, p, c), NEW i, Within(H, i)
    PROVE  FileCode(H, p, Emit(c, i))
<1> DEFINE d == Emit(c, i)
<1>1. Grown(c, d) /\ SameRegs(c, d)
  BY FileHasRegs, GrownEmit, KeepRegs
<1>2. d.bc = Append(c.bc, i) /\ Stream(c.bc)
  BY DEF Emit, FileCode, IsCode
<1>3. PICK S : c.bc \in Seq(S)
  BY <1>2 DEF Stream
<1> HIDE DEF d
<1>4. \A n \in 1 .. Len(d.bc) :
         \/ n \in 1 .. Len(c.bc) /\ d.bc[n] = c.bc[n]
         \/ d.bc[n] = i
  BY <1>2, <1>3
<1>5. \A n \in 1 .. Len(d.bc) : Within(H, d.bc[n])
  BY <1>4 DEF FileCode
<1> QED BY <1>1, <1>5 DEF FileCode, Grown, SameRegs, d

LEMMA FilePatch ==
    ASSUME NEW H, NEW p, NEW c, FileCode(H, p, c), NEW l
    PROVE  /\ \A to : FileCode(H, p, SetLabel(c, l, to))
           /\ FileCode(H, p, PushStartLabel(c, l))
<1>0. HasRegs(c) /\ IsCode(c)
  BY FileHasRegs
<1>1. \A x, m : Len([c.bc EXCEPT ![m] = x]) = Len(c.bc)
  <2>1. PICK S : c.bc \in Seq(S)
    BY <1>0 DEF IsCode, Stream
  <2> QED BY <2>1
<1>2. \A to : Len(SetLabel(c, l, to).bc) = Len(c.bc)
  BY <1>0, <1>1 DEF SetLabel, IsCode
<1>3. Len(PushStartLabel(c, l).bc) = Len(c.bc) /\ SameRegs(c, PushStartLabel(c, l))
  BY <1>0, <1>1 DEF PushStartLabel, IsCode, SameRegs, HasRegs
<1> QED BY <1>0, <1>2, <1>3, KeepRegs, GrownSetLabel, GrownPushStartLabel, FileSilent

LEMMA FileTables ==
    ASSUME NEW H, NEW p, NEW c, FileCode(H, p, c)
    PROVE  /\ \A id : FileCode(H, p, RegisterUserVar(c, id))
           /\ \A v, slot : FileCode(H, p, RegisterConst(c, v, slot))
<1>0. HasRegs(c) /\ IsCode(c)
  BY FileHasRegs
<1>1. \A id : RegisterUserVar(c, id).bc = c.bc
  BY <1>0 DEF RegisterUserVar, IsCode
<1>2. \A v, slot : RegisterConst(c, v, slot).bc = c.bc
  BY <1>0 DEF RegisterConst, IsCode
<1> QED BY <1>0, <1>1, <1>2, KeepRegs, GrownUser, GrownConst, FileSilent

-----------------------------------------------------------------------------
(* The registers.                                                          *)

(* The fields that follow a change of the registers.                       *)
LEMMA FileRegs ==
    ASSUME NEW H, NEW p, NEW q, NEW c, FileCode(H, p, c),
           NEW d, Grown(c, d), d.bc = c.bc, Stream(d.free_regs),
           \A n \in 1 .. Len(d.free_regs) : d.free_regs[n] \in Int /\ d.free_regs[n] < H,
           d.reg_pointer \in Int, q <= d.reg_pointer, d.reg_pointer <= H
    PROVE  FileCode(H, q, d)
  BY DEF FileCode, Grown

LEMMA FileFree ==
    ASSUME NEW H, NEW p, NEW c, FileCode(H, p, c)
    PROVE  /\ \A r \in Int : r < H => FileCode(H, p, FreeReg(c, r))
           /\ \A x : (x.own => x.mi.k = "Reg") /\ In(H, x.mi) => FileCode(H, p, FreeLocal(c, x))
<1>0. HasRegs(c) /\ IsCode(c) /\ "bc" \in DOMAIN c
  BY FileHasRegs DEF FileCode, IsCode
<1>1. ASSUME NEW r \in Int, r < H PROVE FileCode(H, p, FreeReg(c, r))
  <2> DEFINE d == FreeReg(c, r)
  <2>1. d.bc = c.bc /\ d.free_regs = Append(c.free_regs, r) /\ d.reg_pointer = c.reg_pointer
    BY <1>0 DEF FreeReg, HasRegs
  <2>2. Grown(c, d)
    BY <1>0, GrownRegs DEF FreeReg
  <2>3. PICK S : c.free_regs \in Seq(S)
    BY DEF FileCode, Stream
  <2>4. Stream(Append(c.free_regs, r))
    BY StreamAppend DEF FileCode
  <2>5. \A n \in 1 .. Len(Append(c.free_regs, r)) :
            \/ n \in 1 .. Len(c.free_regs) /\ Append(c.free_regs, r)[n] = c.free_regs[n]
            \/ Append(c.free_regs, r)[n] = r
    BY <2>3
  <2>6. \A n \in 1 .. Len(d.free_regs) : d.free_regs[n] \in Int /\ d.free_regs[n] < H
    BY <1>1, <2>1, <2>5 DEF FileCode
  <2> HIDE DEF d
  <2>7. d.reg_pointer \in Int /\ p <= d.reg_pointer /\ d.reg_pointer <= H
    BY <2>1 DEF FileCode
  <2>8. FileCode(H, p, d)
    BY <2>1, <2>2, <2>4, <2>6, <2>7, FileRegs
  <2> QED BY <2>8 DEF d
<1>2. ASSUME NEW x, x.own => x.mi.k = "Reg", In(H, x.mi) PROVE FileCode(H, p, FreeLocal(c, x))
  BY <1>1, <1>2 DEF FreeLocal, In
<1> QED BY <1>1, <1>2

(* A prefix of the free list.                                              *)
LEMMA FileTake ==
    ASSUME NEW H, NEW p, NEW c, FileCode(H, p, c), NEW m \in Int
    PROVE  LET f == Take(c.free_regs, m)
           IN  Stream(f) /\ \A n \in 1 .. Len(f) : f[n] \in Int /\ f[n] < H
<1> DEFINE f == Take(c.free_regs, m)
           k == IF m < Len(c.free_regs) THEN m ELSE Len(c.free_regs)
<1>1. PICK S : c.free_regs \in Seq(S)
  BY DEF FileCode, Stream
<1>2. Len(c.free_regs) \in Nat
  BY <1>1
<1>3. f = [i \in 1 .. k |-> c.free_regs[i]]
  BY DEF Take
<1>4. k \in Int /\ k <= Len(c.free_regs)
  BY <1>2
<1> HIDE DEF k, f
<1>5. CASE k \in Nat
  <2>1. f \in Seq(S) /\ Len(f) = k
    BY <1>1, <1>2, <1>3, <1>4, <1>5
  <2>2. \A n \in 1 .. k : n \in 1 .. Len(c.free_regs) /\ f[n] = c.free_regs[n]
    BY <1>2, <1>3, <1>4
  <2> QED BY <2>1, <2>2 DEF FileCode, Stream, f
<1>6. CASE k \notin Nat
  <2>1. 1 .. k = {} /\ 1 .. 0 = {}
    BY <1>4, <1>6
  <2>2. f = <<>>
    BY <1>3, <2>1
  <2>3. Stream(<<>>) /\ Len(<<>>) = 0
    BY EmptySeq DEF Stream
  <2> QED BY <2>2, <2>3 DEF f
<1> QED BY <1>5, <1>6

(* Closing a scope: the pointer is set, or raised, to where it was.        *)
LEMMA FileScope ==
    ASSUME NEW H \in Int, NEW p \in Int, NEW c, FileCode(H, p, c), NEW st,
           st.reg_pointer \in Int, st.n_free_regs \in Int, st.reg_pointer <= H
    PROVE  /\ FileCode(H, st.reg_pointer, ScopeEnd(st, c))
           /\ FileCode(H, p, ScopeHwmEnd(st, c))
           /\ ScopeHwmEnd(st, c).reg_pointer >= st.reg_pointer
<1> DEFINE f == Take(c.free_regs, st.n_free_regs)
           d == ScopeEnd(st, c)
           e == ScopeHwmEnd(st, c)
<1>0. IsCode(c) /\ {"bc", "free_regs", "reg_pointer"} \subseteq DOMAIN c
  BY DEF FileCode, IsCode
<1>1. Stream(f) /\ \A n \in 1 .. Len(f) : f[n] \in Int /\ f[n] < H
  BY FileTake
<1>2. Grown(c, d) /\ Grown(c, e)
  BY <1>0, GrownScope
<1>3. d.bc = c.bc /\ d.free_regs = f /\ d.reg_pointer = st.reg_pointer
  BY <1>0 DEF ScopeEnd
<1>4. /\ e.bc = c.bc /\ e.free_regs = f
      /\ e.reg_pointer = (IF c.reg_pointer < st.reg_pointer THEN st.reg_pointer ELSE c.reg_pointer)
  BY <1>0 DEF ScopeHwmEnd
<1> HIDE DEF d, e, f
<1>5. c.reg_pointer \in Int /\ p <= c.reg_pointer /\ c.reg_pointer <= H
  BY DEF FileCode
<1>6. FileCode(H, st.reg_pointer, d)
  BY <1>1, <1>2, <1>3, FileRegs
<1>7. e.reg_pointer \in Int /\ p <= e.reg_pointer /\ e.reg_pointer <= H
      /\ e.reg_pointer >= st.reg_pointer
  BY <1>4, <1>5
<1>8. FileCode(H, p, e)
  BY <1>1, <1>2, <1>4, <1>7, FileRegs
<1> QED BY <1>6, <1>7, <1>8 DEF d, e

(* alloc_reg: the register is below the new bound, which is the old one or *)
(* the new pointer.                                                        *)
LEMMA FileAlloc ==
    ASSUME NEW H \in Int, NEW p \in Int, NEW c, FileCode(H, p, c)
    PROVE  \E K \in Int : /\ H <= K /\ FileCode(K, p, AllocReg(c))
                          /\ K = H \/ K = AllocReg(c).reg_pointer
                          /\ NextReg(c) \in Int /\ NextReg(c) < K
<1> DEFINE d == AllocReg(c)
<1>0. IsCode(c) /\ {"bc", "free_regs", "reg_pointer"} \subseteq DOMAIN c
  BY DEF FileCode, IsCode
<1>1. c.reg_pointer \in Int /\ p <= c.reg_pointer /\ c.reg_pointer <= H /\ Stream(c.free_regs)
  BY DEF FileCode
<1>2. Grown(c, d)
  BY <1>0, GrownAlloc
<1>3. PICK S : c.free_regs \in Seq(S)
  BY <1>1 DEF Stream
<1>4. CASE c.free_regs # <<>>
  <2> DEFINE n == Len(c.free_regs)
  <2>1. n \in Nat /\ n \in 1 .. n
    BY <1>3, <1>4, EmptySeq
  <2>2. NextReg(c) = c.free_regs[n] /\ c.free_regs[n] \in Int /\ c.free_regs[n] < H
    BY <1>4, <2>1 DEF NextReg, FileCode
  <2>3. d.bc = c.bc /\ d.free_regs = Take(c.free_regs, n - 1) /\ d.reg_pointer = c.reg_pointer
    BY <1>0, <1>4 DEF AllocReg
  <2>4. n - 1 \in Int
    BY <2>1
  <2> HIDE DEF n, d
  <2>5. FileCode(H, p, d)
    BY <1>1, <1>2, <2>3, <2>4, FileTake, FileRegs
  <2>6. H <= H
    OBVIOUS
  <2> QED BY <2>2, <2>5, <2>6 DEF d
<1>5. CASE c.free_regs = <<>>
  <2> DEFINE K == IF H < c.reg_pointer + 1 THEN c.reg_pointer + 1 ELSE H
  <2>1. K \in Int /\ H <= K /\ c.reg_pointer < K /\ (K = H \/ K = c.reg_pointer + 1)
        /\ c.reg_pointer + 1 <= K /\ p <= p
    BY <1>1
  <2>2. NextReg(c) = c.reg_pointer
    BY <1>5 DEF NextReg
  <2>3. d.bc = c.bc /\ d.free_regs = c.free_regs /\ d.reg_pointer = c.reg_pointer + 1
    BY <1>0, <1>5 DEF AllocReg
  <2> HIDE DEF K, d
  <2>4. FileCode(K, p, c)
    BY <2>1, FileHigher
  <2>5. /\ \A n \in 1 .. Len(d.free_regs) : d.free_regs[n] \in Int /\ d.free_regs[n] < K
        /\ d.reg_pointer \in Int /\ p <= d.reg_pointer /\ d.reg_pointer <= K
    BY <1>1, <2>1, <2>3, <2>4 DEF FileCode
  <2>6. FileCode(K, p, d)
    BY <1>1, <1>2, <2>3, <2>4, <2>5, FileRegs
  <2> QED BY <1>1, <2>1, <2>2, <2>3, <2>6 DEF d
<1> QED BY <1>4, <1>5

(* scope_hwm raises the pointer, at most to a higher bound.                *)
LEMMA FileRaise ==
    ASSUME NEW H \in Int, NEW p \in Int, NEW c, FileCode(H, p, c), NEW st,
           st.reg_pointer \in Int, st.n_free_regs \in Int
    PROVE  \E K \in Int : /\ H <= K /\ FileCode(K, p, ScopeHwmEnd(st, c))
                          /\ K = H \/ K <= ScopeHwmEnd(st, c).reg_pointer
                          /\ ScopeHwmEnd(st, c).reg_pointer >= st.reg_pointer
<1> DEFINE K == IF H < st.reg_pointer THEN st.reg_pointer ELSE H
<1>1. K \in Int /\ H <= K /\ st.reg_pointer <= K /\ (K = H \/ K = st.reg_pointer) /\ p <= p
  OBVIOUS
<1> HIDE DEF K
<1>2. FileCode(K, p, c)
  BY <1>1, FileHigher
<1>3. FileCode(K, p, ScopeHwmEnd(st, c)) /\ ScopeHwmEnd(st, c).reg_pointer >= st.reg_pointer
  BY <1>1, <1>2, FileScope
<1>4. K = H \/ K <= ScopeHwmEnd(st, c).reg_pointer
  BY <1>1, <1>3 DEF FileCode
<1> QED BY <1>1, <1>3, <1>4

-----------------------------------------------------------------------------
(* The instructions.                                                       *)

LEMMA WithinAll ==
    ASSUME NEW H \in Int
    PROVE  /\ \A n : In(H, Imm(n))
           /\ \A n \in Int : n < H => In(H, Reg(n))
           /\ \A to : Within(H, Jump(to))
           /\ \A x, on, to : In(H, x) => Within(H, Branch(x, on, to))
           /\ \A op, x : \A d \in Int : d < H /\ In(H, x) => Within(H, Unary(op, d, x))
           /\ \A op, x, y : \A d \in Int :
                  d < H /\ In(H, x) /\ In(H, y) => Within(H, Binary(op, d, x, y))
           /\ \A op, m : \A d \in Int : d < H => Within(H, Load(op, d, m))
           /\ \A op, x, m : \A d \in Int : d < H /\ In(H, x) => Within(H, Store(op, d, x, m))
<1>1. (\A n : In(H, Imm(n))) /\ \A n \in Int : n < H => In(H, Reg(n))
  BY DEF In, Imm, Reg
<1>2. In(H, Imm(0))
  BY <1>1
<1>3. \A to : Within(H, Jump(to))
  BY <1>2 DEF Within, Jump, Blank, Patchable
<1>4. \A x, on, to : In(H, x) => Within(H, Branch(x, on, to))
  BY <1>2 DEF Within, Branch, Blank, Patchable
<1>5. \A op, x : \A d \in Int : d < H /\ In(H, x) => Within(H, Unary(op, d, x))
  BY <1>2 DEF Within, Unary, Blank
<1>6. \A op, x, y : \A d \in Int :
          d < H /\ In(H, x) /\ In(H, y) => Within(H, Binary(op, d, x, y))
  BY <1>2 DEF Within, Binary, Blank
<1>7. \A op, m : \A d \in Int : d < H => Within(H, Load(op, d, m))
  BY <1>2 DEF Within, Load, Blank
<1>8. \A op, x, m : \A d \in Int : d < H /\ In(H, x) => Within(H, Store(op, d, x, m))
  BY <1>2 DEF Within, Store, Blank
<1> QED BY <1>1, <1>3, <1>4, <1>5, <1>6, <1>7, <1>8

(* MaybeImm::from_vs and the like: an immediate, or a load into dest.      *)
LEMMA FileImm ==
    ASSUME NEW H \in Int, NEW p, NEW c, FileCode(H, p, c), NEW k, k # "Reg", NEW n, NEW load,
           NEW dest \in Int, dest < H
    PROVE  LET x == ImmOrLoad(c, k, n, load, dest)
           IN  FileCode(H, p, x.code) /\ In(H, x.mi)
<1>1. In(H, [k |-> k, n |-> n])
  BY DEF In
<1>2. FileCode(H, p, Emit(c, Load(load, dest, n))) /\ In(H, Reg(dest))
  BY WithinAll, FileEmit
<1> QED BY <1>1, <1>2 DEF ImmOrLoad

LEMMA FileScalar ==
    ASSUME NEW H \in Int, NEW p, NEW c, FileCode(H, p, c), NEW x, NEW dest \in Int, dest < H
    PROVE  FileCode(H, p, ScalarMi(c, x, dest).code) /\ In(H, ScalarMi(c, x, dest).mi)
<1>1. CASE x.k = "user"
  <2> DEFINE d == RegisterUserVar(c, x.id)
             n == UserIndex(d, x.id)
             y == ImmOrLoad(d, "ImmUserVar", n, "LoadUserScalar", dest)
  <2>1. FileCode(H, p, d)
    BY FileTables
  <2>2. ScalarMi(c, x, dest) = y
    BY <1>1 DEF ScalarMi
  <2> HIDE DEF d, n
  <2>3. FileCode(H, p, y.code) /\ In(H, y.mi)
    BY <2>1, FileImm
  <2> QED BY <2>2, <2>3
<1>2. CASE x.k # "user"
  <2> DEFINE y == ImmOrLoad(c, "ImmBuiltinVar", x.n, "LoadBuiltinScalar", dest)
  <2>1. ScalarMi(c, x, dest) = y
    BY <1>2 DEF ScalarMi
  <2>2. FileCode(H, p, y.code) /\ In(H, y.mi)
    BY FileImm
  <2> QED BY <2>1, <2>2
<1> QED BY <1>1, <1>2

(* lower_atom_mi.                                                          *)
LEMMA FileAtom ==
    ASSUME NEW H \in Int, NEW p, NEW c, FileCode(H, p, c), NEW a \in Atoms, a.k # "todo",
           NEW dest \in Int, dest < H, NEW slot
    PROVE  FileCode(H, p, AtomMi(c, a, dest, slot).code) /\ In(H, AtomMi(c, a, dest, slot).mi)
<1> DEFINE d == RegisterConst(c, a.v, slot)
           m == (slot - 1) % U16
           x == ImmOrLoad(d, "ImmCnt", m, "LoadConst", dest)
           i == Binary("Matches", dest, [k |-> "Rec", n |-> 0], x.mi)
<1>1. FileCode(H, p, x.code) /\ In(H, x.mi)
  <2>1. FileCode(H, p, d)
    BY FileTables
  <2> HIDE DEF d, m
  <2> QED BY <2>1, FileImm
<1>2. FileCode(H, p, Emit(x.code, i)) /\ In(H, Reg(dest))
  <2>1. In(H, [k |-> "Rec", n |-> 0])
    BY DEF In
  <2> HIDE DEF x
  <2>2. Within(H, i)
    BY <1>1, <2>1, WithinAll
  <2> HIDE DEF i
  <2> QED BY <1>1, <2>2, FileEmit, WithinAll
<1>3. CASE a.k \in {"user", "builtin"}
  BY <1>3, FileScalar DEF AtomMi
<1>4. CASE a.k = "int"
  <2>1. AtomMi(c, a, dest, slot) = [code |-> c, mi |-> Imm(a.n)]
    BY <1>4 DEF AtomMi
  <2> QED BY <2>1, WithinAll
<1>5. CASE a.k = "cnt"
  <2>1. AtomMi(c, a, dest, slot) = x
    BY <1>5 DEF AtomMi
  <2> HIDE DEF x
  <2> QED BY <1>1, <2>1
<1>6. CASE a.k = "regex"
  <2>1. AtomMi(c, a, dest, slot) = [code |-> Emit(x.code, i), mi |-> Reg(dest)]
    BY <1>6 DEF AtomMi
  <2> HIDE DEF x, i
  <2> QED BY <1>2, <2>1
<1> QED BY <1>3, <1>4, <1>5, <1>6, AtomFields

-----------------------------------------------------------------------------
(* Operands of the frames and registers in the pending tasks.              *)

LocalsIn(H, l) == \A n \in 1 .. Len(l) : In(H, l[n].mi)

DestKinds  == {"Into", "LoadPlace", "StorePlace", "UnaryEmit", "BinaryEmit", "TernaryBranch",
               "TernaryThen", "AssignVal", "AssignEmit", "Incr", "RecordEmit"}
PlaceKinds == {"LoadPlace", "StorePlace", "AssignVal", "AssignEmit", "Incr"}
Raisers    == {"ElseEnd", "TernaryElse"}

(* No window is open, what a task will write to is below H, and so is the  *)
(* pointer a ternary will return to.                                       *)
TaskIn(H, t) ==
    /\ t.k \notin {"CallEnd", "Redirection"}
    /\ t.k \in DestKinds => t.dest \in Int /\ t.dest < H
    /\ t.k \in {"StorePlace", "RecordEmit"} => In(H, t.src)
    /\ t.k \in PlaceKinds => t.p.k \notin Indexed
    /\ t.k = "TernaryThen" => t.st.reg_pointer <= H

TasksIn(H, ts) == Stream(ts) /\ \A n \in 1 .. Len(ts) : TaskIn(H, ts[n])

FileAt(H) == FileCode(H, 0, code) /\ LocalsIn(H, locals) /\ TasksIn(H, control)

Attained(H) ==
    \/ H <= code.reg_pointer
    \/ \E j \in 1 .. Len(control) :
          control[j].k \in Raisers /\ H <= control[j].st.reg_pointer

Ended == status = "lowered" => control = <<>>

FileInv == Ended /\ \E H \in Int : FileAt(H) /\ Attained(H)

LEMMA TaskHigher ==
    ASSUME NEW H \in Int, NEW K \in Int, H <= K, NEW t \in Tasks, TaskIn(H, t)
    PROVE  TaskIn(K, t)
<1>1. t.k = "TernaryThen" => t.st.reg_pointer \in Int
  <2>1. t.k = "TernaryThen" => t.st \in RegsState
    BY TaskFields
  <2> QED BY <2>1, WidthAssumption DEF RegsState
<1>2. t.k = "TernaryThen" => t.st.reg_pointer <= K
  BY <1>1 DEF TaskIn
<1>3. t.k \in DestKinds => t.dest \in Int /\ t.dest < K
  BY DEF TaskIn
<1>4. t.k \in {"StorePlace", "RecordEmit"} => In(K, t.src)
  BY WithinHigher DEF TaskIn
<1> QED BY <1>2, <1>3, <1>4 DEF TaskIn

(* The tasks that name no register.                                        *)
LEMMA TaskBare ==
    ASSUME NEW H, NEW t, t.k \notin DestKinds \cup PlaceKinds \cup {"CallEnd", "Redirection"}
    PROVE  TaskIn(H, t)
  BY DEF TaskIn, DestKinds, PlaceKinds

LEMMA TaskCalls ==
    ASSUME NEW H \in Int
    PROVE  /\ \A s : TaskIn(H, Stmt(s))
           /\ \A e : TaskIn(H, Expr(e))
           /\ TaskIn(H, Free)
           /\ \A e : \A r \in Int : r < H => TaskIn(H, Into(e, r))
           /\ \A p : \A r \in Int : r < H /\ p.k \notin Indexed => TaskIn(H, LoadPlace(p, r))
           /\ \A p, x : \A r \in Int : r < H /\ p.k \notin Indexed /\ In(H, x)
                                       => TaskIn(H, StorePlace(p, r, x))
<1>1. /\ \A s : Stmt(s).k = "Stmt"
      /\ \A e : Expr(e).k = "Expr"
      /\ Free.k = "Free"
      /\ \A e, r : Into(e, r).k = "Into" /\ Into(e, r).dest = r
      /\ \A p, r : LoadPlace(p, r).k = "LoadPlace" /\ LoadPlace(p, r).dest = r /\ LoadPlace(p, r).p = p
      /\ \A p, r, x : /\ StorePlace(p, r, x).k = "StorePlace" /\ StorePlace(p, r, x).dest = r
                      /\ StorePlace(p, r, x).p = p /\ StorePlace(p, r, x).src = x
  BY DEF Stmt, Expr, Into, Free, LoadPlace, StorePlace
<1> QED BY <1>1 DEF TaskIn, DestKinds, PlaceKinds

LEMMA SeqNone == ASSUME NEW H PROVE TasksIn(H, <<>>)
<1>1. <<>> \in Seq({}) /\ Len(<<>>) = 0
  BY EmptySeq
<1> QED BY <1>1 DEF TasksIn, Stream

LEMMA SeqOne == ASSUME NEW H, NEW t, TaskIn(H, t) PROVE TasksIn(H, <<t>>)
<1>1. <<t>> \in Seq({t}) /\ Len(<<t>>) = 1 /\ <<t>>[1] = t
  OBVIOUS
<1>2. \A n \in 1 .. Len(<<t>>) : <<t>>[n] = t
  BY <1>1
<1> QED BY <1>1, <1>2 DEF TasksIn, Stream

LEMMA SeqTwo ==
    ASSUME NEW H, NEW t, NEW u, TaskIn(H, t), TaskIn(H, u) PROVE TasksIn(H, <<t, u>>)
<1>1. /\ <<t, u>> \in Seq({t, u}) /\ Len(<<t, u>>) = 2
      /\ <<t, u>>[1] = t /\ <<t, u>>[2] = u
  OBVIOUS
<1>2. \A n \in 1 .. 2 : n = 1 \/ n = 2
  OBVIOUS
<1> QED BY <1>1, <1>2 DEF TasksIn, Stream

LEMMA SeqThree ==
    ASSUME NEW H, NEW t, NEW u, NEW v, TaskIn(H, t), TaskIn(H, u), TaskIn(H, v)
    PROVE  TasksIn(H, <<t, u, v>>)
<1>1. /\ <<t, u, v>> \in Seq({t, u, v}) /\ Len(<<t, u, v>>) = 3
      /\ <<t, u, v>>[1] = t /\ <<t, u, v>>[2] = u /\ <<t, u, v>>[3] = v
  OBVIOUS
<1>2. \A n \in 1 .. 3 : n = 1 \/ n = 2 \/ n = 3
  OBVIOUS
<1> QED BY <1>1, <1>2 DEF TasksIn, Stream

LEMMA SeqConcat ==
    ASSUME NEW H, NEW s, NEW t, TasksIn(H, s), TasksIn(H, t)
    PROVE  TasksIn(H, s \o t)
<1>1. Stream(s) /\ Stream(t)
  BY DEF TasksIn
<1>2. /\ Stream(s \o t) /\ Len(s) \in Nat /\ Len(t) \in Nat /\ Len(s \o t) = Len(s) + Len(t)
      /\ \A i \in 1 .. Len(s) : (s \o t)[i] = s[i]
      /\ \A i \in 1 .. Len(t) : (s \o t)[Len(s) + i] = t[i]
  BY <1>1, StreamConcat
<1>3. ASSUME NEW n \in 1 .. Len(s) + Len(t) PROVE TaskIn(H, (s \o t)[n])
  <2>1. CASE n <= Len(s)
    BY <1>2, <2>1 DEF TasksIn
  <2>2. CASE n > Len(s)
    <3>1. n - Len(s) \in 1 .. Len(t) /\ Len(s) + (n - Len(s)) = n
      BY <1>2, <2>2
    <3> QED BY <1>2, <3>1 DEF TasksIn
  <2> QED BY <1>2, <2>1, <2>2
<1> QED BY <1>2, <1>3 DEF TasksIn

LEMMA SeqBody == ASSUME NEW H \in Int, NEW ss \in Seq(Stmts) PROVE TasksIn(H, Body(ss))
<1>1. Stream(Body(ss))
  BY BodyType DEF Stream
<1>2. Len(ss) \in Nat
  OBVIOUS
<1>3. Len(Body(ss)) = Len(ss) /\ \A n \in 1 .. Len(ss) : Body(ss)[n] = Stmt(ss[n])
  BY <1>2 DEF Body
<1> QED BY <1>1, <1>3, TaskCalls DEF TasksIn

LEMMA SeqSimple == ASSUME NEW H \in Int, NEW ss PROVE TasksIn(H, Simple(ss))
  BY SeqNone, SeqTwo, TaskCalls DEF Simple

-----------------------------------------------------------------------------
(* A step.                                                                 *)

Fits(H) == TypeOK /\ Ended /\ FileAt(H) /\ Attained(H)
Fitted  == FileInv'

(* What the step finds.                                                    *)
LEMMA FitsCode ==
    ASSUME NEW H \in Int, Fits(H)
    PROVE  /\ FileCode(H, code.reg_pointer, code) /\ code \in CodeType
           /\ code.reg_pointer \in Nat /\ code.reg_pointer <= H
           /\ locals \in Seq(Operands) /\ control \in Seq(Tasks)
<1>1. FileCode(H, 0, code) /\ code \in CodeType
  BY DEF Fits, FileAt, TypeOK
<1>2. code.reg_pointer \in Nat
  BY <1>1, WidthAssumption DEF CodeType
<1>3. code.reg_pointer <= code.reg_pointer /\ code.reg_pointer <= H
  BY <1>1, <1>2 DEF FileCode
<1>4. FileCode(H, code.reg_pointer, code)
  BY <1>1, <1>2, <1>3 DEF FileCode
<1> QED BY <1>1, <1>2, <1>3, <1>4 DEF Fits, TypeOK

LEMMA FitsTop ==
    ASSUME NEW H \in Int, Fits(H), control # <<>>
    PROVE  Top \in Tasks /\ TaskIn(H, Top)
<1>1. control \in Seq(Tasks) /\ 1 \in 1 .. Len(control)
  BY EmptySeq DEF Fits, TypeOK
<1> QED BY <1>1, ElementOfSeq DEF Fits, FileAt, TasksIn, Top

LEMMA LocalsAppend ==
    ASSUME NEW H, NEW l, l \in Seq(Operands), LocalsIn(H, l), NEW x, In(H, x.mi)
    PROVE  LocalsIn(H, Append(l, x))
<1> DEFINE m == Append(l, x)
<1>1. Len(l) \in Nat /\ Len(m) = Len(l) + 1 /\ m[Len(l) + 1] = x
      /\ \A i \in 1 .. Len(l) : m[i] = l[i]
  OBVIOUS
<1> HIDE DEF m
<1>2. ASSUME NEW i \in 1 .. Len(m) PROVE In(H, m[i].mi)
  <2>1. i = Len(l) + 1 \/ i \in 1 .. Len(l)
    BY <1>1
  <2> QED BY <1>1, <2>1 DEF LocalsIn
<1> QED BY <1>2 DEF LocalsIn, m

(* The operands of the frames after a step.                                *)
LEMMA FitsLocals ==
    ASSUME NEW H \in Int, Fits(H)
    PROVE  /\ LocalsIn(H, locals) /\ \A n \in Nat : LocalsIn(H, Pop(n))
           /\ \A x : In(H, x.mi) => LocalsIn(H, Push(x))
           /\ \A x : In(H, x.mi) => LocalsIn(H, Append(Pop(1), x))
           /\ \A n \in Nat : /\ In(H, Local(n).mi)
                             /\ Local(n).own => Local(n).mi.k = "Reg"
<1>1. locals \in Seq(Operands) /\ Len(locals) \in Nat
  BY DEF Fits, TypeOK
<1>2. LocalsIn(H, locals)
  BY DEF Fits, FileAt
<1>3. ASSUME NEW n \in Nat PROVE LocalsIn(H, Pop(n)) /\ Pop(n) \in Seq(Operands)
  <2> DEFINE m == IF n < Len(locals) THEN Len(locals) - n ELSE 0
  <2>1. m \in 0 .. Len(locals)
    BY <1>1
  <2>2. Pop(n) = Take(locals, m)
    BY DEF Pop
  <2> HIDE DEF m
  <2>3. m \in Nat /\ Take(locals, m) \in Seq(Operands)
        /\ Len(Take(locals, m)) = (IF m < Len(locals) THEN m ELSE Len(locals))
        /\ \A i \in 1 .. Len(Take(locals, m)) : Take(locals, m)[i] = locals[i]
    BY <1>1, <2>1, TakeProperties
  <2>4. \A i \in 1 .. Len(Take(locals, m)) : i \in 1 .. Len(locals)
    BY <1>1, <2>1, <2>3
  <2> QED BY <1>2, <2>2, <2>3, <2>4 DEF LocalsIn
<1>4. \A l, x : l \in Seq(Operands) /\ LocalsIn(H, l) /\ In(H, x.mi) => LocalsIn(H, Append(l, x))
  BY LocalsAppend
<1>5. ASSUME NEW n \in Nat PROVE In(H, Local(n).mi) /\ (Local(n).own => Local(n).mi.k = "Reg")
  <2>1. CASE n < Len(locals)
    <3>1. Len(locals) - n \in 1 .. Len(locals)
      BY <1>1, <2>1
    <3>2. Local(n) = locals[Len(locals) - n]
      BY <2>1 DEF Local
    <3>3. locals[Len(locals) - n] \in Operands
      BY <1>1, <3>1, ElementOfSeq
    <3> QED BY <1>2, <3>1, <3>2, <3>3 DEF LocalsIn, Operands
  <2>2. CASE ~(n < Len(locals))
    <3>1. Local(n).mi = Imm(0) /\ Local(n).own = FALSE
      BY <2>2 DEF Local, Plain
    <3> QED BY <3>1, WithinAll
  <2> QED BY <2>1, <2>2
<1>6. 1 \in Nat
  OBVIOUS
<1> QED BY <1>1, <1>2, <1>3, <1>4, <1>5, <1>6 DEF Push

LEMMA LocalsHigher ==
    ASSUME NEW H \in Int, NEW K \in Int, H <= K, NEW l, LocalsIn(H, l)
    PROVE  LocalsIn(K, l)
  BY WithinHigher DEF LocalsIn

(* A step that keeps every register below a bound that the old one or the  *)
(* new pointer attains, and that lowers the pointer only when the end of a *)
(* scope it opens will raise it again.                                     *)
LEMMA DoFitsAny ==
    ASSUME NEW H \in Int, Fits(H), control # <<>>, NEW K \in Int, H <= K,
           NEW c, NEW l, NEW new, Do(c, l, new),
           FileCode(K, 0, c), K = H \/ K <= c.reg_pointer,
           \/ code.reg_pointer <= c.reg_pointer
           \/ \E m \in 1 .. Len(new) : /\ new[m].k \in Raisers
                                        /\ new[m].st.reg_pointer = code.reg_pointer,
           Top.k \in Raisers => c.reg_pointer >= Top.st.reg_pointer,
           LocalsIn(K, l), TasksIn(K, new)
    PROVE  Fitted
<1> DEFINE tl == Tail(control)
<1>1. code' = c /\ locals' = l /\ control' = new \o tl /\ status' = status
  BY DEF Do
<1>2. control \in Seq(Tasks) /\ TasksIn(H, control) /\ code.reg_pointer \in Nat
      /\ code.reg_pointer <= H
  BY FitsCode DEF Fits, FileAt
<1>3. /\ Stream(tl) /\ Len(control) \in Nat \ {0} /\ Len(tl) = Len(control) - 1
      /\ \A n \in 1 .. Len(control) - 1 : tl[n] = control[n + 1]
  BY <1>2, StreamTail DEF TasksIn
<1>4. Ended'
  BY <1>1 DEF Fits, Ended
<1> HIDE DEF tl
<1>5. TasksIn(K, tl)
  <2>1. ASSUME NEW n \in 1 .. Len(tl) PROVE TaskIn(K, tl[n])
    <3>1. n + 1 \in 1 .. Len(control) /\ tl[n] = control[n + 1]
      BY <1>3
    <3>2. TaskIn(H, control[n + 1]) /\ control[n + 1] \in Tasks
      BY <1>2, <3>1, ElementOfSeq DEF TasksIn
    <3> QED BY <3>1, <3>2, TaskHigher
  <2> QED BY <1>3, <2>1 DEF TasksIn
<1>6. TasksIn(K, new \o tl)
  BY <1>5, SeqConcat
<1>8. FileAt(K)'
  BY <1>1, <1>6 DEF FileAt
<1>9. /\ Len(new) \in Nat /\ Len(new \o tl) = Len(new) + Len(tl)
      /\ \A i \in 1 .. Len(new) : (new \o tl)[i] = new[i]
      /\ \A i \in 1 .. Len(tl) : (new \o tl)[Len(new) + i] = tl[i]
  <2>1. Stream(new) /\ Stream(tl)
    BY <1>3 DEF TasksIn
  <2> QED BY <2>1, StreamConcat
<1>10. c.reg_pointer \in Int
  BY DEF FileCode
<1>11. Attained(K)'
  <2>1. CASE K <= c.reg_pointer
    BY <1>1, <2>1 DEF Attained
  <2>2. CASE K = H /\ H <= code.reg_pointer
    <3>1. CASE code.reg_pointer <= c.reg_pointer
      <4>1. K <= c.reg_pointer
        BY <1>2, <1>10, <2>2, <3>1
      <4> QED BY <1>1, <4>1 DEF Attained
    <3>2. CASE ~(code.reg_pointer <= c.reg_pointer)
      <4>1. PICK m \in 1 .. Len(new) : /\ new[m].k \in Raisers
                                       /\ new[m].st.reg_pointer = code.reg_pointer
        BY <3>2
      <4>2. m \in 1 .. Len(new \o tl) /\ (new \o tl)[m] = new[m]
        BY <1>3, <1>9
      <4>3. m \in 1 .. Len(control') /\ control'[m] = new[m]
        BY <1>1, <4>2
      <4> QED BY <2>2, <4>1, <4>3 DEF Attained
    <3> QED BY <3>1, <3>2
  <2>3. CASE K = H /\ ~(H <= code.reg_pointer)
    <3>1. PICK j \in 1 .. Len(control) :
              control[j].k \in Raisers /\ H <= control[j].st.reg_pointer
      BY <2>3 DEF Fits, Attained
    <3>2. CASE j = 1
      <4>1. Top.k \in Raisers /\ H <= Top.st.reg_pointer
        BY <3>1, <3>2 DEF Top
      <4>2. Top.st.reg_pointer \in Int
        <5>1. Top \in Tasks
          BY FitsTop
        <5>2. Top.st \in RegsState
          BY <4>1, <5>1, TaskFields DEF Raisers
        <5> QED BY <5>2, WidthAssumption DEF RegsState
      <4>3. K <= c.reg_pointer
        BY <1>10, <2>3, <4>1, <4>2
      <4> QED BY <1>1, <4>3 DEF Attained
    <3>3. CASE j # 1
      <4> DEFINE i == j - 1
                 m == Len(new) + i
      <4>1. i \in 1 .. Len(control) - 1 /\ i + 1 = j /\ i \in 1 .. Len(tl)
        BY <1>3, <3>3
      <4>2. tl[i] = control[j] /\ (new \o tl)[m] = tl[i]
        BY <1>3, <1>9, <4>1
      <4>3. m \in 1 .. Len(new \o tl)
        BY <1>3, <1>9, <4>1
      <4> HIDE DEF m, i
      <4>4. m \in 1 .. Len(control') /\ control'[m] = control[j]
        BY <1>1, <4>2, <4>3
      <4> QED BY <2>3, <3>1, <4>4 DEF Attained
    <3> QED BY <3>2, <3>3
  <2> QED BY <2>1, <2>2, <2>3
<1> QED BY <1>4, <1>8, <1>11 DEF Fitted, FileInv

LEMMA DoFits ==
    ASSUME NEW H \in Int, Fits(H), control # <<>>, NEW K \in Int, H <= K,
           NEW c, NEW l, NEW new, Do(c, l, new),
           FileCode(K, code.reg_pointer, c), K = H \/ K <= c.reg_pointer,
           Top.k \in Raisers => c.reg_pointer >= Top.st.reg_pointer,
           LocalsIn(K, l), TasksIn(K, new)
    PROVE  Fitted
<1>1. code.reg_pointer \in Nat /\ code.reg_pointer <= c.reg_pointer
  BY FitsCode DEF FileCode
<1>2. FileCode(K, 0, c)
  BY <1>1, FileHigher
<1> QED BY <1>1, <1>2, DoFitsAny

(* A step that keeps them below the old bound.                             *)
LEMMA DoFitsSame ==
    ASSUME NEW H \in Int, Fits(H), control # <<>>,
           NEW c, NEW l, NEW new, Do(c, l, new),
           FileCode(H, code.reg_pointer, c), Top.k \notin Raisers,
           LocalsIn(H, l), TasksIn(H, new)
    PROVE  Fitted
<1>1. H <= H
  OBVIOUS
<1> QED BY <1>1, DoFits

-----------------------------------------------------------------------------
(* The statements.                                                         *)

LEMMA FitsLoop ==
    ASSUME NEW H \in Int, Fits(H), control # <<>>, Top.k \notin Raisers,
           NEW cond, NEW body, NEW update, Loop(cond, body, update)
    PROVE  Fitted
<1> DEFINE t == [k |-> "LoopBranch", top |-> FollowingInstr(code, 0), body |-> body,
                 update |-> update]
<1>1. TaskIn(H, t)
  BY TaskBare DEF DestKinds, PlaceKinds
<1>2. TasksIn(H, <<Expr(cond), t>>)
  BY <1>1, SeqTwo, TaskCalls
<1>3. Do(code, locals, <<Expr(cond), t>>)
  BY DEF Loop
<1> QED BY <1>2, <1>3, FitsCode, FitsLocals, DoFitsSame

LEMMA FitsStatement ==
    ASSUME NEW H \in Int, Fits(H), If \/ While \/ For \/ DoWhile \/ ExprStmt
    PROVE  Fitted
<1>1. At("Stmt") /\ control # <<>>
  BY DEF If, While, For, DoWhile, ExprStmt, AtStmt, At
<1>2. Top.s \in Stmts /\ Top.k \notin Raisers
  BY <1>1, AtTypes, TaskFields DEF Fits, Raisers
<1>3. FileCode(H, code.reg_pointer, code) /\ LocalsIn(H, locals)
  BY FitsCode, FitsLocals
<1>4. CASE If
  <2> DEFINE t == [k |-> "IfBranch", st |-> SaveRegs(code), body |-> Top.s.body,
                   orelse |-> Top.s.orelse]
  <2>1. TaskIn(H, t)
    BY TaskBare DEF DestKinds, PlaceKinds
  <2>2. TasksIn(H, <<Expr(Top.s.c), t>>)
    BY <2>1, SeqTwo, TaskCalls
  <2> QED BY <1>1, <1>2, <1>3, <1>4, <2>2, DoFitsSame DEF If
<1>5. CASE While
  BY <1>1, <1>2, <1>5, FitsLoop DEF While
<1>6. CASE For
  <2> DEFINE t == [k |-> "ForTop", s |-> Top.s]
  <2>1. TaskIn(H, t)
    BY TaskBare DEF DestKinds, PlaceKinds
  <2>2. TasksIn(H, Simple(Top.s.init) \o <<t>>)
    BY <2>1, SeqOne, SeqConcat, SeqSimple
  <2> QED BY <1>1, <1>2, <1>3, <1>6, <2>2, DoFitsSame DEF For
<1>7. CASE DoWhile
  <2> DEFINE t == [k |-> "DoBranch", top |-> FollowingInstr(code, 0)]
  <2>1. TaskIn(H, t)
    BY TaskBare DEF DestKinds, PlaceKinds
  <2>2. Top.s.body \in Seq(Stmts)
    BY <1>2, <1>7, StmtFields DEF DoWhile, AtStmt
  <2>3. TasksIn(H, Body(Top.s.body) \o <<Expr(Top.s.c), t>>)
    BY <2>1, <2>2, SeqBody, SeqTwo, SeqConcat, TaskCalls
  <2> QED BY <1>1, <1>2, <1>3, <1>7, <2>3, DoFitsSame DEF DoWhile
<1>8. CASE ExprStmt
  <2>1. TasksIn(H, <<Expr(Top.s.e), Free>>)
    BY SeqTwo, TaskCalls
  <2> QED BY <1>1, <1>2, <1>3, <1>8, <2>1, DoFitsSame DEF ExprStmt
<1> QED BY <1>4, <1>5, <1>6, <1>7, <1>8

LEMMA FitsForTop == ASSUME NEW H \in Int, Fits(H), ForTop PROVE Fitted
<1> DEFINE s == Top.s
           t == [k |-> "LoopEnd", top |-> FollowingInstr(code, 0), branch |-> <<>>]
           new == Body(s.body) \o Simple(s.update) \o <<t>>
<1>1. At("ForTop") /\ control # <<>>
  BY DEF ForTop, At
<1>2. s \in Stmts /\ s.k = "for" /\ Top.k \notin Raisers
  BY <1>1, AtTypes, TaskFields DEF Fits, Raisers
<1>3. CASE s.cond # <<>>
  BY <1>1, <1>2, <1>3, FitsLoop DEF ForTop
<1>4. CASE s.cond = <<>>
  <2>1. s.body \in Seq(Stmts)
    BY <1>2, StmtFields
  <2>2. TaskIn(H, t)
    BY TaskBare DEF DestKinds, PlaceKinds
  <2>3. TasksIn(H, new)
    BY <2>1, <2>2, SeqBody, SeqSimple, SeqOne, SeqConcat
  <2>4. Do(code, locals, new)
    BY <1>4 DEF ForTop
  <2> QED BY <1>1, <1>2, <2>3, <2>4, FitsCode, FitsLocals, DoFitsSame
<1> QED BY <1>3, <1>4

(* The branch of an if, a loop, a do and a ternary.                        *)
LEMMA FitsBranch ==
    ASSUME NEW H \in Int, Fits(H), IfBranch \/ LoopBranch \/ DoBranch \/ TernaryBranch
    PROVE  Fitted
<1>1. /\ control # <<>>
      /\ IfBranch => At("IfBranch")
      /\ LoopBranch => At("LoopBranch")
      /\ DoBranch => At("DoBranch")
      /\ TernaryBranch => At("TernaryBranch")
  BY DEF IfBranch, LoopBranch, DoBranch, TernaryBranch, At
<1>2. /\ IfBranch \/ LoopBranch => Top.body \in Seq(Stmts)
      /\ Top.k \notin Raisers
      /\ TernaryBranch => Top.k = "TernaryBranch"
  BY <1>1, AtTypes, TaskFields DEF Fits, Raisers
<1> DEFINE c(on, to) == FreeLocal(Emit(code, Branch(Local(0).mi, on, to)), Local(0))
<1>3. /\ In(H, Local(0).mi) /\ (Local(0).own => Local(0).mi.k = "Reg")
      /\ FileCode(H, code.reg_pointer, code) /\ LocalsIn(H, Pop(1))
  BY FitsLocals, FitsCode
<1>4. ASSUME NEW on, NEW to PROVE FileCode(H, code.reg_pointer, c(on, to))
  <2> DEFINE i == Branch(Local(0).mi, on, to)
  <2>1. Within(H, i)
    BY <1>3, WithinAll
  <2> HIDE DEF i
  <2>2. FileCode(H, code.reg_pointer, Emit(code, i))
    BY <1>3, <2>1, FileEmit
  <2>3. FileCode(H, code.reg_pointer, FreeLocal(Emit(code, i), Local(0)))
    BY <1>3, <2>2, FileFree
  <2> QED BY <2>3 DEF i
<1>5. CASE IfBranch
  <2> DEFINE t == [k |-> "ThenEnd", st |-> Top.st, orelse |-> Top.orelse,
                   branch |-> EmitLabel(code)]
             d == c(FollowingInstr(code, 1), 0)
             new == Body(Top.body) \o <<t>>
  <2>1. Do(d, Pop(1), new)
    BY <1>5 DEF IfBranch
  <2>2. FileCode(H, code.reg_pointer, d)
    BY <1>4
  <2>3. TaskIn(H, t)
    BY TaskBare DEF DestKinds, PlaceKinds
  <2> HIDE DEF c, d
  <2>4. TasksIn(H, new)
    BY <1>2, <1>5, <2>3, SeqBody, SeqOne, SeqConcat
  <2> QED BY <1>1, <1>2, <1>3, <2>1, <2>2, <2>4, DoFitsSame
<1>6. CASE LoopBranch
  <2> DEFINE t == [k |-> "LoopEnd", top |-> Top.top, branch |-> <<EmitLabel(code)>>]
             d == c(FollowingInstr(code, 1), 0)
             new == Body(Top.body) \o Simple(Top.update) \o <<t>>
  <2>1. Do(d, Pop(1), new)
    BY <1>6 DEF LoopBranch
  <2>2. FileCode(H, code.reg_pointer, d)
    BY <1>4
  <2>3. TaskIn(H, t)
    BY TaskBare DEF DestKinds, PlaceKinds
  <2> HIDE DEF c, d
  <2>4. TasksIn(H, new)
    BY <1>2, <1>6, <2>3, SeqBody, SeqSimple, SeqOne, SeqConcat
  <2> QED BY <1>1, <1>2, <1>3, <2>1, <2>2, <2>4, DoFitsSame
<1>7. CASE DoBranch
  <2> DEFINE d == c(Top.top, FollowingInstr(code, 1))
  <2>1. Do(d, Pop(1), <<>>)
    BY <1>7 DEF DoBranch
  <2>2. FileCode(H, code.reg_pointer, d)
    BY <1>4
  <2> HIDE DEF c, d
  <2> QED BY <1>1, <1>2, <1>3, <2>1, <2>2, SeqNone, DoFitsSame
<1>8. CASE TernaryBranch
  <2> DEFINE d == c(FollowingInstr(code, 1), 0)
             t == [k |-> "TernaryThen", st |-> SaveRegs(d), f |-> Top.f, dest |-> Top.dest,
                   branch |-> EmitLabel(code)]
             new == <<Into(Top.t, Top.dest), t>>
  <2>1. Do(d, Pop(1), new)
    BY <1>8 DEF TernaryBranch
  <2>2. FileCode(H, code.reg_pointer, d)
    BY <1>4
  <2>3. Top.dest \in Int /\ Top.dest < H
    BY <1>1, <1>2, <1>8, FitsTop DEF TaskIn, DestKinds
  <2> HIDE DEF c, d
  <2>4. SaveRegs(d).reg_pointer <= H
    BY <2>2 DEF SaveRegs, FileCode
  <2>5. TaskIn(H, t)
    BY <2>3, <2>4 DEF TaskIn, DestKinds, PlaceKinds
  <2> HIDE DEF t
  <2>6. TasksIn(H, new)
    BY <2>3, <2>5, SeqTwo, TaskCalls
  <2> QED BY <1>1, <1>2, <1>3, <2>1, <2>2, <2>6, DoFitsSame
<1> QED BY <1>5, <1>6, <1>7, <1>8

(* The steps that emit jumps and patch labels.                             *)
LEMMA FitsPatch ==
    ASSUME NEW H \in Int, Fits(H), ThenEnd \/ LoopEnd
    PROVE  Fitted
<1>1. /\ control # <<>> /\ FileCode(H, code.reg_pointer, code) /\ LocalsIn(H, locals)
      /\ \E k \in {"ThenEnd", "LoopEnd"} : At(k)
  BY FitsCode, FitsLocals DEF ThenEnd, LoopEnd, At
<1>2. Top.k \notin Raisers
  BY <1>1, AtTypes DEF Fits, Raisers
<1>3. \A c : FileCode(H, code.reg_pointer, c) =>
                 \A to : FileCode(H, code.reg_pointer, Emit(c, Jump(to)))
  BY WithinAll, FileEmit
<1>4. \A c, l : FileCode(H, code.reg_pointer, c) =>
                 /\ \A to : FileCode(H, code.reg_pointer, SetLabel(c, l, to))
                 /\ FileCode(H, code.reg_pointer, PushStartLabel(c, l))
  BY FilePatch
<1>5. CASE ThenEnd
  <2> DEFINE c == SetLabel(code, Top.branch, FollowingInstr(code, 0))
             p == PushStartLabel(c, Top.branch)
             d == Emit(p, Jump(0))
             t == [k |-> "ElseEnd", st |-> [Top.st EXCEPT !.reg_pointer = @ + 1],
                   jump |-> EmitLabel(code)]
             new == Body(Top.orelse[1]) \o <<t>>
  <2>1. FileCode(H, code.reg_pointer, c)
    BY <1>1, <1>4
  <2>2. FileCode(H, code.reg_pointer, d)
    <3> HIDE DEF c
    <3>1. FileCode(H, code.reg_pointer, p)
      BY <1>4, <2>1
    <3> HIDE DEF p
    <3> QED BY <1>3, <3>1
  <2>3. CASE Top.orelse = <<>>
    <3>1. Do(c, locals, <<>>)
      BY <1>5, <2>3 DEF ThenEnd
    <3> HIDE DEF c
    <3> QED BY <1>1, <1>2, <2>1, <3>1, SeqNone, DoFitsSame
  <2>4. CASE Top.orelse # <<>>
    <3>1. Do(d, locals, new)
      BY <1>5, <2>4 DEF ThenEnd
    <3>2. Top.orelse[1] \in Seq(Stmts)
      <4>1. Top.orelse \in Seq(Seq(Stmts))
        BY <1>5, AtTypes, TaskFields DEF Fits, ThenEnd
      <4>2. 1 \in 1 .. Len(Top.orelse)
        BY <2>4, <4>1, EmptySeq
      <4> QED BY <4>1, <4>2, ElementOfSeq
    <3>3. TaskIn(H, t)
      BY TaskBare DEF DestKinds, PlaceKinds
    <3> HIDE DEF c, p, d, t
    <3>4. TasksIn(H, new)
      BY <3>2, <3>3, SeqBody, SeqOne, SeqConcat
    <3> QED BY <1>1, <1>2, <2>2, <3>1, <3>4, DoFitsSame
  <2> QED BY <2>3, <2>4
<1>6. CASE LoopEnd
  <2> DEFINE c == Emit(code, Jump(Top.top))
             d == SetLabel(c, Top.branch[1], FollowingInstr(c, 0))
  <2>1. Do(c, locals, <<>>) \/ Do(d, locals, <<>>)
    BY <1>6 DEF LoopEnd
  <2>2. FileCode(H, code.reg_pointer, c)
    BY <1>1, <1>3
  <2> HIDE DEF c
  <2>3. FileCode(H, code.reg_pointer, d)
    BY <1>4, <2>2
  <2> HIDE DEF d
  <2> QED BY <1>1, <1>2, <2>1, <2>2, <2>3, SeqNone, DoFitsSame
<1> QED BY <1>5, <1>6

(* The steps that close a scope: an else, the arms of a ternary.           *)
LEMMA FitsRaise ==
    ASSUME NEW H \in Int, Fits(H), ElseEnd \/ TernaryElse
    PROVE  Fitted
<1>1. control # <<>> /\ FileCode(H, code.reg_pointer, code) /\ code.reg_pointer \in Nat
  BY FitsCode DEF ElseEnd, TernaryElse, At
<1> DEFINE c == ScopeHwmEnd(Top.st, code)
<1>2. Top.st \in RegsState
  BY AtTypes, TaskFields DEF ElseEnd, TernaryElse, Fits
<1>3. Top.st.reg_pointer \in Int /\ Top.st.n_free_regs \in Int
  BY <1>2, WidthAssumption DEF RegsState
<1>4. PICK K \in Int : /\ H <= K /\ FileCode(K, code.reg_pointer, c)
                       /\ K = H \/ K <= c.reg_pointer
                       /\ c.reg_pointer >= Top.st.reg_pointer
  BY <1>1, <1>3, FileRaise
<1> HIDE DEF c
<1>5. LocalsIn(K, locals)
  BY <1>4, FitsLocals, LocalsHigher
<1>6. \A d : FileCode(K, code.reg_pointer, d) /\ SameRegs(c, d) /\ Do(d, locals, <<>>) => Fitted
  <2> TAKE d
  <2> HAVE FileCode(K, code.reg_pointer, d) /\ SameRegs(c, d) /\ Do(d, locals, <<>>)
  <2>1. d.reg_pointer = c.reg_pointer
    BY DEF SameRegs
  <2> QED BY <1>1, <1>4, <1>5, <2>1, SeqNone, DoFits
<1>7. \A d : FileCode(K, code.reg_pointer, d) /\ SameRegs(c, d) =>
          \A l, to : /\ FileCode(K, code.reg_pointer, SetLabel(d, l, to))
                     /\ SameRegs(c, SetLabel(d, l, to))
  <2> TAKE d
  <2> HAVE FileCode(K, code.reg_pointer, d) /\ SameRegs(c, d)
  <2> TAKE l, to
  <2>1. SameRegs(d, SetLabel(d, l, to))
    BY FileHasRegs, KeepRegs
  <2> QED BY <2>1, FilePatch, SameRegsTrans
<1>8. SameRegs(c, c)
  BY <1>4, FileHasRegs DEF SameRegs
<1>9. CASE ElseEnd
  <2> DEFINE d == SetLabel(c, Top.jump, FollowingInstr(c, 0))
  <2>1. Do(d, locals, <<>>)
    BY <1>9 DEF ElseEnd, c
  <2>2. FileCode(K, code.reg_pointer, d) /\ SameRegs(c, d)
    BY <1>4, <1>7, <1>8
  <2> HIDE DEF d
  <2> QED BY <1>6, <2>1, <2>2
<1>10. CASE TernaryElse
  <2> DEFINE b == SetLabel(c, Top.branch, Top.label)
             d == SetLabel(b, Top.jump, FollowingInstr(b, 0))
  <2>1. Do(d, locals, <<>>)
    BY <1>10 DEF TernaryElse, c
  <2>2. FileCode(K, code.reg_pointer, b) /\ SameRegs(c, b)
    BY <1>4, <1>7, <1>8
  <2> HIDE DEF b
  <2>3. FileCode(K, code.reg_pointer, d) /\ SameRegs(c, d)
    BY <1>7, <2>2
  <2> HIDE DEF d
  <2> QED BY <1>6, <2>1, <2>3
<1> QED BY <1>9, <1>10

(* The end of the first arm: the pointer returns to where the scope began, *)
(* and the task that ends the second arm keeps where it had been.          *)
LEMMA FitsThen == ASSUME NEW H \in Int, Fits(H), TernaryThen PROVE Fitted
<1> DEFINE b == ScopeEnd(Top.st, code)
           c == Emit(b, Jump(0))
           t == [k |-> "TernaryElse", st |-> AfterScope(Top.st, code), branch |-> Top.branch,
                 jump |-> EmitLabel(code), label |-> FollowingInstr(c, 0)]
           new == <<Into(Top.f, Top.dest), t>>
<1>1. /\ control # <<>> /\ At("TernaryThen") /\ FileCode(H, code.reg_pointer, code)
      /\ code.reg_pointer \in Nat
  BY FitsCode DEF TernaryThen, At
<1>2. Top.k = "TernaryThen" /\ Top.k \notin Raisers /\ Top.st \in RegsState
  BY <1>1, AtTypes, TaskFields DEF Fits, Raisers
<1>3. Top.st.reg_pointer \in Nat /\ Top.st.n_free_regs \in Nat
  BY <1>2, WidthAssumption DEF RegsState
<1>4. Top.st.reg_pointer <= H /\ Top.dest \in Int /\ Top.dest < H
  BY <1>1, <1>2, FitsTop DEF TaskIn, DestKinds
<1>5. Do(c, locals, new)
  BY DEF TernaryThen
<1>6. FileCode(H, 0, c)
  <2>1. FileCode(H, Top.st.reg_pointer, b)
    BY <1>1, <1>3, <1>4, FileScope
  <2> HIDE DEF b
  <2>2. H <= H /\ 0 <= Top.st.reg_pointer /\ 0 \in Int
    BY <1>3
  <2>3. FileCode(H, 0, b)
    BY <1>3, <2>1, <2>2, FileHigher
  <2> QED BY <2>3, WithinAll, FileEmit
<1>7. t.k \in Raisers /\ t.st.reg_pointer = code.reg_pointer
  BY <1>2 DEF Raisers, AfterScope, RegsState
<1>8. TaskIn(H, t)
  BY TaskBare DEF DestKinds, PlaceKinds
<1> HIDE DEF b, c, t
<1>9. 2 \in 1 .. Len(new) /\ new[2] = t
  OBVIOUS
<1>10. TasksIn(H, new)
  BY <1>4, <1>8, SeqTwo, TaskCalls
<1> HIDE DEF new
<1>11. H <= H
  OBVIOUS
<1> QED BY <1>1, <1>2, <1>5, <1>6, <1>7, <1>9, <1>10, <1>11, FitsLocals, DoFitsAny

-----------------------------------------------------------------------------
(* The expressions.                                                        *)

(* A step that takes a register for an operand.                            *)
LEMMA FitsAlloc ==
    ASSUME NEW H \in Int, Fits(H), control # <<>>, Top.k \notin Raisers
    PROVE  \E K \in Int : /\ H <= K /\ FileCode(K, code.reg_pointer, AllocReg(code))
                          /\ K = H \/ K <= AllocReg(code).reg_pointer
                          /\ NextReg(code) \in Int /\ NextReg(code) < K
                          /\ LocalsIn(K, Push(Own(NextReg(code)))) /\ TaskIn(K, Top)
                          /\ \A n \in Nat : In(K, Local(n).mi)
<1> DEFINE r == NextReg(code)
           d == AllocReg(code)
<1>1. FileCode(H, code.reg_pointer, code) /\ code.reg_pointer \in Int /\ LocalsIn(H, locals)
      /\ Top \in Tasks /\ TaskIn(H, Top)
  BY FitsCode, FitsLocals, FitsTop
<1>2. PICK K \in Int : /\ H <= K /\ FileCode(K, code.reg_pointer, d)
                       /\ K = H \/ K = d.reg_pointer
                       /\ r \in Int /\ r < K
  BY <1>1, FileAlloc
<1> HIDE DEF d, r
<1>3. K = H \/ K <= d.reg_pointer
  BY <1>2
<1>4. LocalsIn(K, Push(Own(r)))
  <2>1. LocalsIn(K, locals) /\ In(K, Own(r).mi) /\ locals \in Seq(Operands)
    BY <1>1, <1>2, LocalsHigher, WithinAll, FitsCode DEF Own
  <2> QED BY <2>1, LocalsAppend DEF Push
<1>5. TaskIn(K, Top) /\ \A n \in Nat : In(K, Local(n).mi)
  BY <1>1, <1>2, TaskHigher, FitsLocals, WithinHigher
<1> QED BY <1>2, <1>3, <1>4, <1>5 DEF d, r

LEMMA FitsOperand ==
    ASSUME Windowless, NEW H \in Int, Fits(H),
           \/ FreeTop \/ LowerNode \/ UnaryInto \/ BinaryInto \/ TernaryInto
           \/ AssignInto \/ AssignVal \/ IncrInto \/ StoreRecord
    PROVE  Fitted
<1>1. control # <<>>
      /\ (FreeTop => At("Free")) /\ (LowerNode => At("Expr"))
      /\ (UnaryInto \/ BinaryInto \/ TernaryInto \/ AssignInto \/ IncrInto => At("Into"))
      /\ (AssignVal => At("AssignVal")) /\ (StoreRecord => At("StorePlace"))
  BY DEF FreeTop, LowerNode, UnaryInto, BinaryInto, TernaryInto, AssignInto, AssignVal,
     IncrInto, StoreRecord, AtInto, AtPlace, At
<1>2. /\ Top.k \in {"Free", "Expr", "Into", "AssignVal", "StorePlace"} /\ Top.k \notin Raisers
      /\ (UnaryInto \/ BinaryInto \/ TernaryInto \/ AssignInto \/ IncrInto => Top.k = "Into")
      /\ (AssignVal => Top.k = "AssignVal") /\ (StoreRecord => Top.k = "StorePlace")
  BY <1>1, AtTypes DEF Fits, Raisers
<1>3. /\ FileCode(H, code.reg_pointer, code) /\ LocalsIn(H, locals) /\ LocalsIn(H, Pop(1))
      /\ In(H, Local(0).mi) /\ (Local(0).own => Local(0).mi.k = "Reg")
  BY FitsCode, FitsLocals
<1>4. Top \in Tasks /\ TaskIn(H, Top)
  BY <1>1, FitsTop
<1>5. Top.k \in {"Into", "AssignVal", "StorePlace"} => Top.dest \in Int /\ Top.dest < H
  BY <1>4 DEF TaskIn, DestKinds
<1>6. CASE FreeTop
  <2>1. FileCode(H, code.reg_pointer, FreeLocal(code, Local(0)))
    BY <1>3, FileFree
  <2> QED BY <1>1, <1>2, <1>3, <1>6, <2>1, SeqNone, DoFitsSame DEF FreeTop
<1>7. CASE LowerNode
  <2> DEFINE r == NextReg(code)
             c == AllocReg(code)
             l == Push(Own(r))
             x == Into(Top.e, r)
  <2>1. PICK K \in Int : /\ H <= K /\ FileCode(K, code.reg_pointer, c)
                         /\ K = H \/ K <= c.reg_pointer
                         /\ r \in Int /\ r < K /\ LocalsIn(K, l)
    BY <1>1, <1>2, FitsAlloc
  <2>2. Do(c, l, <<x>>)
    BY <1>7 DEF LowerNode
  <2>3. TasksIn(K, <<x>>)
    BY <2>1, SeqOne, TaskCalls
  <2> HIDE DEF c, l, x, r
  <2> QED BY <1>1, <1>2, <2>1, <2>2, <2>3, DoFits
<1>8. CASE UnaryInto
  <2> DEFINE t == [k |-> "UnaryEmit", op |-> Top.e.op, dest |-> Top.dest]
  <2>1. TaskIn(H, t)
    BY <1>2, <1>5, <1>8 DEF TaskIn, DestKinds, PlaceKinds
  <2>2. TasksIn(H, <<Expr(Top.e.e), t>>)
    BY <2>1, SeqTwo, TaskCalls
  <2> QED BY <1>1, <1>2, <1>3, <1>8, <2>2, DoFitsSame DEF UnaryInto
<1>9. CASE BinaryInto
  <2> DEFINE t == [k |-> "BinaryEmit", op |-> Top.e.op, dest |-> Top.dest]
  <2>1. TaskIn(H, t)
    BY <1>2, <1>5, <1>9 DEF TaskIn, DestKinds, PlaceKinds
  <2>2. TasksIn(H, <<Expr(Top.e.l), Expr(Top.e.r), t>>)
    BY <2>1, SeqThree, TaskCalls
  <2> QED BY <1>1, <1>2, <1>3, <1>9, <2>2, DoFitsSame DEF BinaryInto
<1>10. CASE TernaryInto
  <2> DEFINE t == [k |-> "TernaryBranch", t |-> Top.e.t, f |-> Top.e.f, dest |-> Top.dest]
  <2>1. TaskIn(H, t)
    BY <1>2, <1>5, <1>10 DEF TaskIn, DestKinds, PlaceKinds
  <2>2. TasksIn(H, <<Expr(Top.e.c), t>>)
    BY <2>1, SeqTwo, TaskCalls
  <2> QED BY <1>1, <1>2, <1>3, <1>10, <2>2, DoFitsSame DEF TernaryInto
<1>11. AssignInto \/ IncrInto => Top.e.p.k \notin Indexed
  <2>1. AssignInto \/ IncrInto => Top.e \in Exprs /\ Top.e.k \in {"assign", "incr"}
    BY <1>2, <1>4, TaskFields DEF AssignInto, IncrInto, AtInto
  <2> QED BY <2>1 DEF Windowless, WindowlessOver
<1>12. CASE AssignInto
  <2> DEFINE t == [k |-> "AssignVal", op |-> Top.e.op, p |-> Top.e.p, dest |-> Top.dest]
  <2>1. TaskIn(H, t)
    BY <1>2, <1>5, <1>11, <1>12 DEF TaskIn, DestKinds, PlaceKinds
  <2>2. TasksIn(H, <<Expr(Top.e.e), t>>)
    BY <2>1, SeqTwo, TaskCalls
  <2> QED BY <1>1, <1>2, <1>3, <1>12, <2>2, DoFitsSame DEF AssignInto
<1>13. CASE AssignVal /\ Top.op = "Set"
  <2> DEFINE x == StorePlace(Top.p, Top.dest, Local(0).mi)
  <2>1. Do(code, locals, <<x, Free>>)
    BY <1>13 DEF AssignVal
  <2>2. Top.p.k \notin Indexed
    BY <1>2, <1>4, <1>13 DEF TaskIn, PlaceKinds
  <2>3. TasksIn(H, <<x, Free>>)
    BY <1>2, <1>3, <1>5, <1>13, <2>2, SeqTwo, TaskCalls
  <2> HIDE DEF x
  <2> QED BY <1>1, <1>2, <1>3, <2>1, <2>3, DoFitsSame
<1>14. CASE AssignVal /\ Top.op # "Set"
  <2> DEFINE r == NextReg(code)
             c == AllocReg(code)
             l == Push(Own(r))
             t == [k |-> "AssignEmit", op |-> Top.op, p |-> Top.p, dest |-> Top.dest]
             x == LoadPlace(Top.p, r)
  <2>1. PICK K \in Int : /\ H <= K /\ FileCode(K, code.reg_pointer, c)
                         /\ K = H \/ K <= c.reg_pointer
                         /\ r \in Int /\ r < K /\ LocalsIn(K, l) /\ TaskIn(K, Top)
    BY <1>1, <1>2, FitsAlloc
  <2>2. Do(c, l, <<x, t>>)
    BY <1>14 DEF AssignVal
  <2>3. Top.p.k \notin Indexed /\ Top.dest \in Int /\ Top.dest < K
    BY <1>2, <1>14, <2>1 DEF TaskIn, PlaceKinds, DestKinds
  <2>4. TaskIn(K, t)
    BY <2>3 DEF TaskIn, DestKinds, PlaceKinds
  <2>5. TasksIn(K, <<x, t>>)
    BY <2>1, <2>3, <2>4, SeqTwo, TaskCalls
  <2> HIDE DEF c, l, x, r, t
  <2> QED BY <1>1, <1>2, <2>1, <2>2, <2>5, DoFits
<1>15. CASE IncrInto
  <2> DEFINE t == [k |-> "Incr", op |-> Top.e.op, post |-> Top.e.post, p |-> Top.e.p,
                   dest |-> Top.dest]
  <2>1. TaskIn(H, t)
    BY <1>2, <1>5, <1>11, <1>15 DEF TaskIn, DestKinds, PlaceKinds
  <2>2. TasksIn(H, <<LoadPlace(Top.e.p, Top.dest), t>>)
    BY <1>2, <1>5, <1>11, <1>15, <2>1, SeqTwo, TaskCalls
  <2> QED BY <1>1, <1>2, <1>3, <1>15, <2>2, DoFitsSame DEF IncrInto
<1>16. CASE StoreRecord
  <2> DEFINE t == [k |-> "RecordEmit", dest |-> Top.dest, src |-> Top.src]
  <2>1. In(H, Top.src)
    BY <1>2, <1>4, <1>16 DEF TaskIn
  <2>2. TaskIn(H, t)
    BY <1>2, <1>5, <1>16, <2>1 DEF TaskIn, DestKinds, PlaceKinds
  <2>3. TasksIn(H, <<Expr(Top.p.e), t>>)
    BY <2>2, SeqTwo, TaskCalls
  <2> QED BY <1>1, <1>2, <1>3, <1>16, <2>3, DoFitsSame DEF StoreRecord
<1> QED BY <1>6, <1>7, <1>8, <1>9, <1>10, <1>12, <1>13, <1>14, <1>15, <1>16

(* Emitting the instruction of an operator, then freeing its operands.     *)
LEMMA FitsOperator ==
    ASSUME NEW H \in Int, Fits(H), UnaryEmit \/ BinaryEmit \/ AssignEmit \/ RecordEmit
    PROVE  Fitted
<1>1. /\ UnaryEmit => At("UnaryEmit")
      /\ BinaryEmit => At("BinaryEmit")
      /\ AssignEmit => At("AssignEmit")
      /\ RecordEmit => At("RecordEmit")
  BY DEF UnaryEmit, BinaryEmit, AssignEmit, RecordEmit
<1>2. control # <<>>
  BY <1>1 DEF At
<1>3. /\ Top.k \in {"UnaryEmit", "BinaryEmit", "AssignEmit", "RecordEmit"}
      /\ Top.k \notin Raisers /\ (RecordEmit => Top.k = "RecordEmit")
      /\ (AssignEmit => Top.k = "AssignEmit")
  BY <1>1, AtTypes DEF Fits, Raisers
<1>4. /\ Top.dest \in Int /\ Top.dest < H /\ (RecordEmit => In(H, Top.src))
      /\ (AssignEmit => Top.p.k \notin Indexed)
  BY <1>2, <1>3, FitsTop DEF TaskIn, DestKinds, PlaceKinds
<1> DEFINE x == Local(0)
           y == Local(1)
           z == Local(2)
<1>5. /\ In(H, x.mi) /\ In(H, y.mi) /\ In(H, z.mi)
      /\ (x.own => x.mi.k = "Reg") /\ (y.own => y.mi.k = "Reg")
      /\ LocalsIn(H, Pop(1)) /\ LocalsIn(H, Pop(2))
  BY FitsLocals
<1>6. ASSUME NEW i, Within(H, i)
      PROVE  /\ FileCode(H, code.reg_pointer, Emit(code, i))
             /\ FileCode(H, code.reg_pointer, FreeLocal(Emit(code, i), x))
             /\ FileCode(H, code.reg_pointer, FreeLocal(FreeLocal(Emit(code, i), y), x))
  <2> HIDE DEF x, y
  <2>1. FileCode(H, code.reg_pointer, Emit(code, i))
    BY <1>6, FitsCode, FileEmit
  <2>2. FileCode(H, code.reg_pointer, FreeLocal(Emit(code, i), x))
        /\ FileCode(H, code.reg_pointer, FreeLocal(Emit(code, i), y))
    BY <1>5, <2>1, FileFree
  <2>3. FileCode(H, code.reg_pointer, FreeLocal(FreeLocal(Emit(code, i), y), x))
    BY <1>5, <2>2, FileFree
  <2> QED BY <2>1, <2>2, <2>3
<1>7. CASE UnaryEmit
  <2> DEFINE i == Unary(Top.op, Top.dest, x.mi)
             c == FreeLocal(Emit(code, i), x)
  <2>1. Do(c, Pop(1), <<>>)
    BY <1>7 DEF UnaryEmit
  <2>2. Within(H, i)
    BY <1>4, <1>5, WithinAll
  <2> HIDE DEF i
  <2>3. FileCode(H, code.reg_pointer, c)
    BY <1>6, <2>2
  <2> HIDE DEF c
  <2> QED BY <1>2, <1>3, <1>5, <2>1, <2>3, SeqNone, DoFitsSame
<1>8. CASE RecordEmit
  <2> DEFINE i == Binary("StoreRecord", Top.dest, x.mi, Top.src)
             c == FreeLocal(Emit(code, i), x)
  <2>1. Do(c, Pop(1), <<>>)
    BY <1>8 DEF RecordEmit
  <2>2. Within(H, i)
    BY <1>4, <1>5, <1>8, WithinAll
  <2> HIDE DEF i
  <2>3. FileCode(H, code.reg_pointer, c)
    BY <1>6, <2>2
  <2> HIDE DEF c
  <2> QED BY <1>2, <1>3, <1>5, <2>1, <2>3, SeqNone, DoFitsSame
<1>9. CASE BinaryEmit
  <2> DEFINE i == Binary(Top.op, Top.dest, y.mi, x.mi)
             c == FreeLocal(FreeLocal(Emit(code, i), y), x)
  <2>1. Do(c, Pop(2), <<>>)
    BY <1>9 DEF BinaryEmit
  <2>2. Within(H, i)
    BY <1>4, <1>5, WithinAll
  <2> HIDE DEF i
  <2>3. FileCode(H, code.reg_pointer, c)
    BY <1>6, <2>2
  <2> HIDE DEF c
  <2> QED BY <1>2, <1>3, <1>5, <2>1, <2>3, SeqNone, DoFitsSame
<1>10. CASE AssignEmit
  <2> DEFINE i == Binary(Top.op, Top.dest, x.mi, z.mi)
             c == Emit(code, i)
             s == StorePlace(Top.p, Top.dest, Reg(Top.dest))
  <2>1. Do(c, Pop(1), <<s, Free, Free>>)
    BY <1>10 DEF AssignEmit
  <2>2. Within(H, i)
    BY <1>4, <1>5, WithinAll
  <2> HIDE DEF i
  <2>3. FileCode(H, code.reg_pointer, c)
    BY <1>6, <2>2
  <2>4. In(H, Reg(Top.dest))
    BY <1>4, WithinAll
  <2>5. TasksIn(H, <<s, Free, Free>>)
    BY <1>4, <1>10, <2>4, SeqThree, TaskCalls
  <2> HIDE DEF c, s
  <2> QED BY <1>2, <1>3, <1>5, <2>1, <2>3, <2>5, DoFitsSame
<1> QED BY <1>7, <1>8, <1>9, <1>10

(* An increment, before or after.                                          *)
LEMMA FitsIncr == ASSUME NEW H \in Int, Fits(H), Incr PROVE Fitted
<1>1. At("Incr") /\ control # <<>>
  BY DEF Incr, At
<1>2. Top.k = "Incr" /\ Top.k \notin Raisers
  BY <1>1, AtTypes DEF Fits, Raisers
<1>3. Top.dest \in Int /\ Top.dest < H /\ Top.p.k \notin Indexed
  BY <1>1, <1>2, FitsTop DEF TaskIn, DestKinds, PlaceKinds
<1> DEFINE val == Local(0).mi
<1>4. In(H, val) /\ FileCode(H, code.reg_pointer, code) /\ LocalsIn(H, Pop(1))
      /\ code.reg_pointer \in Int
  BY FitsLocals, FitsCode
<1> HIDE DEF val
<1>5. CASE ~Top.post
  <2> DEFINE i == Binary(Top.op, Top.dest, val, Imm(1))
             c == Emit(code, i)
             x == StorePlace(Top.p, Top.dest, Reg(Top.dest))
  <2>1. Do(c, Pop(1), <<x>>)
    BY <1>5 DEF Incr, val
  <2>2. Within(H, i)
    BY <1>3, <1>4, WithinAll
  <2> HIDE DEF i
  <2>3. FileCode(H, code.reg_pointer, c)
    BY <1>4, <2>2, FileEmit
  <2>4. TasksIn(H, <<x>>)
    BY <1>3, WithinAll, SeqOne, TaskCalls
  <2> HIDE DEF c, x
  <2> QED BY <1>1, <1>2, <1>4, <2>1, <2>3, <2>4, DoFitsSame
<1>6. CASE Top.post
  <2> DEFINE i == Binary("Add", Top.dest, val, Imm(0))
             c == Emit(code, i)
             tmp == NextReg(c)
             d == AllocReg(c)
             j == Binary(Top.op, tmp, val, Imm(1))
             e == Emit(d, j)
             x == StorePlace(Top.p, tmp, Reg(tmp))
             l == Append(Pop(1), Own(tmp))
  <2>1. Do(e, l, <<x, Free>>)
    BY <1>6 DEF Incr, val
  <2>2. Within(H, i)
    BY <1>3, <1>4, WithinAll
  <2> HIDE DEF i
  <2>3. FileCode(H, code.reg_pointer, c)
    BY <1>4, <2>2, FileEmit
  <2> HIDE DEF c
  <2>4. PICK K \in Int : /\ H <= K /\ FileCode(K, code.reg_pointer, d)
                         /\ K = H \/ K = d.reg_pointer
                         /\ tmp \in Int /\ tmp < K
    BY <1>4, <2>3, FileAlloc
  <2> HIDE DEF d, tmp
  <2>5. Within(K, j)
    <3>1. In(K, val) /\ In(K, Imm(1))
      BY <1>4, <2>4, WithinHigher, WithinAll
    <3> QED BY <2>4, <3>1, WithinAll
  <2> HIDE DEF j
  <2>6. FileCode(K, code.reg_pointer, e)
    BY <2>4, <2>5, FileEmit
  <2>7. K = H \/ K <= e.reg_pointer
    <3>1. e.reg_pointer = d.reg_pointer
      BY <2>4, FileHasRegs, KeepRegs DEF SameRegs
    <3> HIDE DEF e
    <3> QED BY <2>4, <3>1
  <2>8. LocalsIn(K, l)
    <3>1. LocalsIn(K, Pop(1)) /\ In(K, Own(tmp).mi) /\ Pop(1) \in Seq(Operands)
      BY <1>4, <2>4, LocalsHigher, WithinAll, LocalTypes DEF Own, Fits, TypeOK
    <3> QED BY <3>1, LocalsAppend
  <2>9. TasksIn(K, <<x, Free>>)
    BY <1>3, <2>4, WithinAll, SeqTwo, TaskCalls
  <2> HIDE DEF e, x, l
  <2> QED BY <1>1, <1>2, <2>1, <2>4, <2>6, <2>7, <2>8, <2>9, DoFits
<1> QED BY <1>5, <1>6

(* lower_atom and lower_atom_into.                                         *)
LEMMA FitsAtom == ASSUME NEW H \in Int, Fits(H), LowerAtom \/ AtomInto PROVE Fitted
<1>1. \E k \in {"Expr", "Into"} : At(k)
  BY DEF LowerAtom, AtomInto, AtInto
<1>2. control # <<>> /\ Top \in Tasks /\ Top.k \in {"Expr", "Into"} /\ Top.k \notin Raisers
  BY <1>1, AtTypes DEF Fits, At, Raisers
<1>3. Top.e \in Exprs /\ Top.e.k = "atom" /\ ~Panics(Top)
  BY <1>2, TaskFields DEF LowerAtom, AtomInto, AtInto, Do
<1>4. Top.e.a \in Atoms /\ Top.e.a.k # "todo"
  BY <1>2, <1>3, ExprFields DEF Panics
<1>5. FileCode(H, code.reg_pointer, code) /\ LocalsIn(H, locals) /\ locals \in Seq(Operands)
      /\ code.reg_pointer \in Int
  BY FitsCode, FitsLocals
<1>6. CASE LowerAtom
  <2> DEFINE r == NextReg(code)
             b == AllocReg(code)
             x(slot) == AtomMi(b, Top.e.a, r, slot)
  <2>1. PICK slot \in Slots(Top.e.a) :
            \/ Do(x(slot).code, Push(Own(r)), <<>>)
            \/ Do(FreeReg(x(slot).code, r), Push(Plain(x(slot).mi)), <<>>)
    BY <1>6 DEF LowerAtom
  <2> DEFINE c == x(slot).code
             y == x(slot).mi
             d == FreeReg(c, r)
             l == Push(Own(r))
             m == Push(Plain(y))
  <2>2. Do(c, l, <<>>) \/ Do(d, m, <<>>)
    BY <2>1
  <2>3. PICK K \in Int : /\ H <= K /\ FileCode(K, code.reg_pointer, b)
                         /\ K = H \/ K <= b.reg_pointer
                         /\ r \in Int /\ r < K /\ LocalsIn(K, l)
    BY <1>2, FitsAlloc
  <2>4. SameRegs(b, c)
    BY <1>4, <2>3, FileHasRegs, AtomRegs
  <2> HIDE DEF b, l, r
  <2>5. FileCode(K, code.reg_pointer, c) /\ In(K, y)
    BY <1>4, <2>3, FileAtom
  <2> HIDE DEF c, x, y
  <2>6. FileCode(K, code.reg_pointer, d) /\ d.reg_pointer = c.reg_pointer
    BY <2>3, <2>5, FileFree, FileHasRegs DEF FreeReg, HasRegs
  <2>7. (K = H \/ K <= c.reg_pointer) /\ (K = H \/ K <= d.reg_pointer)
    BY <2>3, <2>4, <2>6 DEF SameRegs
  <2>8. LocalsIn(K, m)
    <3>1. LocalsIn(K, locals) /\ In(K, Plain(y).mi)
      BY <1>5, <2>3, <2>5, LocalsHigher DEF Plain
    <3> QED BY <1>5, <3>1, LocalsAppend DEF Push
  <2> HIDE DEF d, m
  <2> QED BY <1>2, <2>2, <2>3, <2>5, <2>6, <2>7, <2>8, SeqNone, DoFits
<1>7. CASE AtomInto
  <2> DEFINE x(slot) == AtomMi(code, Top.e.a, Top.dest, slot)
             i(slot) == Unary("Copy", Top.dest, x(slot).mi)
  <2>1. PICK slot \in Slots(Top.e.a) : \/ Do(x(slot).code, locals, <<>>)
                                       \/ Do(Emit(x(slot).code, i(slot)), locals, <<>>)
    BY <1>7 DEF AtomInto
  <2> DEFINE c == x(slot).code
             y == x(slot).mi
             j == Unary("Copy", Top.dest, y)
             d == Emit(c, j)
  <2>2. Do(c, locals, <<>>) \/ Do(d, locals, <<>>)
    BY <2>1
  <2>3. Top.dest \in Int /\ Top.dest < H
    <3>1. Top.k = "Into"
      BY <1>7, AtTypes DEF AtomInto, AtInto, Fits
    <3> QED BY <1>2, <3>1, FitsTop DEF TaskIn, DestKinds
  <2>4. FileCode(H, code.reg_pointer, c) /\ In(H, y)
    BY <1>4, <1>5, <2>3, FileAtom
  <2> HIDE DEF c, x, y
  <2>5. Within(H, j)
    BY <2>3, <2>4, WithinAll
  <2> HIDE DEF j
  <2>6. FileCode(H, code.reg_pointer, d)
    BY <2>4, <2>5, FileEmit
  <2> HIDE DEF d
  <2> QED BY <1>2, <1>5, <2>2, <2>4, <2>6, SeqNone, DoFitsSame
<1> QED BY <1>6, <1>7

-----------------------------------------------------------------------------
(* The places.                                                             *)

LEMMA FitsScalar ==
    ASSUME NEW H \in Int, Fits(H), LoadScalar \/ StoreScalar PROVE Fitted
<1>1. PICK k \in {"LoadPlace", "StorePlace"} : At(k) /\ Top.p.k \in Scalars
  BY DEF LoadScalar, StoreScalar, AtPlace
<1>2. control # <<>> /\ Top \in Tasks /\ Top.k = k /\ Top.k \notin Raisers
  BY <1>1, AtTypes DEF Fits, At, Raisers
<1>3. Top.dest \in Int /\ Top.dest < H
  BY <1>2, FitsTop DEF TaskIn, DestKinds
<1>4. FileCode(H, code.reg_pointer, code) /\ LocalsIn(H, locals)
  BY FitsCode, FitsLocals
<1>5. CASE LoadScalar
  <2> DEFINE x == ScalarMi(code, Top.p, Top.dest)
             l == Push(Plain(x.mi))
  <2>1. Do(x.code, l, <<>>)
    BY <1>5 DEF LoadScalar
  <2>2. FileCode(H, code.reg_pointer, x.code) /\ In(H, x.mi)
    BY <1>3, <1>4, FileScalar
  <2> HIDE DEF x
  <2>3. LocalsIn(H, l)
    BY <2>2, FitsLocals DEF Plain
  <2> HIDE DEF l
  <2> QED BY <1>2, <2>1, <2>2, <2>3, SeqNone, DoFitsSame
<1>6. CASE StoreScalar
  <2>1. In(H, Top.src)
    <3>1. Top.k = "StorePlace"
      BY <1>6, AtTypes DEF StoreScalar, AtPlace, Fits
    <3> QED BY <1>2, <3>1, FitsTop DEF TaskIn
  <2>2. CASE Top.p.k = "user"
    <3> DEFINE c == RegisterUserVar(code, Top.p.id)
               i == Store("StoreUserScalar", Top.dest, Top.src, UserIndex(c, Top.p.id))
    <3>1. Do(Emit(c, i), locals, <<>>)
      BY <1>6, <2>2 DEF StoreScalar
    <3>2. FileCode(H, code.reg_pointer, c)
      BY <1>4, FileTables
    <3> HIDE DEF c
    <3>3. Within(H, i)
      BY <1>3, <2>1, WithinAll
    <3> HIDE DEF i
    <3>4. FileCode(H, code.reg_pointer, Emit(c, i))
      BY <3>2, <3>3, FileEmit
    <3> QED BY <1>2, <1>4, <3>1, <3>4, SeqNone, DoFitsSame
  <2>3. CASE Top.p.k # "user"
    <3> DEFINE i == Store("StoreBuiltinScalar", Top.dest, Top.src, Top.p.n)
    <3>1. Do(Emit(code, i), locals, <<>>)
      BY <1>6, <2>3 DEF StoreScalar
    <3>2. Within(H, i)
      BY <1>3, <2>1, WithinAll
    <3> HIDE DEF i
    <3>3. FileCode(H, code.reg_pointer, Emit(code, i))
      BY <1>4, <3>2, FileEmit
    <3> QED BY <1>2, <1>4, <3>1, <3>3, SeqNone, DoFitsSame
  <2> QED BY <2>2, <2>3
<1> QED BY <1>5, <1>6

(* No step opens or closes a window.                                       *)
LEMMA FitsNever ==
    ASSUME Windowless, NEW H \in Int, Fits(H)
    PROVE  ~Command /\ ~CallEnd /\ ~Redirection /\ ~LoadIndex /\ ~StoreIndex
<1>1. ASSUME NEW k, At(k) PROVE control # <<>> /\ Top \in Tasks /\ Top.k = k /\ TaskIn(H, Top)
  BY <1>1, AtTypes, FitsTop DEF At, Fits
<1>2. ~Command
  <2> SUFFICES ASSUME Command PROVE FALSE
    OBVIOUS
  <2>1. At("Stmt") /\ Top.s.k = "command"
    BY DEF Command, AtStmt
  <2>2. Top.s \in Stmts
    BY <1>1, <2>1, TaskFields
  <2> QED BY <2>1, <2>2 DEF Windowless, WindowlessOver
<1>3. ~CallEnd /\ ~Redirection
  BY <1>1 DEF CallEnd, Redirection, TaskIn
<1>4. ~LoadIndex /\ ~StoreIndex
  BY <1>1 DEF LoadIndex, StoreIndex, AtPlace, TaskIn, PlaceKinds
<1> QED BY <1>2, <1>3, <1>4

-----------------------------------------------------------------------------
(* The invariant.                                                          *)

(* Nothing is named yet: the bound is 0.                                   *)
LEMMA FileInit == ASSUME Init, TypeOK PROVE FileInv
<1>1. code = EmptyCode /\ control = Body(program) /\ locals = <<>> /\ program \in Seq(Stmts)
      /\ status = "lowering"
  BY ProgramsAssumption DEF Init
<1>2. \A n : n \notin 1 .. Len(<<>>)
  BY EmptySeq
<1>3. IsCode(code)
  BY CodeTypeIsCode DEF TypeOK
<1>4. Stream(<<>>)
  BY EmptySeq DEF Stream
<1>5. FileCode(0, 0, code)
  BY <1>1, <1>2, <1>3, <1>4 DEF FileCode, EmptyCode
<1>6. LocalsIn(0, locals) /\ TasksIn(0, control)
  BY <1>1, <1>2, SeqBody DEF LocalsIn
<1>7. Attained(0)
  BY <1>1 DEF Attained, EmptyCode
<1> QED BY <1>1, <1>5, <1>6, <1>7 DEF FileInv, FileAt, Ended

(* Every step of such a program keeps a bound.                             *)
LEMMA FileStep == ASSUME Windowless, TypeOK, FileInv, [Next]_vars PROVE FileInv'
<1>1. PICK H \in Int : Fits(H)
  BY DEF FileInv, Fits
<1>2. CASE LowerStatement
  BY <1>1, <1>2, FitsStatement, FitsForTop, FitsBranch, FitsPatch, FitsRaise, FitsNever
     DEF LowerStatement, Fitted
<1>3. CASE LowerExpr
  BY <1>1, <1>3, FitsOperand, FitsAtom, FitsOperator, FitsBranch, FitsThen, FitsRaise, FitsIncr
     DEF LowerExpr, Fitted
<1>4. CASE LowerPlace
  BY <1>1, <1>4, FitsScalar, FitsNever, FitsOperand, FitsOperator DEF LowerPlace, Fitted
<1>5. CASE Panic \/ Finish \/ UNCHANGED vars
  BY <1>5 DEF Panic, Finish, vars, FileInv, FileAt, Attained, Ended
<1> QED BY <1>2, <1>3, <1>4, <1>5 DEF Next

(* When the lowering has ended no scope is open, so the pointer is the     *)
(* bound.                                                                  *)
LEMMA FileFits == ASSUME TypeOK, FileInv PROVE RegistersFit
<1> SUFFICES ASSUME status = "lowered", NEW n \in 1 .. Len(code.bc)
             PROVE  LET size == IF code.reg_pointer = 0 THEN 1 ELSE code.reg_pointer
                    IN  /\ code.bc[n].lo <= code.bc[n].hi /\ code.bc[n].hi <= size
                        /\ \A r \in RegistersOf(code.bc[n]) : r < size
  BY DEF RegistersFit
<1> DEFINE i == code.bc[n]
           size == IF code.reg_pointer = 0 THEN 1 ELSE code.reg_pointer
<1>1. PICK H \in Int : FileAt(H) /\ Attained(H)
  BY DEF FileInv
<1>2. control = <<>>
  BY DEF FileInv, Ended
<1>3. code.reg_pointer \in Nat /\ H <= code.reg_pointer
  <2>1. \A j : j \notin 1 .. Len(control)
    BY <1>2, EmptySeq
  <2>2. H <= code.reg_pointer
    BY <1>1, <2>1 DEF Attained
  <2>3. code.reg_pointer \in Nat
    BY WidthAssumption DEF TypeOK, CodeType
  <2> QED BY <2>2, <2>3
<1>4. Within(H, i)
  BY <1>1 DEF FileAt, FileCode
<1> HIDE DEF i
<1>5. size \in Nat /\ H <= size /\ 0 <= size
  BY <1>3
<1> HIDE DEF size
<1>6. i.lo .. (i.hi - 1) = {} /\ i.lo <= i.hi /\ i.hi <= size
  BY <1>4, <1>5 DEF Within
<1>7. ASSUME NEW r \in RegistersOf(i) PROVE r < size
  <2>1. \/ i.op \notin Patchable \cup {"OutputCall"} /\ r = i.dest
        \/ \E x \in {i.a, i.b} : x.k = "Reg" /\ r = x.n
    BY <1>6 DEF RegistersOf
  <2>2. r \in Int /\ r < H
    BY <1>4, <2>1 DEF Within, In
  <2> QED BY <1>5, <2>2
<1> QED BY <1>6, <1>7 DEF i, size

(* For every program without commands and array elements, its elses and    *)
(* ternaries nested in whatever way, and every width: every register and   *)
(* every range of registers the finished bytecode names is in the file the *)
(* interpreter allocates from the final register pointer (vm.rs:64).       *)
THEOREM RegistersAlwaysFit == ASSUME Windowless PROVE Spec => []RegistersFit
<1>1. TypeOK /\ FileInv /\ [Next]_vars => FileInv'
  BY FileStep
<1> QED BY <1>1, TypeCorrect, InitTypes, FileInit, FileFits, PTL DEF Spec
=============================================================================
