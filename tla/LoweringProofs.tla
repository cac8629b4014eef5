--------------------------- MODULE LoweringProofs ---------------------------
(***************************************************************************)
(* What is proved of the lowering for every program and every width.       *)
(***************************************************************************)
EXTENDS Lowering, SequenceTheorems, TLAPS

-----------------------------------------------------------------------------
(* The operators of module Code: each keeps a Code record a Code record,   *)
(* and what it does to the fields the invariants read.                     *)

(* A prefix of a sequence is a sequence of the same elements. *)
LEMMA TakeProperties ==
    ASSUME NEW S, NEW s \in Seq(S), NEW n \in Nat
    PROVE  /\ Take(s, n) \in Seq(S)
           /\ Len(Take(s, n)) = IF n < Len(s) THEN n ELSE Len(s)
           /\ \A i \in 1 .. Len(Take(s, n)) : Take(s, n)[i] = s[i]
<1> DEFINE m == IF n < Len(s) THEN n ELSE Len(s)
<1>1. Len(s) \in Nat /\ m \in Nat /\ m <= Len(s)
  BY LenProperties
<1>2. \A i \in 1 .. m : s[i] \in S
  BY <1>1, ElementOfSeq
<1>3. [i \in 1 .. m |-> s[i]] \in Seq(S)
  BY <1>1, <1>2, IsASeq
<1> QED
  BY <1>1, <1>3, LenProperties DEF Take

(* Appending to a sequence: the length grows by one, the old elements stay.*)
LEMMA AppendElements ==
    ASSUME NEW S, NEW s \in Seq(S), NEW x \in S
    PROVE  /\ Append(s, x) \in Seq(S)
           /\ Len(Append(s, x)) = Len(s) + 1
           /\ \A i \in 1 .. Len(s) : Append(s, x)[i] = s[i]
           /\ Append(s, x)[Len(s) + 1] = x
  OBVIOUS

(* The remainder by a width is below it. *)
LEMMA ModuloWidth ==
    ASSUME NEW m \in Nat, NEW w \in Nat \ {0}
    PROVE  m % w \in 0 .. w-1
  OBVIOUS

(* The constructors of instructions build instructions. *)
LEMMA ImmType == ASSUME NEW n \in Int PROVE Imm(n) \in MaybeImm /\ Reg(n) \in MaybeImm
  BY DEF Imm, Reg, MaybeImm, ImmKinds

(* The instruction whose fields the constructors override is an           *)
(* instruction.                                                           *)
LEMMA BlankType == Blank \in Instruction
<1>1. Imm(0) \in MaybeImm
  BY ImmType
<1>2. "Copy" \in Opcodes
  BY DEF Opcodes
<1> QED
  BY <1>1, <1>2 DEF Blank, Instruction

(* An opcode applied to one operand is an instruction. *)
LEMMA UnaryType ==
    ASSUME NEW op \in Opcodes, NEW dest \in Nat, NEW a \in MaybeImm
    PROVE  Unary(op, dest, a) \in Instruction
  BY BlankType DEF Unary, Instruction

(* An opcode applied to two operands is an instruction. *)
LEMMA BinaryType ==
    ASSUME NEW op \in Opcodes, NEW dest \in Nat, NEW a \in MaybeImm, NEW b \in MaybeImm
    PROVE  Binary(op, dest, a, b) \in Instruction
  BY BlankType DEF Binary, Instruction

(* A load from memory is an instruction. *)
LEMMA LoadType ==
    ASSUME NEW op \in Opcodes, NEW dest \in Nat, NEW mem \in Nat
    PROVE  Load(op, dest, mem) \in Instruction
  BY BlankType DEF Load, Instruction

(* A store to memory is an instruction. *)
LEMMA StoreType ==
    ASSUME NEW op \in Opcodes, NEW dest \in Nat, NEW a \in MaybeImm, NEW mem \in Nat
    PROVE  Store(op, dest, a, mem) \in Instruction
  BY BlankType DEF Store, Instruction

(* A jump, patched or not, is an instruction. *)
LEMMA JumpType ==
    ASSUME NEW to \in Nat
    PROVE  Jump(to) \in Instruction
<1>1. "Jump" \in Opcodes
  BY DEF Opcodes, Patchable
<1> QED BY <1>1, BlankType DEF Jump, Instruction

(* A branch, patched or not, is an instruction. *)
LEMMA BranchType ==
    ASSUME NEW a \in MaybeImm, NEW on \in Nat, NEW to \in Nat
    PROVE  Branch(a, on, to) \in Instruction
<1>1. "Branch" \in Opcodes
  BY DEF Opcodes, Patchable
<1> QED BY <1>1, BlankType DEF Branch, Instruction

(* A print or printf is an instruction. *)
LEMMA OutputType ==
    ASSUME NEW name \in Commands, NEW redir \in BOOLEAN
    PROVE  Output(name, redir) \in Instruction
<1>1. "OutputCall" \in Opcodes
  BY DEF Opcodes
<1> QED BY <1>1, BlankType DEF Output, Instruction

(* Emitting an instruction. *)
LEMMA EmitProperties ==
    ASSUME NEW c \in CodeType, NEW i \in Instruction
    PROVE  /\ Emit(c, i) \in CodeType
           /\ Emit(c, i).free_regs = c.free_regs /\ Emit(c, i).reg_pointer = c.reg_pointer
           /\ Emit(c, i).user = c.user /\ Emit(c, i).consts = c.consts
           /\ Emit(c, i).bc = Append(c.bc, i)
<1>1. c.bc \in Seq(Instruction)
  BY DEF CodeType
<1>2. Append(c.bc, i) \in Seq(Instruction)
  BY <1>1, AppendElements
<1> QED
  BY <1>2 DEF CodeType, Emit

(* A label is a u16. *)
LEMMA LabelTypes ==
    ASSUME NEW c \in CodeType, NEW n \in Nat
    PROVE  EmitLabel(c) \in 0 .. U16-1 /\ FollowingInstr(c, n) \in 0 .. U16-1
<1>1. Len(c.bc) \in Nat
  BY LenProperties DEF CodeType
<1>2. Len(c.bc) + n \in Nat
  BY <1>1
<1>3. U16 \in Nat \ {0}
  BY WidthAssumption
<1>4. Len(c.bc) % U16 \in 0 .. U16-1
  BY <1>1, <1>3, ModuloWidth
<1>5. (Len(c.bc) + n) % U16 \in 0 .. U16-1
  BY <1>2, <1>3, ModuloWidth
<1> QED
  BY <1>4, <1>5 DEF EmitLabel, FollowingInstr

(* Patching a label changes neither the length of the bytecode nor         *)
(* anything but labels of one instruction.                                 *)
LEMMA SetLabelProperties ==
    ASSUME NEW c \in CodeType, NEW l \in Nat, NEW to \in Nat
    PROVE  /\ SetLabel(c, l, to) \in CodeType
           /\ SetLabel(c, l, to).free_regs = c.free_regs
           /\ SetLabel(c, l, to).reg_pointer = c.reg_pointer
           /\ SetLabel(c, l, to).user = c.user /\ SetLabel(c, l, to).consts = c.consts
           /\ Len(SetLabel(c, l, to).bc) = Len(c.bc)
           /\ \A i \in 1 .. Len(c.bc) :
                 SetLabel(c, l, to).bc[i] =
                    IF i = l+1 /\ c.bc[i].op \in Patchable THEN [c.bc[i] EXCEPT !.to = to]
                                                         ELSE c.bc[i]
<1> DEFINE bc == [c.bc EXCEPT ![l+1].to = to]
<1>1. c.bc \in Seq(Instruction) /\ Len(c.bc) \in Nat /\ DOMAIN c.bc = 1 .. Len(c.bc)
  BY LenProperties DEF CodeType
<1>2. \A i \in 1 .. Len(c.bc) : c.bc[i] \in Instruction
  BY <1>1, ElementOfSeq
<1>3. \A i \in 1 .. Len(c.bc) :
         /\ [c.bc[i] EXCEPT !.to = to] \in Instruction
         /\ bc[i] = IF i = l+1 THEN [c.bc[i] EXCEPT !.to = to] ELSE c.bc[i]
  BY <1>1, <1>2 DEF Instruction
<1>4. bc = [i \in 1 .. Len(c.bc) |-> IF i = l+1 THEN [c.bc[i] EXCEPT !.to = to] ELSE c.bc[i]]
  BY <1>1, <1>3
<1>5. bc \in Seq(Instruction) /\ Len(bc) = Len(c.bc)
  <2>1. \A i \in 1 .. Len(c.bc) :
          (IF i = l+1 THEN [c.bc[i] EXCEPT !.to = to] ELSE c.bc[i]) \in Instruction
    BY <1>2, <1>3
  <2>2. [i \in 1 .. Len(c.bc) |-> IF i = l+1 THEN [c.bc[i] EXCEPT !.to = to] ELSE c.bc[i]]
          \in Seq(Instruction)
    BY <1>1, <2>1, IsASeq
  <2>3. bc \in Seq(Instruction) /\ DOMAIN bc = 1 .. Len(c.bc)
    BY <1>4, <2>2
  <2>4. Len(bc) \in Nat /\ DOMAIN bc = 1 .. Len(bc)
    BY <2>3, LenProperties
  <2> QED BY <1>1, <2>3, <2>4
<1>6. CASE c.bc[l+1].op \in Patchable
  <2>1. SetLabel(c, l, to) = [c EXCEPT !.bc = bc]
    BY <1>6 DEF SetLabel, CodeType
  <2> QED BY <1>3, <1>5, <1>6, <2>1 DEF CodeType
<1>7. CASE c.bc[l+1].op \notin Patchable
  <2>1. SetLabel(c, l, to) = c
    BY <1>7 DEF SetLabel
  <2> QED BY <1>7, <2>1
<1> QED BY <1>6, <1>7

(* push_start_label, too, changes labels only. *)
LEMMA PushStartLabelProperties ==
    ASSUME NEW c \in CodeType, NEW l \in Nat
    PROVE  /\ PushStartLabel(c, l) \in CodeType
           /\ Len(PushStartLabel(c, l).bc) = Len(c.bc)
<1>1. c.bc \in Seq(Instruction) /\ Len(c.bc) \in Nat /\ DOMAIN c.bc = 1 .. Len(c.bc)
  BY LenProperties DEF CodeType
<1>2. CASE l+1 \in 1 .. Len(c.bc) /\ c.bc[l+1].op = "Branch"
  <2> DEFINE j == (c.bc[l+1].on + 1) % U16
             i == [c.bc[l+1] EXCEPT !.on = j]
             bc == [c.bc EXCEPT ![l+1] = i]
  <2>1. c.bc[l+1] \in Instruction
    BY <1>1, <1>2, ElementOfSeq
  <2>2. j \in Nat
    <3>1. c.bc[l+1].on + 1 \in Nat
      BY <2>1 DEF Instruction
    <3>2. j \in 0 .. U16-1
      BY <3>1, WidthAssumption, ModuloWidth
    <3> QED BY <3>2
  <2>3. i \in Instruction
    BY <2>1, <2>2 DEF Instruction
  <2>4. bc \in Seq(Instruction) /\ Len(bc) = Len(c.bc)
    BY <1>1, <1>2, <2>3, ExceptSeq
  <2>5. PushStartLabel(c, l) = [c EXCEPT !.bc = bc]
    BY <1>2 DEF PushStartLabel, CodeType
  <2> QED BY <2>4, <2>5 DEF CodeType
<1>3. CASE l+1 \notin 1 .. Len(c.bc) /\ c.bc[l+1].op = "Branch"
  <2>1. [c.bc EXCEPT ![l+1].on = (@ + 1) % U16] = c.bc
    BY <1>1, <1>3
  <2>2. PushStartLabel(c, l) = [c EXCEPT !.bc = c.bc]
    BY <1>3, <2>1 DEF PushStartLabel, CodeType
  <2> QED BY <1>1, <2>2 DEF CodeType
<1>4. CASE c.bc[l+1].op # "Branch"
  BY <1>4 DEF PushStartLabel
<1> QED BY <1>2, <1>3, <1>4

(* A register that may be taken is a u8, and taking it keeps the pointer   *)
(* within u8.                                                              *)
LEMMA AllocProperties ==
    ASSUME NEW c \in CodeType, CanAlloc(c)
    PROVE  NextReg(c) \in 0 .. U8-1 /\ AllocReg(c) \in CodeType
<1>1. c.free_regs \in Seq(0 .. U8-1) /\ Len(c.free_regs) \in Nat /\ c.reg_pointer \in 0 .. U8-1
  BY LenProperties DEF CodeType
<1>2. CASE c.free_regs # <<>>
  <2>1. Len(c.free_regs) \in 1 .. Len(c.free_regs) /\ Len(c.free_regs) - 1 \in Nat
    BY <1>1, <1>2, EmptySeq
  <2>2. c.free_regs[Len(c.free_regs)] \in 0 .. U8-1
    BY <1>1, <2>1, ElementOfSeq
  <2>3. Take(c.free_regs, Len(c.free_regs) - 1) \in Seq(0 .. U8-1)
    BY <1>1, <2>1, TakeProperties
  <2> QED BY <1>2, <2>2, <2>3 DEF NextReg, AllocReg, CodeType
<1>3. CASE c.free_regs = <<>>
  <2>1. c.reg_pointer + 1 \in 0 .. U8-1
    BY <1>1, <1>3, WidthAssumption DEF CanAlloc
  <2> QED BY <1>1, <1>3, <2>1 DEF NextReg, AllocReg, CodeType
<1> QED BY <1>2, <1>3

(* Giving a register back keeps the types. *)
LEMMA FreeRegType ==
    ASSUME NEW c \in CodeType, NEW r \in 0 .. U8-1
    PROVE  FreeReg(c, r) \in CodeType
<1>1. Append(c.free_regs, r) \in Seq(0 .. U8-1)
  BY AppendElements DEF CodeType
<1> QED BY <1>1 DEF FreeReg, CodeType

(* The registers' state a scope saves is one it can restore. *)
LEMMA SaveRegsType ==
    ASSUME NEW c \in CodeType
    PROVE  SaveRegs(c) \in RegsState
<1>1. Len(c.free_regs) \in Nat /\ c.reg_pointer \in 0 .. U8-1
  BY LenProperties DEF CodeType
<1> QED BY <1>1 DEF SaveRegs, RegsState

(* A scope that is closed leaves a Code record and a saved state. *)
LEMMA ScopeTypes ==
    ASSUME NEW c \in CodeType, NEW st \in RegsState
    PROVE  /\ ScopeEnd(st, c) \in CodeType
           /\ AfterScope(st, c) \in RegsState
           /\ ScopeHwmEnd(st, c) \in CodeType
<1>1. c.free_regs \in Seq(0 .. U8-1) /\ Len(c.free_regs) \in Nat /\ c.reg_pointer \in 0 .. U8-1
  BY LenProperties DEF CodeType
<1>2. st.n_free_regs \in Nat /\ st.reg_pointer \in 0 .. U8-1
  BY DEF RegsState
<1>3. Take(c.free_regs, st.n_free_regs) \in Seq(0 .. U8-1)
  BY <1>1, <1>2, TakeProperties
<1>5. ScopeEnd(st, c) \in CodeType
  BY <1>2, <1>3 DEF ScopeEnd, CodeType
<1>6. AfterScope(st, c) \in RegsState
  BY <1>1 DEF AfterScope, RegsState
<1>7. ScopeHwmEnd(st, c) \in CodeType
  BY <1>1, <1>2, <1>3 DEF ScopeHwmEnd, CodeType
<1> QED BY <1>5, <1>6, <1>7

(* Interning an identifier makes it known and keeps the others' indices. *)
LEMMA RegisterUserVarProperties ==
    ASSUME NEW c \in CodeType, NEW id \in Idents
    PROVE  /\ RegisterUserVar(c, id) \in CodeType
           /\ RegisterUserVar(c, id).bc = c.bc
           /\ RegisterUserVar(c, id).free_regs = c.free_regs
           /\ RegisterUserVar(c, id).reg_pointer = c.reg_pointer
           /\ Known(RegisterUserVar(c, id), id)
           /\ UserIndex(RegisterUserVar(c, id), id) \in 0 .. U16-1
<1> DEFINE d == RegisterUserVar(c, id)
<1>1. c.user \in Seq(Idents) /\ Len(c.user) \in Nat
  BY LenProperties DEF CodeType
<1>2. /\ Append(c.user, id) \in Seq(Idents) /\ Len(Append(c.user, id)) = Len(c.user) + 1
      /\ Append(c.user, id)[Len(c.user) + 1] = id
  BY <1>1, AppendElements
<1>3. /\ d \in CodeType /\ d.bc = c.bc /\ d.free_regs = c.free_regs
      /\ d.reg_pointer = c.reg_pointer
  BY <1>2 DEF RegisterUserVar, CodeType
<1>4. Known(d, id)
  <2>1. CASE Known(c, id)
    BY <2>1 DEF RegisterUserVar
  <2>2. CASE ~Known(c, id)
    <3>1. d.user = Append(c.user, id)
      BY <2>2 DEF RegisterUserVar, CodeType
    <3> QED BY <1>1, <1>2, <3>1 DEF Known
  <2> QED BY <2>1, <2>2
<1>5. Len(d.user) \in Nat
  BY <1>3, LenProperties DEF CodeType
<1>6. UserIndex(d, id) \in 0 .. U16-1
  <2> DEFINE i == CHOOSE j \in 1 .. Len(d.user) : d.user[j] = id
  <2>1. i \in 1 .. Len(d.user)
    BY <1>4 DEF Known
  <2>2. i - 1 \in Nat
    BY <1>5, <2>1
  <2>3. (i - 1) % U16 \in 0 .. U16-1
    BY <2>2, WidthAssumption, ModuloWidth
  <2> QED BY <2>3 DEF UserIndex
<1> QED BY <1>3, <1>4, <1>6

(* Interning a constant, in whatever slot the hash set answers. *)
LEMMA RegisterConstProperties ==
    ASSUME NEW c \in CodeType, NEW v \in Consts, NEW slot \in ConstSlots(c, v)
    PROVE  /\ RegisterConst(c, v, slot) \in CodeType
           /\ RegisterConst(c, v, slot).bc = c.bc
           /\ RegisterConst(c, v, slot).free_regs = c.free_regs
           /\ RegisterConst(c, v, slot).reg_pointer = c.reg_pointer
           /\ (slot - 1) % U16 \in 0 .. U16-1
           /\ slot \in 1 .. Len(RegisterConst(c, v, slot).consts)
<1>1. c.consts \in Seq(Consts) /\ Len(c.consts) \in Nat
  BY LenProperties DEF CodeType
<1>2. slot \in 1 .. Len(c.consts) + 1
  BY <1>1 DEF ConstSlots
<1>3. Append(c.consts, v) \in Seq(Consts) /\ Len(Append(c.consts, v)) = Len(c.consts) + 1
  BY <1>1, AppendElements
<1>4. (slot - 1) % U16 \in 0 .. U16-1
  <2>1. slot - 1 \in Nat
    BY <1>1, <1>2
  <2> QED BY <2>1, WidthAssumption, ModuloWidth
<1>5. CASE slot <= Len(c.consts)
  BY <1>1, <1>2, <1>4, <1>5 DEF RegisterConst
<1>6. CASE slot > Len(c.consts)
  <2>1. RegisterConst(c, v, slot) = [c EXCEPT !.consts = Append(@, v)]
    BY <1>1, <1>2, <1>6 DEF RegisterConst
  <2> QED BY <1>1, <1>2, <1>3, <1>4, <2>1 DEF CodeType
<1> QED BY <1>1, <1>2, <1>5, <1>6

(* An index becomes an immediate or a load into dest, never another        *)
(* register.                                                               *)
LEMMA ImmOrLoadProperties ==
    ASSUME NEW c \in CodeType, NEW k \in ImmKinds \ {"Reg"}, NEW n \in Nat,
           NEW load \in Opcodes, NEW dest \in 0 .. U8-1
    PROVE  LET x == ImmOrLoad(c, k, n, load, dest)
           IN  /\ x.code \in CodeType
               /\ x.code.free_regs = c.free_regs /\ x.code.reg_pointer = c.reg_pointer
               /\ x.mi \in MaybeImm
               /\ x.mi.k = "Reg" => x.mi = Reg(dest)
<1>1. dest \in Nat /\ n \in Int /\ dest \in Int
  BY WidthAssumption
<1>2. Load(load, dest, n) \in Instruction
  BY <1>1, LoadType
<1>3. /\ Emit(c, Load(load, dest, n)) \in CodeType
      /\ Emit(c, Load(load, dest, n)).free_regs = c.free_regs
      /\ Emit(c, Load(load, dest, n)).reg_pointer = c.reg_pointer
  BY <1>2, EmitProperties
<1>4. Reg(dest) \in MaybeImm /\ [k |-> k, n |-> n] \in MaybeImm
  BY <1>1, ImmType DEF MaybeImm
<1> QED BY <1>3, <1>4 DEF ImmOrLoad


-----------------------------------------------------------------------------
(* The fields of a node, by its kind. *)

(* The sub-expressions and operators of an expression have their types.    *)
LEMMA ExprFields ==
    ASSUME NEW e \in Exprs
    PROVE  /\ e.k = "atom" => e.a \in Atoms
           /\ e.k = "unary" => e.op \in UnaryOps /\ e.e \in Exprs
           /\ e.k = "binary" => e.op \in BinaryOps /\ e.l \in Exprs /\ e.r \in Exprs
           /\ e.k = "ternary" => e.c \in Exprs /\ e.t \in Exprs /\ e.f \in Exprs
           /\ e.k = "assign" => e.op \in ArithOps \cup {"Set"} /\ e.p \in Places /\ e.e \in Exprs
           /\ e.k = "incr" => e.op \in {"Add", "Subtract"} /\ e.post \in BOOLEAN /\ e.p \in Places
           /\ e.k \in {"atom", "unary", "binary", "ternary", "assign", "incr", "todo"}
  BY ExprsClosed DEF ExprShapes

(* The parts of a statement have their types. *)
LEMMA StmtFields ==
    ASSUME NEW s \in Stmts
    PROVE  /\ s.k = "if" => s.c \in Exprs /\ s.body \in Seq(Stmts) /\ s.orelse \in Seq(Seq(Stmts))
           /\ s.k \in {"while", "dowhile"} => s.c \in Exprs /\ s.body \in Seq(Stmts)
           /\ s.k = "for" => /\ s.init \in Seq(Stmts) /\ s.cond \in Seq(Exprs)
                             /\ s.update \in Seq(Stmts) /\ s.body \in Seq(Stmts)
           /\ s.k = "expr" => s.e \in Exprs
           /\ s.k = "command" => /\ s.name \in Commands /\ s.args \in Seq(Exprs)
                                 /\ s.redir \in Seq(Exprs)
  BY StmtsClosed DEF StmtShapes

(* The parts of a place have their types. *)
LEMMA PlaceFields ==
    ASSUME NEW p \in Places
    PROVE  /\ p.k = "user" => p.id \in Idents
           /\ p.k = "builtin" => p.n \in Nat
           /\ p.k = "userindex" => p.id \in Idents /\ p.args \in Seq(Exprs)
           /\ p.k = "builtinindex" => p.n \in Nat /\ p.args \in Seq(Exprs)
           /\ p.k = "record" => p.e \in Exprs
  BY DEF Places

(* The content of an atom has its type. *)
LEMMA AtomFields ==
    ASSUME NEW a \in Atoms
    PROVE  /\ a.k = "user" => a.id \in Idents
           /\ a.k = "builtin" => a.n \in Nat
           /\ a.k = "int" => a.n \in Int
           /\ a.k \in {"cnt", "regex"} => a.v \in Consts
           /\ a.k \in {"user", "builtin", "int", "cnt", "regex", "todo"}
  BY DEF Atoms

(* The locals a pending task keeps have their types. *)
LEMMA TaskFields ==
    ASSUME NEW t \in Tasks
    PROVE  /\ t.k = "Stmt" => t.s \in Stmts
           /\ t.k \in {"Expr", "Redirection"} => t.e \in Exprs
           /\ t.k = "Into" => t.e \in Exprs /\ t.dest \in Registers
           /\ t.k \in {"LoadPlace", "StorePlace"} => t.p \in Places /\ t.dest \in Registers
           /\ t.k \in {"StorePlace", "RecordEmit"} => t.src \in MaybeImm /\ t.dest \in Registers
           /\ t.k = "IfBranch" => /\ t.st \in RegsState /\ t.body \in Seq(Stmts)
                                  /\ t.orelse \in Seq(Seq(Stmts))
           /\ t.k = "ThenEnd" => /\ t.st \in RegsState /\ t.orelse \in Seq(Seq(Stmts))
                                 /\ t.branch \in Labels
           /\ t.k = "ElseEnd" => t.st \in RegsState /\ t.jump \in Labels
           /\ t.k = "ForTop" => t.s \in Stmts /\ t.s.k = "for"
           /\ t.k = "LoopBranch" => /\ t.top \in Labels /\ t.body \in Seq(Stmts)
                                    /\ t.update \in Seq(Stmts)
           /\ t.k = "LoopEnd" => t.top \in Labels /\ t.branch \in Seq(Labels)
           /\ t.k = "DoBranch" => t.top \in Labels
           /\ t.k = "CallEnd" => t.st \in RegsState /\ t.instr \in Instruction
           /\ t.k = "UnaryEmit" => t.op \in UnaryOps /\ t.dest \in Registers
           /\ t.k = "BinaryEmit" => t.op \in BinaryOps /\ t.dest \in Registers
           /\ t.k = "TernaryBranch" => t.t \in Exprs /\ t.f \in Exprs /\ t.dest \in Registers
           /\ t.k = "TernaryThen" => /\ t.st \in RegsState /\ t.f \in Exprs
                                     /\ t.dest \in Registers /\ t.branch \in Labels
           /\ t.k = "TernaryElse" => /\ t.st \in RegsState /\ t.branch \in Labels
                                     /\ t.jump \in Labels /\ t.label \in Labels
           /\ t.k = "AssignVal" => t.op \in ArithOps \cup {"Set"} /\ t.p \in Places
                                   /\ t.dest \in Registers
           /\ t.k = "AssignEmit" => t.op \in ArithOps /\ t.p \in Places /\ t.dest \in Registers
           /\ t.k = "Incr" => /\ t.op \in {"Add", "Subtract"} /\ t.post \in BOOLEAN
                              /\ t.p \in Places /\ t.dest \in Registers
  BY DEF Tasks

(* The tasks that start a call. *)
LEMMA CallTasks ==
    /\ \A s \in Stmts : Stmt(s) \in Tasks
    /\ \A e \in Exprs : Expr(e) \in Tasks
    /\ \A e \in Exprs, r \in Registers : Into(e, r) \in Tasks
    /\ Free \in Tasks
    /\ \A p \in Places, r \in Registers : LoadPlace(p, r) \in Tasks
    /\ \A p \in Places, r \in Registers, x \in MaybeImm : StorePlace(p, r, x) \in Tasks
<1>1. \A s \in Stmts : Stmt(s) \in Tasks
  BY DEF Stmt, Tasks
<1>2. \A e \in Exprs : Expr(e) \in Tasks
  BY DEF Expr, Tasks
<1>3. \A e \in Exprs, r \in Registers : Into(e, r) \in Tasks
  BY DEF Into, Tasks
<1>4. Free \in Tasks
  BY DEF Free, Tasks
<1>5. \A p \in Places, r \in Registers : LoadPlace(p, r) \in Tasks
  BY DEF LoadPlace, Tasks
<1>6. \A p \in Places, r \in Registers, x \in MaybeImm : StorePlace(p, r, x) \in Tasks
  BY DEF StorePlace, Tasks
<1> QED
  BY <1>1, <1>2, <1>3, <1>4, <1>5, <1>6

(* Lowering a body, or the init or update of a for, pushes tasks. *)
LEMMA BodyType ==
    ASSUME NEW ss \in Seq(Stmts)
    PROVE  Body(ss) \in Seq(Tasks)
<1>1. Len(ss) \in Nat /\ \A i \in 1 .. Len(ss) : ss[i] \in Stmts
  BY LenProperties, ElementOfSeq
<1>2. \A i \in 1 .. Len(ss) : Stmt(ss[i]) \in Tasks
  BY <1>1, CallTasks
<1> QED
  BY <1>1, <1>2 DEF Body

(* The init and the update of a for push tasks, or nothing. *)
LEMMA SimpleType ==
    ASSUME NEW ss \in Seq(Stmts)
    PROVE  Simple(ss) \in Seq(Tasks)
<1>1. CASE ss # <<>> /\ ss[1].k = "expr"
  <2>1. 1 \in 1 .. Len(ss)
    BY <1>1, EmptySeq
  <2>2. ss[1] \in Stmts
    BY <2>1, ElementOfSeq
  <2>3. ss[1].e \in Exprs
    BY <1>1, <2>2, StmtFields
  <2>4. Expr(ss[1].e) \in Tasks /\ Free \in Tasks
    BY <2>3, CallTasks
  <2> QED BY <1>1, <2>4 DEF Simple
<1>2. CASE ~(ss # <<>> /\ ss[1].k = "expr")
  BY <1>2 DEF Simple
<1> QED BY <1>1, <1>2

(* The operands of the frames. *)
LEMMA OperandTypes ==
    /\ \A x \in MaybeImm : Plain(x) \in Operands
    /\ \A r \in Registers : Own(r) \in Operands
<1>1. \A x \in MaybeImm : Plain(x) \in Operands
  BY DEF Plain, Operands
<1>2. \A r \in Registers : Own(r) \in Operands
  <2> SUFFICES ASSUME NEW r \in Registers PROVE Own(r) \in Operands
    OBVIOUS
  <2>1. Reg(r) \in MaybeImm /\ Reg(r).k = "Reg" /\ Reg(r).n = r
    BY WidthAssumption, ImmType DEF Registers, Reg
  <2> QED BY <2>1 DEF Own, Operands
<1> QED BY <1>1, <1>2

(* The operands on top of the stack are operands, also where there is     *)
(* none, and popping and pushing keep the stack's type.                   *)
LEMMA LocalTypes ==
    ASSUME locals \in Seq(Operands), NEW n \in Nat
    PROVE  /\ Local(n) \in Operands /\ Local(n).mi \in MaybeImm
           /\ Pop(n) \in Seq(Operands)
           /\ \A x \in Operands : Push(x) \in Seq(Operands)
<1>1. Len(locals) \in Nat
  BY LenProperties
<1>2. Local(n) \in Operands
  <2>1. CASE n < Len(locals)
    <3>1. Len(locals) - n \in 1 .. Len(locals)
      BY <1>1, <2>1
    <3>2. locals[Len(locals) - n] \in Operands
      BY <3>1, ElementOfSeq
    <3> QED BY <2>1, <3>2 DEF Local
  <2>2. CASE ~(n < Len(locals))
    <3>1. Imm(0) \in MaybeImm
      BY ImmType
    <3> QED BY <2>2, <3>1, OperandTypes DEF Local
  <2> QED BY <2>1, <2>2
<1>3. Local(n).mi \in MaybeImm
  BY <1>2 DEF Operands
<1>4. (IF n < Len(locals) THEN Len(locals) - n ELSE 0) \in Nat
  BY <1>1
<1>5. Pop(n) \in Seq(Operands)
  BY <1>4, TakeProperties DEF Pop
<1>6. \A x \in Operands : Push(x) \in Seq(Operands)
  BY AppendElements DEF Push
<1> QED BY <1>2, <1>3, <1>5, <1>6

(* Freeing an operand keeps the types: it is a register of the file or it *)
(* is left alone.                                                         *)
LEMMA FreeLocalType ==
    ASSUME NEW c \in CodeType, NEW x \in Operands
    PROVE  FreeLocal(c, x) \in CodeType
<1>1. x.own => x.mi.n \in 0 .. U8-1
  BY DEF Operands, Registers
<1> QED BY <1>1, FreeRegType DEF FreeLocal

-----------------------------------------------------------------------------
(* A step replaces the top task. *)

(* The top of a control stack that is not empty is a task. *)
LEMMA TopTypes ==
    ASSUME TypeOK, control # <<>>
    PROVE  Top \in Tasks /\ Tail(control) \in Seq(Tasks)
<1>1. control \in Seq(Tasks)
  BY DEF TypeOK
<1>2. 1 \in 1 .. Len(control)
  BY <1>1, EmptySeq
<1>3. Top \in Tasks
  BY <1>1, <1>2, ElementOfSeq DEF Top
<1> QED BY <1>1, <1>3, HeadTailProperties

(* A guard on the top task's kind gives its kind. *)
LEMMA AtTypes ==
    ASSUME TypeOK, NEW k, At(k)
    PROVE  Top \in Tasks /\ Top.k = k
  BY TopTypes DEF At, Top

(* A step that does not panic keeps the types when what it writes has     *)
(* them.                                                                  *)
LEMMA DoTypes ==
    ASSUME TypeOK, control # <<>>,
           NEW c \in CodeType, NEW l \in Seq(Operands), NEW tasks \in Seq(Tasks),
           Do(c, l, tasks)
    PROVE  TypeOK'
<1>1. control' \in Seq(Tasks)
  <2>1. control' = tasks \o Tail(control)
    BY DEF Do
  <2>2. Tail(control) \in Seq(Tasks)
    BY TopTypes
  <2> QED BY <2>1, <2>2, ConcatProperties
<1> QED BY <1>1 DEF TypeOK, Do


-----------------------------------------------------------------------------
(* Every action keeps the types: the statements. *)

(* Labels of the bytecode fit their width, and are naturals. *)
LEMMA CodeLabels ==
    ASSUME NEW c \in CodeType
    PROVE  /\ EmitLabel(c) \in Labels
           /\ \A n \in Nat : FollowingInstr(c, n) \in Labels
           /\ Labels \subseteq Nat
  BY LabelTypes, WidthAssumption DEF Labels

(* Emitting an instruction and freeing the operand it was given. *)
LEMMA EmitFreeType ==
    ASSUME TypeOK, NEW i \in Instruction
    PROVE  /\ Emit(code, i) \in CodeType
           /\ FreeLocal(Emit(code, i), Local(0)) \in CodeType
<1>1. Emit(code, i) \in CodeType
  BY EmitProperties DEF TypeOK
<1>2. Local(0) \in Operands
  BY LocalTypes DEF TypeOK
<1> QED BY <1>1, <1>2, FreeLocalType

(* A branch on the operand at the top, to labels or to the 0 of a branch   *)
(* that is still to be patched.                                            *)
LEMMA BranchOnType ==
    ASSUME TypeOK, NEW on \in Labels \cup {0}, NEW to \in Labels \cup {0}
    PROVE  FreeLocal(Emit(code, Branch(Local(0).mi, on, to)), Local(0)) \in CodeType
<1>1. on \in Nat /\ to \in Nat
  BY WidthAssumption DEF Labels
<1>2. Local(0).mi \in MaybeImm
  BY LocalTypes DEF TypeOK
<1>3. Branch(Local(0).mi, on, to) \in Instruction
  BY <1>1, <1>2, BranchType
<1> QED BY <1>3, EmitFreeType

(* An if and its branch. *)
LEMMA IfTypes ==
    ASSUME TypeOK, If \/ IfBranch
    PROVE  TypeOK'
<1>1. CASE If
  <2> DEFINE branch == [k |-> "IfBranch", st |-> SaveRegs(code), body |-> Top.s.body,
                        orelse |-> Top.s.orelse]
  <2>1. At("Stmt") /\ Top.s.k = "if" /\ control # <<>>
    BY <1>1 DEF If, AtStmt, At
  <2>2. Top.s \in Stmts
    BY <2>1, AtTypes, TaskFields
  <2>3. Top.s.c \in Exprs /\ Top.s.body \in Seq(Stmts) /\ Top.s.orelse \in Seq(Seq(Stmts))
    BY <2>1, <2>2, StmtFields
  <2>4. SaveRegs(code) \in RegsState
    BY SaveRegsType DEF TypeOK
  <2>5. branch \in Tasks
    BY <2>3, <2>4 DEF Tasks
  <2>6. <<Expr(Top.s.c), branch>> \in Seq(Tasks)
    BY <2>3, <2>5, CallTasks
  <2>7. Do(code, locals, <<Expr(Top.s.c), branch>>)
    BY <1>1 DEF If
  <2>8. code \in CodeType /\ locals \in Seq(Operands)
    BY DEF TypeOK
  <2> QED BY <2>1, <2>6, <2>7, <2>8, DoTypes
<1>2. CASE IfBranch
  <2> DEFINE c == FreeLocal(Emit(code, Branch(Local(0).mi, FollowingInstr(code, 1), 0)), Local(0))
             end == [k |-> "ThenEnd", st |-> Top.st, orelse |-> Top.orelse,
                     branch |-> EmitLabel(code)]
  <2>1. At("IfBranch") /\ control # <<>>
    BY <1>2 DEF IfBranch, At
  <2>2. Top.st \in RegsState /\ Top.body \in Seq(Stmts) /\ Top.orelse \in Seq(Seq(Stmts))
    BY <2>1, AtTypes, TaskFields
  <2>3. code \in CodeType /\ locals \in Seq(Operands)
    BY DEF TypeOK
  <2>4. Local(0) \in Operands /\ Local(0).mi \in MaybeImm /\ Pop(1) \in Seq(Operands)
    BY <2>3, LocalTypes
  <2>5. c \in CodeType
    BY <2>3, CodeLabels, BranchOnType
  <2>6. end \in Tasks
    BY <2>2, <2>3, CodeLabels DEF Tasks
  <2>7. Body(Top.body) \o <<end>> \in Seq(Tasks)
    BY <2>2, <2>6, BodyType, ConcatProperties
  <2>8. Do(c, Pop(1), Body(Top.body) \o <<end>>)
    BY <1>2 DEF IfBranch
  <2> QED BY <2>1, <2>4, <2>5, <2>7, <2>8, DoTypes
<1> QED BY <1>1, <1>2

(* The ends of a then-body and of an else: the panic before the u8        *)
(* addition overflows is what keeps the saved pointer in range.           *)
LEMMA ElseTypes ==
    ASSUME TypeOK, ThenEnd \/ ElseEnd
    PROVE  TypeOK'
<1>0. code \in CodeType /\ locals \in Seq(Operands)
  BY DEF TypeOK
<1>1. CASE ThenEnd
  <2> DEFINE patched == SetLabel(code, Top.branch, FollowingInstr(code, 0))
             pushed  == PushStartLabel(patched, Top.branch)
             st      == [Top.st EXCEPT !.reg_pointer = @ + 1]
             end     == [k |-> "ElseEnd", st |-> st, jump |-> EmitLabel(code)]
  <2>1. At("ThenEnd") /\ control # <<>>
    BY <1>1 DEF ThenEnd, At
  <2>2. Top.st \in RegsState /\ Top.orelse \in Seq(Seq(Stmts)) /\ Top.branch \in Labels
    BY <2>1, AtTypes, TaskFields
  <2>3. patched \in CodeType
    BY <1>0, <2>2, CodeLabels, SetLabelProperties
  <2>4. CASE Top.orelse = <<>>
    <3>1. Do(patched, locals, <<>>)
      BY <1>1, <2>4 DEF ThenEnd
    <3>2. <<>> \in Seq(Tasks)
      BY EmptySeq
    <3> QED BY <1>0, <2>1, <2>3, <3>1, <3>2, DoTypes
  <2>5. CASE Top.orelse # <<>>
    <3>1. Do(Emit(pushed, Jump(0)), locals, Body(Top.orelse[1]) \o <<end>>)
      BY <1>1, <2>5 DEF ThenEnd
    <3>2. Emit(pushed, Jump(0)) \in CodeType
      <4>1. pushed \in CodeType
        BY <2>2, <2>3, CodeLabels, PushStartLabelProperties
      <4>2. Jump(0) \in Instruction
        BY JumpType
      <4> QED BY <4>1, <4>2, EmitProperties
    <3>3. Top.st.reg_pointer + 1 < U8
      <4>1. ~Panics(Top)
        BY <3>1 DEF Do
      <4>2. Top.k = "ThenEnd"
        BY <2>1, AtTypes
      <4>3. Top.st.reg_pointer + 1 >= U8 => Panics(Top)
        BY <2>5, <4>2 DEF Panics
      <4>4. Top.st.reg_pointer \in Int /\ U8 \in Int
        BY <2>2, WidthAssumption DEF RegsState
      <4> QED BY <4>1, <4>3, <4>4
    <3>4. st \in RegsState
      BY <2>2, <3>3, WidthAssumption DEF RegsState
    <3>5. end \in Tasks
      BY <1>0, <3>4, CodeLabels DEF Tasks
    <3>6. Top.orelse[1] \in Seq(Stmts)
      <4>1. 1 \in 1 .. Len(Top.orelse)
        BY <2>2, <2>5, EmptySeq
      <4> QED BY <2>2, <4>1, ElementOfSeq
    <3>7. Body(Top.orelse[1]) \o <<end>> \in Seq(Tasks)
      BY <3>5, <3>6, BodyType, ConcatProperties
    <3> QED BY <1>0, <2>1, <3>1, <3>2, <3>7, DoTypes
  <2> QED BY <2>4, <2>5
<1>2. CASE ElseEnd
  <2> DEFINE c == ScopeHwmEnd(Top.st, code)
             d == SetLabel(c, Top.jump, FollowingInstr(c, 0))
  <2>1. At("ElseEnd") /\ control # <<>>
    BY <1>2 DEF ElseEnd, At
  <2>2. Top.st \in RegsState /\ Top.jump \in Labels
    BY <2>1, AtTypes, TaskFields
  <2>3. c \in CodeType
    BY <1>0, <2>2, ScopeTypes
  <2>4. d \in CodeType
    BY <2>2, <2>3, CodeLabels, SetLabelProperties
  <2>5. Do(d, locals, <<>>)
    BY <1>2 DEF ElseEnd
  <2>6. <<>> \in Seq(Tasks)
    BY EmptySeq
  <2> QED BY <1>0, <2>1, <2>4, <2>5, <2>6, DoTypes
<1> QED BY <1>1, <1>2


(* The condition of a loop is lowered before its branch. *)
LEMMA LoopTypes ==
    ASSUME TypeOK, control # <<>>, NEW cond \in Exprs, NEW body \in Seq(Stmts),
           NEW update \in Seq(Stmts), Loop(cond, body, update)
    PROVE  TypeOK'
<1> DEFINE branch == [k |-> "LoopBranch", top |-> FollowingInstr(code, 0), body |-> body,
                      update |-> update]
<1>1. code \in CodeType /\ locals \in Seq(Operands)
  BY DEF TypeOK
<1>2. branch \in Tasks
  BY <1>1, CodeLabels DEF Tasks
<1>3. <<Expr(cond), branch>> \in Seq(Tasks)
  BY <1>2, CallTasks
<1>4. Do(code, locals, <<Expr(cond), branch>>)
  BY DEF Loop
<1> QED BY <1>1, <1>3, <1>4, DoTypes

(* The heads of while and for. *)
LEMMA WhileForTypes ==
    ASSUME TypeOK, While \/ For \/ ForTop
    PROVE  TypeOK'
<1>0. code \in CodeType /\ locals \in Seq(Operands)
  BY DEF TypeOK
<1>1. CASE While
  <2>1. At("Stmt") /\ Top.s.k = "while" /\ control # <<>>
    BY <1>1 DEF While, AtStmt, At
  <2>2. Top.s \in Stmts
    BY <2>1, AtTypes, TaskFields
  <2>3. Top.s.c \in Exprs /\ Top.s.body \in Seq(Stmts)
    BY <2>1, <2>2, StmtFields
  <2>4. Loop(Top.s.c, Top.s.body, <<>>) /\ <<>> \in Seq(Stmts)
    BY <1>1, EmptySeq DEF While
  <2> QED BY <2>1, <2>3, <2>4, LoopTypes
<1>2. CASE For
  <2> DEFINE top == [k |-> "ForTop", s |-> Top.s]
  <2>1. At("Stmt") /\ Top.s.k = "for" /\ control # <<>>
    BY <1>2 DEF For, AtStmt, At
  <2>2. Top.s \in Stmts
    BY <2>1, AtTypes, TaskFields
  <2>3. Top.s.init \in Seq(Stmts)
    BY <2>1, <2>2, StmtFields
  <2>4. top \in Tasks
    BY <2>1, <2>2 DEF Tasks
  <2>5. Simple(Top.s.init) \o <<top>> \in Seq(Tasks)
    BY <2>3, <2>4, SimpleType, ConcatProperties
  <2>6. Do(code, locals, Simple(Top.s.init) \o <<top>>)
    BY <1>2 DEF For
  <2> QED BY <1>0, <2>1, <2>5, <2>6, DoTypes
<1>3. CASE ForTop
  <2> DEFINE s == Top.s
             end == [k |-> "LoopEnd", top |-> FollowingInstr(code, 0), branch |-> <<>>]
             tasks == Body(s.body) \o Simple(s.update) \o <<end>>
  <2>1. At("ForTop") /\ control # <<>>
    BY <1>3 DEF ForTop, At
  <2>2. s \in Stmts /\ s.k = "for"
    BY <2>1, AtTypes, TaskFields
  <2>3. s.cond \in Seq(Exprs) /\ s.body \in Seq(Stmts) /\ s.update \in Seq(Stmts)
    BY <2>2, StmtFields
  <2>4. CASE s.cond # <<>>
    <3>1. 1 \in 1 .. Len(s.cond)
      BY <2>3, <2>4, EmptySeq
    <3>2. s.cond[1] \in Exprs
      BY <2>3, <3>1, ElementOfSeq
    <3>3. Loop(s.cond[1], s.body, s.update)
      BY <1>3, <2>4 DEF ForTop
    <3> QED BY <2>1, <2>3, <3>2, <3>3, LoopTypes
  <2>5. CASE s.cond = <<>>
    <3>1. <<>> \in Seq(Labels)
      BY EmptySeq
    <3>2. end \in Tasks
      BY <1>0, <3>1, CodeLabels DEF Tasks
    <3>3. Body(s.body) \in Seq(Tasks) /\ Simple(s.update) \in Seq(Tasks)
      BY <2>3, BodyType, SimpleType
    <3>4. tasks \in Seq(Tasks)
      BY <3>2, <3>3, ConcatProperties
    <3>5. Do(code, locals, tasks)
      BY <1>3, <2>5 DEF ForTop
    <3> QED BY <1>0, <2>1, <3>4, <3>5, DoTypes
  <2> QED BY <2>4, <2>5
<1> QED BY <1>1, <1>2, <1>3

(* The branch and the end of a loop. *)
LEMMA LoopBranchTypes ==
    ASSUME TypeOK, LoopBranch \/ LoopEnd
    PROVE  TypeOK'
<1>0. code \in CodeType /\ locals \in Seq(Operands)
  BY DEF TypeOK
<1>1. CASE LoopBranch
  <2> DEFINE c == FreeLocal(Emit(code, Branch(Local(0).mi, FollowingInstr(code, 1), 0)), Local(0))
             end == [k |-> "LoopEnd", top |-> Top.top, branch |-> <<EmitLabel(code)>>]
             tasks == Body(Top.body) \o Simple(Top.update) \o <<end>>
  <2>1. At("LoopBranch") /\ control # <<>>
    BY <1>1 DEF LoopBranch, At
  <2>2. Top.top \in Labels /\ Top.body \in Seq(Stmts) /\ Top.update \in Seq(Stmts)
    BY <2>1, AtTypes, TaskFields
  <2>3. c \in CodeType
    BY <1>0, CodeLabels, BranchOnType
  <2>4. Pop(1) \in Seq(Operands)
    BY <1>0, LocalTypes
  <2>5. <<EmitLabel(code)>> \in Seq(Labels)
    BY <1>0, CodeLabels
  <2>6. end \in Tasks
    BY <2>2, <2>5 DEF Tasks
  <2>7. Body(Top.body) \in Seq(Tasks) /\ Simple(Top.update) \in Seq(Tasks)
    BY <2>2, BodyType, SimpleType
  <2>8. tasks \in Seq(Tasks)
    BY <2>6, <2>7, ConcatProperties
  <2>9. Do(c, Pop(1), tasks)
    BY <1>1 DEF LoopBranch
  <2> QED BY <2>1, <2>3, <2>4, <2>8, <2>9, DoTypes
<1>2. CASE LoopEnd
  <2> DEFINE c == Emit(code, Jump(Top.top))
             d == IF Top.branch = <<>> THEN c ELSE SetLabel(c, Top.branch[1], FollowingInstr(c, 0))
  <2>1. At("LoopEnd") /\ control # <<>>
    BY <1>2 DEF LoopEnd, At
  <2>2. Top.top \in Labels /\ Top.branch \in Seq(Labels)
    BY <2>1, AtTypes, TaskFields
  <2>3. c \in CodeType
    <3>1. Top.top \in Nat
      BY <1>0, <2>2, CodeLabels
    <3>2. Jump(Top.top) \in Instruction
      BY <3>1, JumpType
    <3> QED BY <3>2, EmitFreeType
  <2>4. d \in CodeType
    <3>1. CASE Top.branch = <<>>
      BY <2>3, <3>1
    <3>2. CASE Top.branch # <<>>
      <4>1. 1 \in 1 .. Len(Top.branch)
        BY <2>2, <3>2, EmptySeq
      <4>2. Top.branch[1] \in Nat
        BY <1>0, <2>2, <4>1, ElementOfSeq, CodeLabels
      <4>3. FollowingInstr(c, 0) \in Nat
        BY <2>3, CodeLabels
      <4>4. SetLabel(c, Top.branch[1], FollowingInstr(c, 0)) \in CodeType
        BY <2>3, <4>2, <4>3, SetLabelProperties
      <4> QED BY <3>2, <4>4
    <3> QED BY <3>1, <3>2
  <2>5. Do(d, locals, <<>>)
    BY <1>2 DEF LoopEnd
  <2>6. <<>> \in Seq(Tasks)
    BY EmptySeq
  <2> QED BY <1>0, <2>1, <2>4, <2>5, <2>6, DoTypes
<1> QED BY <1>1, <1>2

(* A do-while, its branch, and an expression statement. *)
LEMMA DoWhileTypes ==
    ASSUME TypeOK, DoWhile \/ DoBranch \/ ExprStmt
    PROVE  TypeOK'
<1>0. code \in CodeType /\ locals \in Seq(Operands)
  BY DEF TypeOK
<1>1. CASE DoWhile
  <2> DEFINE branch == [k |-> "DoBranch", top |-> FollowingInstr(code, 0)]
             tasks == Body(Top.s.body) \o <<Expr(Top.s.c), branch>>
  <2>1. At("Stmt") /\ Top.s.k = "dowhile" /\ control # <<>>
    BY <1>1 DEF DoWhile, AtStmt, At
  <2>2. Top.s \in Stmts
    BY <2>1, AtTypes, TaskFields
  <2>3. Top.s.c \in Exprs /\ Top.s.body \in Seq(Stmts)
    BY <2>1, <2>2, StmtFields
  <2>4. branch \in Tasks
    BY <1>0, CodeLabels DEF Tasks
  <2>5. <<Expr(Top.s.c), branch>> \in Seq(Tasks)
    BY <2>3, <2>4, CallTasks
  <2>6. tasks \in Seq(Tasks)
    BY <2>3, <2>5, BodyType, ConcatProperties
  <2>7. Do(code, locals, tasks)
    BY <1>1 DEF DoWhile
  <2> QED BY <1>0, <2>1, <2>6, <2>7, DoTypes
<1>2. CASE DoBranch
  <2> DEFINE c == FreeLocal(Emit(code, Branch(Local(0).mi, Top.top, FollowingInstr(code, 1))), Local(0))
  <2>1. At("DoBranch") /\ control # <<>>
    BY <1>2 DEF DoBranch, At
  <2>2. Top.top \in Labels
    BY <2>1, AtTypes, TaskFields
  <2>3. c \in CodeType
    BY <1>0, <2>2, CodeLabels, BranchOnType
  <2>4. Pop(1) \in Seq(Operands) /\ <<>> \in Seq(Tasks)
    BY <1>0, LocalTypes, EmptySeq
  <2>5. Do(c, Pop(1), <<>>)
    BY <1>2 DEF DoBranch
  <2> QED BY <2>1, <2>3, <2>4, <2>5, DoTypes
<1>3. CASE ExprStmt
  <2>1. At("Stmt") /\ Top.s.k = "expr" /\ control # <<>>
    BY <1>3 DEF ExprStmt, AtStmt, At
  <2>2. Top.s \in Stmts
    BY <2>1, AtTypes, TaskFields
  <2>3. Top.s.e \in Exprs
    BY <2>1, <2>2, StmtFields
  <2>4. <<Expr(Top.s.e), Free>> \in Seq(Tasks)
    BY <2>3, CallTasks
  <2>5. Do(code, locals, <<Expr(Top.s.e), Free>>)
    BY <1>3 DEF ExprStmt
  <2> QED BY <1>0, <2>1, <2>4, <2>5, DoTypes
<1> QED BY <1>1, <1>2, <1>3


-----------------------------------------------------------------------------
(* Every action keeps the types: the call windows. *)

(* The tasks that fill a window name registers of u8, and so does the      *)
(* pointer behind it.                                                      *)
LEMMA WindowTypes ==
    ASSUME TypeOK, NEW args \in Seq(Exprs), WindowFits(args),
           NEW extra \in Seq(Tasks), NEW instr \in Instruction
    PROVE  /\ Window(args, extra, instr) \in Seq(Tasks)
           /\ code.reg_pointer + Len(args) \in Registers
<1> DEFINE top == code.reg_pointer + Len(args)
           fill == [i \in 1 .. Len(args) |-> Into(args[i], code.reg_pointer + i - 1)]
           call == [instr EXCEPT !.lo = code.reg_pointer, !.hi = top]
           end == [k |-> "CallEnd", st |-> SaveRegs(code), instr |-> call]
<1>1. code \in CodeType
  BY DEF TypeOK
<1>2. code.reg_pointer \in 0 .. U8-1 /\ Len(args) \in Nat /\ U8 \in Nat
  BY <1>1, LenProperties, WidthAssumption DEF CodeType
<1>3. top \in Registers
  BY <1>2 DEF WindowFits, Registers
<1>4. fill \in Seq(Tasks)
  <2>1. \A i \in 1 .. Len(args) :
           args[i] \in Exprs /\ code.reg_pointer + i - 1 \in Registers
    BY <1>2, <1>3, ElementOfSeq DEF Registers
  <2>2. \A i \in 1 .. Len(args) : Into(args[i], code.reg_pointer + i - 1) \in Tasks
    BY <2>1, CallTasks
  <2> QED BY <1>2, <2>2
<1>5. call \in Instruction
  <2>1. code.reg_pointer \in Nat /\ top \in Nat
    BY <1>2
  <2> HIDE DEF top
  <2>2. [instr EXCEPT !.lo = code.reg_pointer] \in Instruction
    BY <2>1 DEF Instruction
  <2> QED BY <2>1, <2>2 DEF Instruction
<1>6. end \in Tasks
  BY <1>1, <1>5, SaveRegsType DEF Tasks
<1>7. Window(args, extra, instr) = fill \o extra \o <<end>>
  BY DEF Window
<1>8. fill \o extra \o <<end>> \in Seq(Tasks)
  BY <1>4, <1>6, ConcatProperties
<1> QED BY <1>3, <1>7, <1>8

(* A call raises the pointer past its window. *)
LEMMA RaiseType ==
    ASSUME NEW c \in CodeType, NEW n \in Nat, c.reg_pointer + n \in Registers
    PROVE  [c EXCEPT !.reg_pointer = @ + n] \in CodeType
  BY DEF CodeType, Registers

(* A command and its redirection: gen_call_convention's panic keeps the   *)
(* window in the file.                                                    *)
LEMMA CommandTypes ==
    ASSUME TypeOK, Command \/ Redirection
    PROVE  TypeOK'
<1>0. code \in CodeType /\ locals \in Seq(Operands)
  BY DEF TypeOK
<1>1. CASE Command
  <2> DEFINE s == Top.s
             extra == IF s.redir = <<>> THEN <<>> ELSE <<[k |-> "Redirection", e |-> s.redir[1]]>>
             instr == Output(s.name, s.redir # <<>>)
             c == [code EXCEPT !.reg_pointer = @ + Len(s.args)]
  <2>1. At("Stmt") /\ s.k = "command" /\ control # <<>>
    BY <1>1 DEF Command, AtStmt, At
  <2>2. s \in Stmts
    BY <2>1, AtTypes, TaskFields
  <2>3. s.name \in Commands /\ s.args \in Seq(Exprs) /\ s.redir \in Seq(Exprs)
    BY <2>1, <2>2, StmtFields
  <2>4. Do(c, locals, Window(s.args, extra, instr))
    BY <1>1 DEF Command
  <2>5. WindowFits(s.args)
    <3>1. ~Panics(Top) /\ Top.k = "Stmt"
      BY <2>1, <2>4, AtTypes DEF Do
    <3> QED BY <2>1, <3>1 DEF Panics
  <2>6. extra \in Seq(Tasks)
    <3>1. CASE s.redir = <<>>
      BY <3>1, EmptySeq
    <3>2. CASE s.redir # <<>>
      <4>1. 1 \in 1 .. Len(s.redir)
        BY <2>3, <3>2, EmptySeq
      <4>2. s.redir[1] \in Exprs
        BY <2>3, <4>1, ElementOfSeq
      <4>3. [k |-> "Redirection", e |-> s.redir[1]] \in Tasks
        BY <4>2 DEF Tasks
      <4> QED BY <3>2, <4>3
    <3> QED BY <3>1, <3>2
  <2>7. instr \in Instruction
    BY <2>3, OutputType
  <2>8. Window(s.args, extra, instr) \in Seq(Tasks) /\ code.reg_pointer + Len(s.args) \in Registers
    BY <2>3, <2>5, <2>6, <2>7, WindowTypes
  <2>9. c \in CodeType
    BY <1>0, <2>3, <2>8, LenProperties, RaiseType
  <2> QED BY <1>0, <2>1, <2>4, <2>8, <2>9, DoTypes
<1>2. CASE Redirection
  <2> DEFINE r == NextReg(code)
  <2>1. At("Redirection") /\ control # <<>>
    BY <1>2 DEF Redirection, At
  <2>2. Top.e \in Exprs /\ Top.k = "Redirection"
    BY <2>1, AtTypes, TaskFields
  <2>3. Do(AllocReg(code), Push(Own(r)), <<Into(Top.e, r), Free>>)
    BY <1>2 DEF Redirection
  <2>4. CanAlloc(code)
    BY <2>2, <2>3 DEF Do, Panics, Allocates
  <2>5. r \in Registers /\ AllocReg(code) \in CodeType
    BY <1>0, <2>4, AllocProperties DEF Registers
  <2>6. Push(Own(r)) \in Seq(Operands)
    BY <1>0, <2>5, OperandTypes, LocalTypes
  <2>7. <<Into(Top.e, r), Free>> \in Seq(Tasks)
    BY <2>2, <2>5, CallTasks
  <2> QED BY <2>1, <2>3, <2>5, <2>6, <2>7, DoTypes
<1> QED BY <1>1, <1>2

(* The end of a call's window, and the freeing of the top operand. *)
LEMMA CallEndTypes ==
    ASSUME TypeOK, CallEnd \/ FreeTop
    PROVE  TypeOK'
<1>0. code \in CodeType /\ locals \in Seq(Operands)
  BY DEF TypeOK
<1>1. CASE CallEnd
  <2> DEFINE c == Emit(ScopeEnd(Top.st, code), Top.instr)
             l == IF Top.instr.op \in ArrayLoads THEN Push(Plain(Reg(Top.instr.dest))) ELSE locals
  <2>1. At("CallEnd") /\ control # <<>>
    BY <1>1 DEF CallEnd, At
  <2>2. Top.st \in RegsState /\ Top.instr \in Instruction
    BY <2>1, AtTypes, TaskFields
  <2>3. c \in CodeType
    BY <1>0, <2>2, ScopeTypes, EmitProperties
  <2>4. Reg(Top.instr.dest) \in MaybeImm
    <3>1. Top.instr.dest \in Int
      BY <2>2 DEF Instruction
    <3> QED BY <3>1, ImmType
  <2>5. l \in Seq(Operands)
    BY <1>0, <2>4, OperandTypes, LocalTypes
  <2>6. Do(c, l, <<>>)
    BY <1>1 DEF CallEnd
  <2>7. <<>> \in Seq(Tasks)
    BY EmptySeq
  <2> QED BY <2>1, <2>3, <2>5, <2>6, <2>7, DoTypes
<1>2. CASE FreeTop
  <2>1. At("Free") /\ control # <<>> /\ Do(FreeLocal(code, Local(0)), Pop(1), <<>>)
    BY <1>2 DEF FreeTop, At
  <2>2. Local(0) \in Operands /\ Pop(1) \in Seq(Operands) /\ <<>> \in Seq(Tasks)
    BY <1>0, LocalTypes, EmptySeq
  <2>3. FreeLocal(code, Local(0)) \in CodeType
    BY <1>0, <2>2, FreeLocalType
  <2> QED BY <2>1, <2>2, <2>3, DoTypes
<1> QED BY <1>1, <1>2


-----------------------------------------------------------------------------
(* Every action keeps the types: operands and atoms. *)

(* A variable is interned and read as an immediate or through dest. *)
LEMMA ScalarMiTypes ==
    ASSUME NEW c \in CodeType, NEW x, NEW dest \in Registers,
           x.k = "user" => x.id \in Idents, x.k # "user" => x.n \in Nat
    PROVE  /\ ScalarMi(c, x, dest).code \in CodeType
           /\ ScalarMi(c, x, dest).mi \in MaybeImm
           /\ ScalarMi(c, x, dest).mi.k = "Reg" => ScalarMi(c, x, dest).mi = Reg(dest)
<1>1. {"ImmUserVar", "ImmBuiltinVar"} \subseteq ImmKinds \ {"Reg"}
  BY DEF ImmKinds
<1>2. {"LoadUserScalar", "LoadBuiltinScalar"} \subseteq Opcodes
  BY DEF Opcodes, MemoryOps
<1>3. dest \in 0 .. U8-1
  BY DEF Registers
<1>4. CASE x.k = "user"
  <2> DEFINE d == RegisterUserVar(c, x.id)
             n == UserIndex(d, x.id)
  <2>1. d \in CodeType /\ n \in 0 .. U16-1
    BY <1>4, RegisterUserVarProperties
  <2>2. n \in Nat
    BY <2>1, WidthAssumption
  <2>3. ScalarMi(c, x, dest) = ImmOrLoad(d, "ImmUserVar", n, "LoadUserScalar", dest)
    BY <1>4 DEF ScalarMi
  <2> HIDE DEF d, n
  <2> QED BY <1>1, <1>2, <1>3, <2>1, <2>2, <2>3, ImmOrLoadProperties
<1>5. CASE x.k # "user"
  <2>1. ScalarMi(c, x, dest) = ImmOrLoad(c, "ImmBuiltinVar", x.n, "LoadBuiltinScalar", dest)
    BY <1>5 DEF ScalarMi
  <2> QED BY <1>1, <1>2, <1>3, <1>5, <2>1, ImmOrLoadProperties
<1> QED BY <1>4, <1>5

(* A constant is interned and read in the same way. *)
LEMMA ConstMiTypes ==
    ASSUME NEW c \in CodeType, NEW v \in Consts, NEW slot \in ConstSlots(c, v), NEW dest \in Registers
    PROVE  LET x == ImmOrLoad(RegisterConst(c, v, slot), "ImmCnt", (slot - 1) % U16, "LoadConst", dest)
           IN  x.code \in CodeType /\ x.mi \in MaybeImm /\ (x.mi.k = "Reg" => x.mi = Reg(dest))
<1>1. "ImmCnt" \in ImmKinds \ {"Reg"} /\ "LoadConst" \in Opcodes
  BY DEF ImmKinds, Opcodes, MemoryOps
<1>2. dest \in 0 .. U8-1
  BY DEF Registers
<1>3. RegisterConst(c, v, slot) \in CodeType /\ (slot - 1) % U16 \in 0 .. U16-1
  BY RegisterConstProperties
<1>4. (slot - 1) % U16 \in Nat
  BY <1>3, WidthAssumption
<1> QED BY <1>1, <1>2, <1>3, <1>4, ImmOrLoadProperties

(* lower_atom_mi gives an immediate or dest, never another register: the   *)
(* debug assertion of lower_atom (lower.rs, `mi.is_reg`) cannot fail.      *)
LEMMA AtomMiTypes ==
    ASSUME NEW c \in CodeType, NEW a \in Atoms, a.k # "todo", NEW dest \in Registers,
           NEW slot, a.k \in {"cnt", "regex"} => slot \in ConstSlots(c, a.v)
    PROVE  /\ AtomMi(c, a, dest, slot).code \in CodeType
           /\ AtomMi(c, a, dest, slot).mi \in MaybeImm
           /\ AtomMi(c, a, dest, slot).mi.k = "Reg" => AtomMi(c, a, dest, slot).mi = Reg(dest)
<1>1. CASE a.k \in {"user", "builtin"}
  <2>1. AtomMi(c, a, dest, slot) = ScalarMi(c, a, dest)
    BY <1>1 DEF AtomMi
  <2>2. (a.k = "user" => a.id \in Idents) /\ (a.k # "user" => a.n \in Nat)
    BY <1>1, AtomFields
  <2> QED BY <2>1, <2>2, ScalarMiTypes
<1>2. CASE a.k = "int"
  <2>1. AtomMi(c, a, dest, slot) = [code |-> c, mi |-> Imm(a.n)]
    BY <1>2 DEF AtomMi
  <2>2. Imm(a.n) \in MaybeImm /\ Imm(a.n).k = "Imm"
    BY <1>2, AtomFields, ImmType DEF Imm
  <2> QED BY <2>1, <2>2
<1>3. CASE a.k = "cnt"
  <2>1. AtomMi(c, a, dest, slot) =
           ImmOrLoad(RegisterConst(c, a.v, slot), "ImmCnt", (slot - 1) % U16, "LoadConst", dest)
    BY <1>3 DEF AtomMi
  <2>2. a.v \in Consts
    BY <1>3, AtomFields
  <2> QED BY <1>3, <2>1, <2>2, ConstMiTypes
<1>4. CASE a.k = "regex"
  <2> DEFINE x == ImmOrLoad(RegisterConst(c, a.v, slot), "ImmCnt", (slot - 1) % U16, "LoadConst", dest)
             i == Binary("Matches", dest, [k |-> "Rec", n |-> 0], x.mi)
  <2>1. AtomMi(c, a, dest, slot) = [code |-> Emit(x.code, i), mi |-> Reg(dest)]
    BY <1>4 DEF AtomMi
  <2>2. a.v \in Consts
    BY <1>4, AtomFields
  <2>3. x.code \in CodeType /\ x.mi \in MaybeImm
    BY <1>4, <2>2, ConstMiTypes
  <2>4. dest \in Nat /\ Reg(dest) \in MaybeImm /\ [k |-> "Rec", n |-> 0] \in MaybeImm
    <3>1. dest \in Nat
      BY WidthAssumption DEF Registers
    <3> QED BY <3>1, ImmType DEF MaybeImm, ImmKinds
  <2>5. "Matches" \in Opcodes
    BY DEF Opcodes, BinaryOps
  <2>6. i \in Instruction
    BY <2>3, <2>4, <2>5, BinaryType
  <2>7. Emit(x.code, i) \in CodeType
    BY <2>3, <2>6, EmitProperties
  <2> QED BY <2>1, <2>4, <2>7
<1> QED BY <1>1, <1>2, <1>3, <1>4, AtomFields

(* lower_expr, lower_atom and lower_atom_into. *)
LEMMA LowerTypes ==
    ASSUME TypeOK, LowerAtom \/ LowerNode \/ AtomInto
    PROVE  TypeOK'
<1>0. code \in CodeType /\ locals \in Seq(Operands) /\ <<>> \in Seq(Tasks)
  BY EmptySeq DEF TypeOK
<1>1. CASE LowerAtom
  <2> DEFINE r == NextReg(code)
             d == AllocReg(code)
  <2>1. At("Expr") /\ Top.e.k = "atom" /\ control # <<>>
    BY <1>1 DEF LowerAtom, At
  <2>2. Top.k = "Expr" /\ Top.e \in Exprs
    BY <2>1, AtTypes, TaskFields
  <2>3. Top.e.a \in Atoms
    BY <2>1, <2>2, ExprFields
  <2>4. PICK slot \in Slots(Top.e.a) :
           LET x == AtomMi(d, Top.e.a, r, slot)
           IN  IF x.mi.k = "Reg" THEN Do(x.code, Push(Own(r)), <<>>)
                                 ELSE Do(FreeReg(x.code, r), Push(Plain(x.mi)), <<>>)
    BY <1>1 DEF LowerAtom
  <2> DEFINE x == AtomMi(d, Top.e.a, r, slot)
  <2>5. ~Panics(Top)
    BY <2>4 DEF Do
  <2>6. CanAlloc(code) /\ Top.e.a.k # "todo"
    BY <2>1, <2>2, <2>5 DEF Panics, Allocates
  <2>7. r \in Registers /\ r \in 0 .. U8-1 /\ d \in CodeType
    BY <1>0, <2>6, AllocProperties DEF Registers
  <2>8. Top.e.a.k \in {"cnt", "regex"} => slot \in ConstSlots(d, Top.e.a.v)
    <3>1. d.consts = code.consts
      BY <1>0 DEF AllocReg, CodeType
    <3> QED BY <2>4, <3>1 DEF Slots, ConstSlots
  <2>9. x.code \in CodeType /\ x.mi \in MaybeImm
    BY <2>3, <2>6, <2>7, <2>8, AtomMiTypes
  <2>10. FreeReg(x.code, r) \in CodeType
    BY <2>7, <2>9, FreeRegType
  <2>11. Push(Own(r)) \in Seq(Operands) /\ Push(Plain(x.mi)) \in Seq(Operands)
    BY <1>0, <2>7, <2>9, OperandTypes, LocalTypes
  <2>12. CASE x.mi.k = "Reg"
    BY <1>0, <2>1, <2>4, <2>9, <2>11, <2>12, DoTypes
  <2>13. CASE x.mi.k # "Reg"
    BY <1>0, <2>1, <2>4, <2>10, <2>11, <2>13, DoTypes
  <2> QED BY <2>12, <2>13
<1>2. CASE LowerNode
  <2> DEFINE r == NextReg(code)
  <2>1. At("Expr") /\ control # <<>> /\ Do(AllocReg(code), Push(Own(r)), <<Into(Top.e, r)>>)
    BY <1>2 DEF LowerNode, At
  <2>2. Top.k = "Expr" /\ Top.e \in Exprs
    BY <2>1, AtTypes, TaskFields
  <2>3. CanAlloc(code)
    BY <2>1, <2>2 DEF Do, Panics, Allocates
  <2>4. r \in Registers /\ AllocReg(code) \in CodeType
    BY <1>0, <2>3, AllocProperties DEF Registers
  <2>5. Push(Own(r)) \in Seq(Operands)
    BY <1>0, <2>4, OperandTypes, LocalTypes
  <2>6. <<Into(Top.e, r)>> \in Seq(Tasks)
    BY <2>2, <2>4, CallTasks
  <2> QED BY <2>1, <2>4, <2>5, <2>6, DoTypes
<1>3. CASE AtomInto
  <2>1. At("Into") /\ Top.e.k = "atom" /\ control # <<>>
    BY <1>3 DEF AtomInto, AtInto, At
  <2>2. Top.k = "Into" /\ Top.e \in Exprs /\ Top.dest \in Registers
    BY <2>1, AtTypes, TaskFields
  <2>3. Top.e.a \in Atoms
    BY <2>1, <2>2, ExprFields
  <2>4. PICK slot \in Slots(Top.e.a) :
           LET x == AtomMi(code, Top.e.a, Top.dest, slot)
           IN  Do(IF x.mi = Reg(Top.dest) THEN x.code ELSE Emit(x.code, Unary("Copy", Top.dest, x.mi)),
                  locals, <<>>)
    BY <1>3 DEF AtomInto
  <2> DEFINE x == AtomMi(code, Top.e.a, Top.dest, slot)
  <2>5. Top.e.a.k # "todo"
    BY <2>1, <2>2, <2>4 DEF Do, Panics
  <2>6. x.code \in CodeType /\ x.mi \in MaybeImm
    BY <1>0, <2>2, <2>3, <2>4, <2>5, AtomMiTypes DEF Slots
  <2>7. Emit(x.code, Unary("Copy", Top.dest, x.mi)) \in CodeType
    <3>1. Top.dest \in Nat /\ "Copy" \in Opcodes
      BY <2>2, WidthAssumption DEF Registers, Opcodes
    <3>2. Unary("Copy", Top.dest, x.mi) \in Instruction
      BY <2>6, <3>1, UnaryType
    <3> QED BY <2>6, <3>2, EmitProperties
  <2> QED BY <1>0, <2>1, <2>4, <2>6, <2>7, DoTypes
<1> QED BY <1>1, <1>2, <1>3


-----------------------------------------------------------------------------
(* Every action keeps the types: expressions. *)

(* The operators of the AST are opcodes, and a register is a destination.  *)
LEMMA OperatorTypes ==
    /\ UnaryOps \subseteq Opcodes /\ BinaryOps \subseteq Opcodes /\ ArithOps \subseteq Opcodes
    /\ {"Add", "Subtract"} \subseteq Opcodes
    /\ Registers \subseteq Nat
    /\ \A r \in Registers : Reg(r) \in MaybeImm
<1>1. UnaryOps \subseteq Opcodes /\ BinaryOps \subseteq Opcodes /\ ArithOps \subseteq Opcodes
  BY DEF Opcodes, BinaryOps
<1>2. {"Add", "Subtract"} \subseteq ArithOps
  BY DEF ArithOps
<1>3. Registers \subseteq Nat
  BY WidthAssumption DEF Registers
<1> QED BY <1>1, <1>2, <1>3, ImmType

(* The unary operators. *)
LEMMA UnaryTypes ==
    ASSUME TypeOK, UnaryInto \/ UnaryEmit
    PROVE  TypeOK'
<1>0. code \in CodeType /\ locals \in Seq(Operands)
  BY DEF TypeOK
<1>1. CASE UnaryInto
  <2> DEFINE emit == [k |-> "UnaryEmit", op |-> Top.e.op, dest |-> Top.dest]
  <2>1. /\ At("Into") /\ Top.e.k = "unary" /\ control # <<>>
        /\ Do(code, locals, <<Expr(Top.e.e), emit>>)
    BY <1>1 DEF UnaryInto, AtInto, At
  <2>2. Top.e \in Exprs /\ Top.dest \in Registers
    BY <2>1, AtTypes, TaskFields
  <2>3. Top.e.op \in UnaryOps /\ Top.e.e \in Exprs
    BY <2>1, <2>2, ExprFields
  <2>4. emit \in Tasks
    BY <2>2, <2>3 DEF Tasks
  <2>5. <<Expr(Top.e.e), emit>> \in Seq(Tasks)
    BY <2>3, <2>4, CallTasks
  <2> QED BY <1>0, <2>1, <2>5, DoTypes
<1>2. CASE UnaryEmit
  <2> DEFINE i == Unary(Top.op, Top.dest, Local(0).mi)
  <2>1. /\ At("UnaryEmit") /\ control # <<>>
        /\ Do(FreeLocal(Emit(code, i), Local(0)), Pop(1), <<>>)
    BY <1>2 DEF UnaryEmit, At
  <2>2. Top.op \in UnaryOps /\ Top.dest \in Registers
    BY <2>1, AtTypes, TaskFields
  <2>3. Local(0).mi \in MaybeImm /\ Pop(1) \in Seq(Operands) /\ <<>> \in Seq(Tasks)
    BY <1>0, LocalTypes, EmptySeq
  <2>4. Top.op \in Opcodes /\ Top.dest \in Nat
    BY <2>2, OperatorTypes
  <2>5. i \in Instruction
    BY <2>3, <2>4, UnaryType
  <2>6. FreeLocal(Emit(code, i), Local(0)) \in CodeType
    BY <2>5, EmitFreeType
  <2> QED BY <2>1, <2>3, <2>6, DoTypes
<1> QED BY <1>1, <1>2

(* The binary operators. *)
LEMMA BinaryTypes ==
    ASSUME TypeOK, BinaryInto \/ BinaryEmit
    PROVE  TypeOK'
<1>0. code \in CodeType /\ locals \in Seq(Operands)
  BY DEF TypeOK
<1>1. CASE BinaryInto
  <2> DEFINE emit == [k |-> "BinaryEmit", op |-> Top.e.op, dest |-> Top.dest]
  <2>1. /\ At("Into") /\ Top.e.k = "binary" /\ control # <<>>
        /\ Do(code, locals, <<Expr(Top.e.l), Expr(Top.e.r), emit>>)
    BY <1>1 DEF BinaryInto, AtInto, At
  <2>2. Top.e \in Exprs /\ Top.dest \in Registers
    BY <2>1, AtTypes, TaskFields
  <2>3. Top.e.op \in BinaryOps /\ Top.e.l \in Exprs /\ Top.e.r \in Exprs
    BY <2>1, <2>2, ExprFields
  <2>4. emit \in Tasks
    BY <2>2, <2>3 DEF Tasks
  <2>5. <<Expr(Top.e.l), Expr(Top.e.r), emit>> \in Seq(Tasks)
    BY <2>3, <2>4, CallTasks
  <2> QED BY <1>0, <2>1, <2>5, DoTypes
<1>2. CASE BinaryEmit
  <2> DEFINE i == Binary(Top.op, Top.dest, Local(1).mi, Local(0).mi)
             c == FreeLocal(FreeLocal(Emit(code, i), Local(1)), Local(0))
  <2>1. At("BinaryEmit") /\ control # <<>> /\ Do(c, Pop(2), <<>>)
    BY <1>2 DEF BinaryEmit, At
  <2>2. Top.op \in BinaryOps /\ Top.dest \in Registers
    BY <2>1, AtTypes, TaskFields
  <2>3. /\ Local(0) \in Operands /\ Local(0).mi \in MaybeImm
        /\ Local(1) \in Operands /\ Local(1).mi \in MaybeImm
        /\ Pop(2) \in Seq(Operands) /\ <<>> \in Seq(Tasks)
    BY <1>0, LocalTypes, EmptySeq
  <2>4. Top.op \in Opcodes /\ Top.dest \in Nat
    BY <2>2, OperatorTypes
  <2>5. i \in Instruction
    BY <2>3, <2>4, BinaryType
  <2>6. Emit(code, i) \in CodeType
    BY <2>5, EmitFreeType
  <2>7. c \in CodeType
    BY <2>3, <2>6, FreeLocalType
  <2> QED BY <2>1, <2>3, <2>7, DoTypes
<1> QED BY <1>1, <1>2

(* The ternary and its arms. *)
LEMMA TernaryTypes ==
    ASSUME TypeOK, TernaryInto \/ TernaryBranch \/ TernaryThen \/ TernaryElse
    PROVE  TypeOK'
<1>0. code \in CodeType /\ locals \in Seq(Operands) /\ <<>> \in Seq(Tasks)
  BY EmptySeq DEF TypeOK
<1>1. CASE TernaryInto
  <2> DEFINE branch == [k |-> "TernaryBranch", t |-> Top.e.t, f |-> Top.e.f, dest |-> Top.dest]
  <2>1. /\ At("Into") /\ Top.e.k = "ternary" /\ control # <<>>
        /\ Do(code, locals, <<Expr(Top.e.c), branch>>)
    BY <1>1 DEF TernaryInto, AtInto, At
  <2>2. Top.e \in Exprs /\ Top.dest \in Registers
    BY <2>1, AtTypes, TaskFields
  <2>3. Top.e.c \in Exprs /\ Top.e.t \in Exprs /\ Top.e.f \in Exprs
    BY <2>1, <2>2, ExprFields
  <2>4. branch \in Tasks
    BY <2>2, <2>3 DEF Tasks
  <2>5. <<Expr(Top.e.c), branch>> \in Seq(Tasks)
    BY <2>3, <2>4, CallTasks
  <2> QED BY <1>0, <2>1, <2>5, DoTypes
<1>2. CASE TernaryBranch
  <2> DEFINE c == FreeLocal(Emit(code, Branch(Local(0).mi, FollowingInstr(code, 1), 0)), Local(0))
             then == [k |-> "TernaryThen", st |-> SaveRegs(c), f |-> Top.f, dest |-> Top.dest,
                      branch |-> EmitLabel(code)]
  <2>1. /\ At("TernaryBranch") /\ control # <<>>
        /\ Do(c, Pop(1), <<Into(Top.t, Top.dest), then>>)
    BY <1>2 DEF TernaryBranch, At
  <2>2. Top.t \in Exprs /\ Top.f \in Exprs /\ Top.dest \in Registers
    BY <2>1, AtTypes, TaskFields
  <2>3. c \in CodeType
    BY <1>0, CodeLabels, BranchOnType
  <2>4. Pop(1) \in Seq(Operands)
    BY <1>0, LocalTypes
  <2>5. SaveRegs(c) \in RegsState /\ EmitLabel(code) \in Labels
    BY <1>0, <2>3, SaveRegsType, CodeLabels
  <2>6. then \in Tasks
    BY <2>2, <2>5 DEF Tasks
  <2>7. <<Into(Top.t, Top.dest), then>> \in Seq(Tasks)
    BY <2>2, <2>6, CallTasks
  <2> QED BY <2>1, <2>3, <2>4, <2>7, DoTypes
<1>3. CASE TernaryThen
  <2> DEFINE c == Emit(ScopeEnd(Top.st, code), Jump(0))
             else == [k |-> "TernaryElse", st |-> AfterScope(Top.st, code), branch |-> Top.branch,
                      jump |-> EmitLabel(code), label |-> FollowingInstr(c, 0)]
  <2>1. /\ At("TernaryThen") /\ control # <<>>
        /\ Do(c, locals, <<Into(Top.f, Top.dest), else>>)
    BY <1>3 DEF TernaryThen, At
  <2>2. /\ Top.st \in RegsState /\ Top.f \in Exprs /\ Top.dest \in Registers
        /\ Top.branch \in Labels
    BY <2>1, AtTypes, TaskFields
  <2>3. c \in CodeType
    <3>1. Jump(0) \in Instruction
      BY JumpType
    <3>2. ScopeEnd(Top.st, code) \in CodeType
      BY <1>0, <2>2, ScopeTypes
    <3> QED BY <3>1, <3>2, EmitProperties
  <2>4. /\ AfterScope(Top.st, code) \in RegsState
        /\ EmitLabel(code) \in Labels /\ FollowingInstr(c, 0) \in Labels
    BY <1>0, <2>2, <2>3, ScopeTypes, CodeLabels
  <2>5. else \in Tasks
    BY <2>2, <2>4 DEF Tasks
  <2>6. <<Into(Top.f, Top.dest), else>> \in Seq(Tasks)
    BY <2>2, <2>5, CallTasks
  <2> QED BY <1>0, <2>1, <2>3, <2>6, DoTypes
<1>4. CASE TernaryElse
  <2> DEFINE c == SetLabel(ScopeHwmEnd(Top.st, code), Top.branch, Top.label)
             d == SetLabel(c, Top.jump, FollowingInstr(c, 0))
  <2>1. At("TernaryElse") /\ control # <<>> /\ Do(d, locals, <<>>)
    BY <1>4 DEF TernaryElse, At
  <2>2. /\ Top.st \in RegsState /\ Top.branch \in Nat /\ Top.jump \in Nat
        /\ Top.label \in Nat
    BY <1>0, <2>1, AtTypes, TaskFields, CodeLabels
  <2>3. c \in CodeType
    BY <1>0, <2>2, ScopeTypes, SetLabelProperties
  <2>4. d \in CodeType
    BY <2>2, <2>3, CodeLabels, SetLabelProperties
  <2> QED BY <1>0, <2>1, <2>4, DoTypes
<1> QED BY <1>1, <1>2, <1>3, <1>4


(* The assignments. *)
LEMMA AssignTypes ==
    ASSUME TypeOK, AssignInto \/ AssignVal \/ AssignEmit
    PROVE  TypeOK'
<1>0. code \in CodeType /\ locals \in Seq(Operands) /\ <<>> \in Seq(Tasks)
  BY EmptySeq DEF TypeOK
<1>1. CASE AssignInto
  <2> DEFINE val == [k |-> "AssignVal", op |-> Top.e.op, p |-> Top.e.p, dest |-> Top.dest]
  <2>1. /\ At("Into") /\ Top.e.k = "assign" /\ control # <<>>
        /\ Do(code, locals, <<Expr(Top.e.e), val>>)
    BY <1>1 DEF AssignInto, AtInto, At
  <2>2. Top.e \in Exprs /\ Top.dest \in Registers
    BY <2>1, AtTypes, TaskFields
  <2>3. Top.e.op \in ArithOps \cup {"Set"} /\ Top.e.p \in Places /\ Top.e.e \in Exprs
    BY <2>1, <2>2, ExprFields
  <2>4. val \in Tasks
    BY <2>2, <2>3 DEF Tasks
  <2>5. <<Expr(Top.e.e), val>> \in Seq(Tasks)
    BY <2>3, <2>4, CallTasks
  <2> QED BY <1>0, <2>1, <2>5, DoTypes
<1>2. CASE AssignVal
  <2>1. At("AssignVal") /\ control # <<>>
    BY <1>2 DEF AssignVal, At
  <2>2. /\ Top.k = "AssignVal" /\ Top.op \in ArithOps \cup {"Set"} /\ Top.p \in Places
        /\ Top.dest \in Registers
    BY <2>1, AtTypes, TaskFields
  <2>3. CASE Top.op = "Set"
    <3>1. Do(code, locals, <<StorePlace(Top.p, Top.dest, Local(0).mi), Free>>)
      BY <1>2, <2>3 DEF AssignVal
    <3>2. Local(0).mi \in MaybeImm
      BY <1>0, LocalTypes
    <3>3. <<StorePlace(Top.p, Top.dest, Local(0).mi), Free>> \in Seq(Tasks)
      BY <2>2, <3>2, CallTasks
    <3> QED BY <1>0, <2>1, <3>1, <3>3, DoTypes
  <2>4. CASE Top.op # "Set"
    <3> DEFINE r == NextReg(code)
               emit == [k |-> "AssignEmit", op |-> Top.op, p |-> Top.p, dest |-> Top.dest]
    <3>1. Do(AllocReg(code), Push(Own(r)), <<LoadPlace(Top.p, r), emit>>)
      BY <1>2, <2>4 DEF AssignVal
    <3>2. CanAlloc(code)
      BY <2>2, <2>4, <3>1 DEF Do, Panics, Allocates
    <3>3. r \in Registers /\ AllocReg(code) \in CodeType
      BY <1>0, <3>2, AllocProperties DEF Registers
    <3>4. Push(Own(r)) \in Seq(Operands)
      BY <1>0, <3>3, OperandTypes, LocalTypes
    <3>5. emit \in Tasks
      BY <2>2, <2>4 DEF Tasks
    <3>6. <<LoadPlace(Top.p, r), emit>> \in Seq(Tasks)
      BY <2>2, <3>3, <3>5, CallTasks
    <3> QED BY <2>1, <3>1, <3>3, <3>4, <3>6, DoTypes
  <2> QED BY <2>3, <2>4
<1>3. CASE AssignEmit
  <2> DEFINE i == Binary(Top.op, Top.dest, Local(0).mi, Local(2).mi)
             tasks == <<StorePlace(Top.p, Top.dest, Reg(Top.dest)), Free, Free>>
  <2>1. At("AssignEmit") /\ control # <<>> /\ Do(Emit(code, i), Pop(1), tasks)
    BY <1>3 DEF AssignEmit, At
  <2>2. Top.op \in ArithOps /\ Top.p \in Places /\ Top.dest \in Registers
    BY <2>1, AtTypes, TaskFields
  <2>3. Local(0).mi \in MaybeImm /\ Local(2).mi \in MaybeImm /\ Pop(1) \in Seq(Operands)
    BY <1>0, LocalTypes
  <2>4. Top.op \in Opcodes /\ Top.dest \in Nat /\ Reg(Top.dest) \in MaybeImm
    BY <2>2, OperatorTypes
  <2>5. i \in Instruction
    BY <2>3, <2>4, BinaryType
  <2>6. Emit(code, i) \in CodeType
    BY <2>5, EmitFreeType
  <2>7. tasks \in Seq(Tasks)
    BY <2>2, <2>4, CallTasks
  <2> QED BY <2>1, <2>3, <2>6, <2>7, DoTypes
<1> QED BY <1>1, <1>2, <1>3

(* The increments, before and after. *)
LEMMA IncrTypes ==
    ASSUME TypeOK, IncrInto \/ Incr
    PROVE  TypeOK'
<1>0. code \in CodeType /\ locals \in Seq(Operands) /\ <<>> \in Seq(Tasks)
  BY EmptySeq DEF TypeOK
<1>1. CASE IncrInto
  <2> DEFINE incr == [k |-> "Incr", op |-> Top.e.op, post |-> Top.e.post, p |-> Top.e.p,
                      dest |-> Top.dest]
  <2>1. /\ At("Into") /\ Top.e.k = "incr" /\ control # <<>>
        /\ Do(code, locals, <<LoadPlace(Top.e.p, Top.dest), incr>>)
    BY <1>1 DEF IncrInto, AtInto, At
  <2>2. Top.e \in Exprs /\ Top.dest \in Registers
    BY <2>1, AtTypes, TaskFields
  <2>3. Top.e.op \in {"Add", "Subtract"} /\ Top.e.post \in BOOLEAN /\ Top.e.p \in Places
    BY <2>1, <2>2, ExprFields
  <2>4. incr \in Tasks
    BY <2>2, <2>3 DEF Tasks
  <2>5. <<LoadPlace(Top.e.p, Top.dest), incr>> \in Seq(Tasks)
    BY <2>2, <2>3, <2>4, CallTasks
  <2> QED BY <1>0, <2>1, <2>5, DoTypes
<1>2. CASE Incr
  <2> DEFINE val == Local(0).mi
  <2>1. At("Incr") /\ control # <<>>
    BY <1>2 DEF Incr, At
  <2>2. /\ Top.k = "Incr" /\ Top.op \in {"Add", "Subtract"} /\ Top.post \in BOOLEAN
        /\ Top.p \in Places /\ Top.dest \in Registers
    BY <2>1, AtTypes, TaskFields
  <2>3. /\ val \in MaybeImm /\ Imm(1) \in MaybeImm /\ Imm(0) \in MaybeImm
        /\ Pop(1) \in Seq(Operands)
    <3>1. val \in MaybeImm /\ Pop(1) \in Seq(Operands)
      BY <1>0, LocalTypes
    <3>2. Imm(1) \in MaybeImm /\ Imm(0) \in MaybeImm
      BY ImmType
    <3> QED BY <3>1, <3>2
  <2>4. /\ Top.op \in Opcodes /\ "Add" \in Opcodes
        /\ Top.dest \in Nat /\ Reg(Top.dest) \in MaybeImm
    BY <2>2, OperatorTypes
  <2>5. CASE ~Top.post
    <3> DEFINE i == Binary(Top.op, Top.dest, val, Imm(1))
               tasks == <<StorePlace(Top.p, Top.dest, Reg(Top.dest))>>
    <3>1. Do(Emit(code, i), Pop(1), tasks)
      BY <1>2, <2>5 DEF Incr
    <3>2. i \in Instruction
      BY <2>3, <2>4, BinaryType
    <3>3. Emit(code, i) \in CodeType
      BY <3>2, EmitFreeType
    <3>4. tasks \in Seq(Tasks)
      BY <2>2, <2>4, CallTasks
    <3> QED BY <2>1, <2>3, <3>1, <3>3, <3>4, DoTypes
  <2>6. CASE Top.post
    <3> DEFINE i == Binary("Add", Top.dest, val, Imm(0))
               c == Emit(code, i)
               tmp == NextReg(c)
               j == Binary(Top.op, tmp, val, Imm(1))
               d == Emit(AllocReg(c), j)
               tasks == <<StorePlace(Top.p, tmp, Reg(tmp)), Free>>
    <3>1. Do(d, Append(Pop(1), Own(tmp)), tasks)
      BY <1>2, <2>6 DEF Incr
    <3>2. i \in Instruction
      BY <2>3, <2>4, BinaryType
    <3>3. c \in CodeType /\ c.free_regs = code.free_regs /\ c.reg_pointer = code.reg_pointer
      BY <1>0, <3>2, EmitProperties
    <3>4. CanAlloc(c)
      <4>1. CanAlloc(code)
        BY <2>2, <2>6, <3>1 DEF Do, Panics, Allocates
      <4> QED BY <3>3, <4>1 DEF CanAlloc
    <3> HIDE DEF c
    <3>5. tmp \in Registers /\ AllocReg(c) \in CodeType
      BY <3>3, <3>4, AllocProperties DEF Registers
    <3>6. tmp \in Nat /\ Reg(tmp) \in MaybeImm /\ Own(tmp) \in Operands
      BY <3>5, OperatorTypes, OperandTypes
    <3> HIDE DEF tmp
    <3>7. j \in Instruction
      BY <2>3, <2>4, <3>6, BinaryType
    <3>8. d \in CodeType
      BY <3>5, <3>7, EmitProperties
    <3>9. Append(Pop(1), Own(tmp)) \in Seq(Operands)
      BY <2>3, <3>6, AppendElements
    <3>10. tasks \in Seq(Tasks)
      BY <2>2, <3>5, <3>6, CallTasks
    <3> QED BY <2>1, <3>1, <3>8, <3>9, <3>10, DoTypes
  <2> QED BY <2>2, <2>5, <2>6
<1> QED BY <1>1, <1>2

-----------------------------------------------------------------------------
(* Every action keeps the types: places. *)

(* Loading and storing a scalar. *)
LEMMA ScalarTypes ==
    ASSUME TypeOK, LoadScalar \/ StoreScalar
    PROVE  TypeOK'
<1>0. code \in CodeType /\ locals \in Seq(Operands) /\ <<>> \in Seq(Tasks)
  BY EmptySeq DEF TypeOK
<1>1. CASE LoadScalar
  <2> DEFINE x == ScalarMi(code, Top.p, Top.dest)
  <2>1. /\ At("LoadPlace") /\ Top.p.k \in Scalars /\ control # <<>>
        /\ Do(x.code, Push(Plain(x.mi)), <<>>)
    BY <1>1 DEF LoadScalar, AtPlace, At
  <2>2. Top.p \in Places /\ Top.dest \in Registers
    BY <2>1, AtTypes, TaskFields
  <2>3. (Top.p.k = "user" => Top.p.id \in Idents) /\ (Top.p.k # "user" => Top.p.n \in Nat)
    BY <2>1, <2>2, PlaceFields DEF Scalars
  <2>4. x.code \in CodeType /\ x.mi \in MaybeImm
    BY <1>0, <2>2, <2>3, ScalarMiTypes
  <2>5. Push(Plain(x.mi)) \in Seq(Operands)
    BY <1>0, <2>4, OperandTypes, LocalTypes
  <2> QED BY <1>0, <2>1, <2>4, <2>5, DoTypes
<1>2. CASE StoreScalar
  <2>1. At("StorePlace") /\ Top.p.k \in Scalars /\ control # <<>>
    BY <1>2 DEF StoreScalar, AtPlace, At
  <2>2. Top.p \in Places /\ Top.src \in MaybeImm /\ Top.dest \in Nat
    BY <2>1, AtTypes, TaskFields, OperatorTypes
  <2>3. {"StoreUserScalar", "StoreBuiltinScalar"} \subseteq Opcodes
    BY DEF Opcodes, MemoryOps
  <2>4. CASE Top.p.k = "user"
    <3> DEFINE c == RegisterUserVar(code, Top.p.id)
               n == UserIndex(c, Top.p.id)
               i == Store("StoreUserScalar", Top.dest, Top.src, n)
    <3>1. Do(Emit(c, i), locals, <<>>)
      BY <1>2, <2>4 DEF StoreScalar
    <3>2. c \in CodeType /\ n \in 0 .. U16-1
      BY <1>0, <2>2, <2>4, PlaceFields, RegisterUserVarProperties
    <3>3. n \in Nat
      BY <3>2, WidthAssumption
    <3> HIDE DEF c, n
    <3>4. i \in Instruction
      BY <2>2, <2>3, <3>3, StoreType
    <3>5. Emit(c, i) \in CodeType
      BY <3>2, <3>4, EmitProperties
    <3> QED BY <1>0, <2>1, <3>1, <3>5, DoTypes
  <2>5. CASE Top.p.k # "user"
    <3> DEFINE i == Store("StoreBuiltinScalar", Top.dest, Top.src, Top.p.n)
    <3>1. Do(Emit(code, i), locals, <<>>)
      BY <1>2, <2>5 DEF StoreScalar
    <3>2. Top.p.n \in Nat
      BY <2>1, <2>2, <2>5, PlaceFields DEF Scalars
    <3>3. i \in Instruction
      BY <2>2, <2>3, <3>2, StoreType
    <3>4. Emit(code, i) \in CodeType
      BY <3>3, EmitFreeType
    <3> QED BY <1>0, <2>1, <3>1, <3>4, DoTypes
  <2> QED BY <2>4, <2>5
<1> QED BY <1>1, <1>2

(* Opening the window of an array's indices, for a load or a store. *)
LEMMA IndexTypes ==
    ASSUME TypeOK, NEW loads \in Opcodes \X Opcodes, ArrayAccess(loads[1], loads[2]),
           control # <<>>, Top.k \in {"LoadPlace", "StorePlace"}, Top.p.k \in Indexed
    PROVE  TypeOK'
<1> DEFINE p == Top.p
           c == IF p.k = "userindex" THEN RegisterUserVar(code, p.id) ELSE code
           i == IF p.k = "userindex" THEN Load(loads[1], Top.dest, UserIndex(c, p.id))
                                     ELSE Load(loads[2], Top.dest, p.n)
           d == [c EXCEPT !.reg_pointer = @ + Len(p.args)]
<1>0. code \in CodeType /\ locals \in Seq(Operands) /\ <<>> \in Seq(Tasks)
  BY EmptySeq DEF TypeOK
<1>1. Do(d, locals, Window(p.args, <<>>, i))
  BY DEF ArrayAccess
<1>2. p \in Places /\ Top.dest \in Registers /\ Top.dest \in Nat
  BY TopTypes, TaskFields, OperatorTypes
<1>3. p.args \in Seq(Exprs)
  BY <1>2, PlaceFields DEF Indexed
<1>4. WindowFits(p.args)
  BY <1>1 DEF Do, Panics, Indexed
<1>5. c \in CodeType /\ c.reg_pointer = code.reg_pointer
  BY <1>0, <1>2, PlaceFields, RegisterUserVarProperties
<1>6. i \in Instruction
  <2>1. CASE p.k = "userindex"
    <3>1. c = RegisterUserVar(code, p.id) /\ p.id \in Idents
      BY <1>2, <2>1, PlaceFields
    <3>2. UserIndex(c, p.id) \in 0 .. U16-1
      BY <1>0, <3>1, RegisterUserVarProperties
    <3>3. UserIndex(c, p.id) \in Nat
      BY <3>2, WidthAssumption
    <3>4. i = Load(loads[1], Top.dest, UserIndex(c, p.id))
      BY <2>1
    <3> HIDE DEF c
    <3> QED BY <1>2, <3>3, <3>4, LoadType
  <2>2. CASE p.k # "userindex"
    <3>1. p.n \in Nat
      BY <1>2, <2>2, PlaceFields DEF Indexed
    <3> QED BY <1>2, <2>2, <3>1, LoadType
  <2> QED BY <2>1, <2>2
<1>7. Window(p.args, <<>>, i) \in Seq(Tasks) /\ code.reg_pointer + Len(p.args) \in Registers
  BY <1>0, <1>3, <1>4, <1>6, WindowTypes
<1> HIDE DEF c
<1>8. d \in CodeType
  BY <1>3, <1>5, <1>7, LenProperties, RaiseType
<1> QED BY <1>0, <1>1, <1>7, <1>8, DoTypes

(* Loading and storing an array element. *)
LEMMA ArrayTypes ==
    ASSUME TypeOK, LoadIndex \/ StoreIndex
    PROVE  TypeOK'
<1> DEFINE loads  == <<"LoadUserArray", "LoadBuiltinArray">>
           stores == <<"StoreUserArray", "StoreBuiltinArray">>
<1>1. loads \in Opcodes \X Opcodes /\ stores \in Opcodes \X Opcodes
  BY DEF Opcodes, MemoryOps, ArrayLoads, ArrayStores
<1>2. CASE LoadIndex
  <2>1. /\ At("LoadPlace") /\ Top.p.k \in Indexed /\ control # <<>>
        /\ ArrayAccess(loads[1], loads[2])
    BY <1>2 DEF LoadIndex, AtPlace, At
  <2>2. Top.k = "LoadPlace"
    BY <2>1, AtTypes
  <2> QED BY <1>1, <2>1, <2>2, IndexTypes
<1>3. CASE StoreIndex
  <2>1. /\ At("StorePlace") /\ Top.p.k \in Indexed /\ control # <<>>
        /\ ArrayAccess(stores[1], stores[2])
    BY <1>3 DEF StoreIndex, AtPlace, At
  <2>2. Top.k = "StorePlace"
    BY <2>1, AtTypes
  <2> QED BY <1>1, <2>1, <2>2, IndexTypes
<1> QED BY <1>2, <1>3

(* Storing a record $e. *)
LEMMA RecordTypes ==
    ASSUME TypeOK, StoreRecord \/ RecordEmit
    PROVE  TypeOK'
<1>0. code \in CodeType /\ locals \in Seq(Operands) /\ <<>> \in Seq(Tasks)
  BY EmptySeq DEF TypeOK
<1>1. CASE StoreRecord
  <2> DEFINE emit == [k |-> "RecordEmit", dest |-> Top.dest, src |-> Top.src]
  <2>1. /\ At("StorePlace") /\ Top.p.k = "record" /\ control # <<>>
        /\ Do(code, locals, <<Expr(Top.p.e), emit>>)
    BY <1>1 DEF StoreRecord, AtPlace, At
  <2>2. Top.p \in Places /\ Top.dest \in Registers /\ Top.src \in MaybeImm
    BY <2>1, AtTypes, TaskFields
  <2>3. Top.p.e \in Exprs
    BY <2>1, <2>2, PlaceFields
  <2>4. emit \in Tasks
    BY <2>2 DEF Tasks
  <2>5. <<Expr(Top.p.e), emit>> \in Seq(Tasks)
    BY <2>3, <2>4, CallTasks
  <2> QED BY <1>0, <2>1, <2>5, DoTypes
<1>2. CASE RecordEmit
  <2> DEFINE i == Binary("StoreRecord", Top.dest, Local(0).mi, Top.src)
  <2>1. /\ At("RecordEmit") /\ control # <<>>
        /\ Do(FreeLocal(Emit(code, i), Local(0)), Pop(1), <<>>)
    BY <1>2 DEF RecordEmit, At
  <2>2. Top.dest \in Nat /\ Top.src \in MaybeImm
    BY <2>1, AtTypes, TaskFields, OperatorTypes
  <2>3. Local(0).mi \in MaybeImm /\ Pop(1) \in Seq(Operands)
    BY <1>0, LocalTypes
  <2>4. "StoreRecord" \in Opcodes
    BY DEF Opcodes
  <2>5. i \in Instruction
    BY <2>2, <2>3, <2>4, BinaryType
  <2>6. FreeLocal(Emit(code, i), Local(0)) \in CodeType
    BY <2>5, EmitFreeType
  <2> QED BY <1>0, <2>1, <2>3, <2>6, DoTypes
<1> QED BY <1>1, <1>2

-----------------------------------------------------------------------------
(* The theorem. *)

(* The lowering starts with well-typed variables. *)
LEMMA InitTypes == Init => TypeOK
<1> SUFFICES ASSUME Init PROVE TypeOK
  OBVIOUS
<1>1. EmptyCode \in CodeType
  BY EmptySeq, WidthAssumption DEF EmptyCode, CodeType
<1>2. Body(program) \in Seq(Tasks)
  BY ProgramsAssumption, BodyType DEF Init
<1>3. <<>> \in Seq(Operands)
  BY EmptySeq
<1> QED BY <1>1, <1>2, <1>3 DEF Init, TypeOK

(* Every step keeps them well-typed. *)
LEMMA StepTypes == TypeOK /\ [Next]_vars => TypeOK'
<1> SUFFICES ASSUME TypeOK, [Next]_vars PROVE TypeOK'
  OBVIOUS
<1>1. CASE LowerStatement
  BY <1>1, IfTypes, ElseTypes, WhileForTypes, LoopBranchTypes, DoWhileTypes, CommandTypes,
     CallEndTypes DEF LowerStatement
<1>2. CASE LowerExpr
  BY <1>2, CallEndTypes, LowerTypes, UnaryTypes, BinaryTypes, TernaryTypes, AssignTypes,
     IncrTypes DEF LowerExpr
<1>3. CASE LowerPlace
  BY <1>3, ScalarTypes, ArrayTypes, RecordTypes DEF LowerPlace
<1>4. CASE Panic \/ Finish
  BY <1>4 DEF Panic, Finish, TypeOK
<1>5. CASE UNCHANGED vars
  BY <1>5 DEF vars, TypeOK
<1> QED BY <1>1, <1>2, <1>3, <1>4, <1>5 DEF Next

(* For every program, every table of constants and every width, the        *)
(* lowering keeps its types: in particular the register pointer, every     *)
(* register in a frame or on the free list and every argument register fit *)
(* u8, because alloc_reg and gen_call_convention panic before they would   *)
(* not, and every label fits u16.                                          *)
THEOREM TypeCorrect == Spec => []TypeOK
<1> QED BY InitTypes, StepTypes, PTL DEF Spec

-----------------------------------------------------------------------------
(* What the lowering has emitted stays: a later step may set the labels of *)
(* an instruction and nothing else, and the index that an identifier or a  *)
(* constant was given stays its index.  The argument is that every method  *)
(* of Code grows its argument (Grown, a preorder), and that every action   *)
(* is a chain of such methods.                                             *)

(* Code as far as growth looks at it: a record with three sequences, of    *)
(* whatever elements, so that nothing need be known of the instruction a   *)
(* method emits.                                                           *)
Stream(s) == \E S : s \in Seq(S)

(* Appending to a sequence keeps its elements where they are. *)
LEMMA StreamAppend ==
    ASSUME NEW s, Stream(s), NEW x
    PROVE  /\ Stream(Append(s, x)) /\ Len(Append(s, x)) = Len(s) + 1
           /\ \A i \in 1 .. Len(s) : Append(s, x)[i] = s[i]
<1>1. PICK S : s \in Seq(S)
  BY DEF Stream
<1>2. s \in Seq(S \cup {x})
  <2>1. Len(s) \in Nat /\ s \in [1 .. Len(s) -> S]
    BY <1>1
  <2>2. s \in [1 .. Len(s) -> S \cup {x}]
    BY <2>1
  <2> QED BY <2>1, <2>2
<1>3. Append(s, x) \in Seq(S \cup {x})
  BY <1>2
<1>4. /\ Len(Append(s, x)) = Len(s) + 1
      /\ \A i \in 1 .. Len(s) : Append(s, x)[i] = s[i]
  BY <1>2
<1> QED BY <1>3, <1>4 DEF Stream

(* The elements of a concatenation. *)
LEMMA StreamConcat ==
    ASSUME NEW s, NEW t, Stream(s), Stream(t)
    PROVE  /\ Stream(s \o t) /\ Len(s) \in Nat /\ Len(t) \in Nat /\ Len(s \o t) = Len(s) + Len(t)
           /\ \A i \in 1 .. Len(s) : (s \o t)[i] = s[i]
           /\ \A i \in 1 .. Len(t) : (s \o t)[Len(s) + i] = t[i]
<1>1. PICK S, T : s \in Seq(S) /\ t \in Seq(T)
  BY DEF Stream
<1>2. s \in Seq(S \cup T) /\ t \in Seq(S \cup T)
  <2>1. Len(s) \in Nat /\ Len(t) \in Nat /\ s \in [1 .. Len(s) -> S] /\ t \in [1 .. Len(t) -> T]
    BY <1>1
  <2>2. s \in [1 .. Len(s) -> S \cup T] /\ t \in [1 .. Len(t) -> S \cup T]
    BY <2>1
  <2> QED BY <2>1, <2>2
<1>3. s \o t \in Seq(S \cup T) /\ Len(s) \in Nat /\ Len(t) \in Nat /\ Len(s \o t) = Len(s) + Len(t)
  BY <1>2
<1>4. /\ \A i \in 1 .. Len(s) : (s \o t)[i] = s[i]
      /\ \A i \in 1 .. Len(t) : (s \o t)[Len(s) + i] = t[i]
  BY <1>2, <1>3
<1> QED BY <1>3, <1>4 DEF Stream

(* The tail of a sequence. *)
LEMMA StreamTail ==
    ASSUME NEW s, Stream(s), s # <<>>
    PROVE  /\ Stream(Tail(s)) /\ Len(s) \in Nat \ {0} /\ Len(Tail(s)) = Len(s) - 1
           /\ \A n \in 1 .. Len(s) - 1 : Tail(s)[n] = s[n + 1]
<1>1. PICK S : s \in Seq(S)
  BY DEF Stream
<1>2. Tail(s) \in Seq(S) /\ Len(s) \in Nat \ {0} /\ Len(Tail(s)) = Len(s) - 1
  BY <1>1, EmptySeq
<1>3. \A n \in 1 .. Len(s) - 1 : Tail(s)[n] = s[n + 1]
  BY <1>1, <1>2
<1> QED BY <1>2, <1>3 DEF Stream

(* Overwriting an instruction by one that differs in its labels alone     *)
(* keeps every instruction up to its labels.                              *)
LEMMA StreamSet ==
    ASSUME NEW s, Stream(s), NEW l, NEW x, Unlabelled(x) = Unlabelled(s[l])
    PROVE  /\ Stream([s EXCEPT ![l] = x]) /\ Len([s EXCEPT ![l] = x]) = Len(s)
           /\ \A i \in 1 .. Len(s) : Unlabelled([s EXCEPT ![l] = x][i]) = Unlabelled(s[i])
<1> DEFINE t == [s EXCEPT ![l] = x]
<1>1. PICK S : s \in Seq(S)
  BY DEF Stream
<1>2. Len(s) \in Nat /\ s \in [1 .. Len(s) -> S]
  BY <1>1
<1>3. t \in [1 .. Len(s) -> S \cup {x}]
  BY <1>2
<1>4. t \in Seq(S \cup {x}) /\ Len(t) = Len(s)
  BY <1>2, <1>3
<1>6. \A i \in 1 .. Len(s) : t[i] = IF i = l THEN x ELSE s[i]
  BY <1>2
<1>7. \A i \in 1 .. Len(s) : Unlabelled(t[i]) = Unlabelled(s[i])
  BY <1>6
<1> QED BY <1>4, <1>7 DEF Stream

IsCode(c) ==
    /\ c = [bc |-> c.bc, consts |-> c.consts, user |-> c.user, free_regs |-> c.free_regs,
            reg_pointer |-> c.reg_pointer]
    /\ Stream(c.bc) /\ Stream(c.user) /\ Stream(c.consts)

(* d is c after growth: the relation of each method to its result. *)
Grown(c, d) == IsCode(d) /\ GrowsInto(c, d)

(* A Code record is one with three sequences. *)
LEMMA CodeTypeIsCode == ASSUME NEW c \in CodeType PROVE IsCode(c)
  BY DEF CodeType, IsCode, Stream

(* The length of a sequence is a natural number. *)
LEMMA StreamLength == ASSUME NEW s, Stream(s) PROVE Len(s) \in Nat
  BY DEF Stream

(* Growth composes: a method that calls two others grows the code when    *)
(* they do.                                                               *)
LEMMA GrownTrans ==
    ASSUME NEW c, NEW d, NEW e, IsCode(c), Grown(c, d), Grown(d, e)
    PROVE  Grown(c, e)
<1>1. Len(c.bc) \in Nat /\ Len(c.user) \in Nat /\ Len(c.consts) \in Nat
  BY StreamLength DEF IsCode
<1>2. Len(d.bc) \in Nat /\ Len(d.user) \in Nat /\ Len(d.consts) \in Nat
  BY StreamLength DEF IsCode, Grown
<1>3. Len(e.bc) \in Nat /\ Len(e.user) \in Nat /\ Len(e.consts) \in Nat
  BY StreamLength DEF IsCode, Grown
<1>4. Len(c.bc) <= Len(e.bc)
  BY <1>1, <1>2, <1>3 DEF Grown, GrowsInto
<1>5. \A i \in 1 .. Len(c.bc) : Unlabelled(e.bc[i]) = Unlabelled(c.bc[i])
  <2> TAKE i \in 1 .. Len(c.bc)
  <2>1. i \in 1 .. Len(d.bc)
    BY <1>1, <1>2 DEF Grown, GrowsInto
  <2> QED BY <2>1 DEF Grown, GrowsInto
<1>6. Keeps(c.user, e.user) /\ Keeps(c.consts, e.consts)
  BY <1>1, <1>2, <1>3 DEF Grown, GrowsInto, Keeps
<1> QED BY <1>4, <1>5, <1>6 DEF Grown, GrowsInto

Fields(b, k, u, f, r) == [bc |-> b, consts |-> k, user |-> u, free_regs |-> f, reg_pointer |-> r]

(* Assigning one field leaves the four others. *)
LEMMA FieldsExcept ==
    ASSUME NEW c, IsCode(c), NEW b, NEW k, NEW u, NEW f, NEW r
    PROVE  /\ c = Fields(c.bc, c.consts, c.user, c.free_regs, c.reg_pointer)
           /\ [c EXCEPT !.bc = b] = Fields(b, c.consts, c.user, c.free_regs, c.reg_pointer)
           /\ [c EXCEPT !.user = u] = Fields(c.bc, c.consts, u, c.free_regs, c.reg_pointer)
           /\ [c EXCEPT !.consts = k] = Fields(c.bc, k, c.user, c.free_regs, c.reg_pointer)
           /\ [c EXCEPT !.free_regs = f] = Fields(c.bc, c.consts, c.user, f, c.reg_pointer)
           /\ [c EXCEPT !.reg_pointer = r] = Fields(c.bc, c.consts, c.user, c.free_regs, r)
<1>1. PICK B, K, U, F, R : c = Fields(B, K, U, F, R)
  BY DEF IsCode, Fields
<1>2. c.bc = B /\ c.consts = K /\ c.user = U /\ c.free_regs = F /\ c.reg_pointer = R
  BY <1>1 DEF Fields
<1>3. [c EXCEPT !.bc = b] = Fields(b, K, U, F, R)
  BY <1>1 DEF Fields
<1>4. [c EXCEPT !.user = u] = Fields(B, K, u, F, R)
  BY <1>1 DEF Fields
<1>5. [c EXCEPT !.consts = k] = Fields(B, k, U, F, R)
  BY <1>1 DEF Fields
<1>6. [c EXCEPT !.free_regs = f] = Fields(B, K, U, f, R)
  BY <1>1 DEF Fields
<1>7. [c EXCEPT !.reg_pointer = r] = Fields(B, K, U, F, r)
  BY <1>1 DEF Fields
<1> QED BY <1>1, <1>2, <1>3, <1>4, <1>5, <1>6, <1>7

(* Code grows when its bytecode keeps its instructions up to labels and   *)
(* its tables keep their entries, whatever the registers do.              *)
LEMMA GrownFields ==
    ASSUME NEW c, IsCode(c), NEW b, NEW k, NEW u, NEW f, NEW r,
           Stream(b), Stream(k), Stream(u), Len(c.bc) <= Len(b),
           \A i \in 1 .. Len(c.bc) : Unlabelled(b[i]) = Unlabelled(c.bc[i]),
           Keeps(c.user, u), Keeps(c.consts, k)
    PROVE  Grown(c, Fields(b, k, u, f, r))
<1> DEFINE d == Fields(b, k, u, f, r)
<1>1. d.bc = b /\ d.consts = k /\ d.user = u /\ d.free_regs = f /\ d.reg_pointer = r
  BY DEF Fields
<1>2. d = [bc |-> d.bc, consts |-> d.consts, user |-> d.user, free_regs |-> d.free_regs,
           reg_pointer |-> d.reg_pointer]
  BY DEF Fields
<1> QED BY <1>1, <1>2 DEF Grown, IsCode, GrowsInto

(* A table that is left alone keeps its entries. *)
LEMMA KeepsSelf == ASSUME NEW s, Stream(s) PROVE Keeps(s, s) /\ Len(s) <= Len(s)
  BY StreamLength DEF Keeps

-----------------------------------------------------------------------------
(* The methods of Code. *)

(* An assignment to the register pointer or the free list is no change of *)
(* what was emitted.                                                      *)
LEMMA GrownRegs ==
    ASSUME NEW c, IsCode(c), NEW f, NEW r
    PROVE  /\ Grown(c, c)
           /\ Grown(c, [c EXCEPT !.free_regs = f])
           /\ Grown(c, [c EXCEPT !.reg_pointer = r])
           /\ Grown(c, [c EXCEPT !.reg_pointer = r, !.free_regs = f])
<1>1. \A d, g, q : IsCode(d) => Grown(d, Fields(d.bc, d.consts, d.user, g, q))
  BY KeepsSelf, GrownFields DEF IsCode
<1>2. Grown(c, c)
  <2>1. c = Fields(c.bc, c.consts, c.user, c.free_regs, c.reg_pointer)
    BY FieldsExcept
  <2>2. Grown(c, Fields(c.bc, c.consts, c.user, c.free_regs, c.reg_pointer))
    BY <1>1
  <2> QED BY <2>1, <2>2
<1>3. ASSUME NEW d, IsCode(d) PROVE Grown(d, [d EXCEPT !.free_regs = f])
  <2>1. [d EXCEPT !.free_regs = f] = Fields(d.bc, d.consts, d.user, f, d.reg_pointer)
    BY <1>3, FieldsExcept
  <2>2. Grown(d, Fields(d.bc, d.consts, d.user, f, d.reg_pointer))
    BY <1>1, <1>3
  <2> QED BY <2>1, <2>2
<1>4. Grown(c, [c EXCEPT !.reg_pointer = r])
  <2>1. [c EXCEPT !.reg_pointer = r] = Fields(c.bc, c.consts, c.user, c.free_regs, r)
    BY FieldsExcept
  <2>2. Grown(c, Fields(c.bc, c.consts, c.user, c.free_regs, r))
    BY <1>1
  <2> QED BY <2>1, <2>2
<1> DEFINE d == [c EXCEPT !.reg_pointer = r]
<1>5. IsCode(d) /\ Grown(c, d)
  BY <1>4 DEF Grown
<1>6. Grown(d, [d EXCEPT !.free_regs = f])
  BY <1>3, <1>5
<1>7. Grown(c, [d EXCEPT !.free_regs = f])
  <2> HIDE DEF d
  <2> QED BY <1>5, <1>6, GrownTrans
<1>8. [c EXCEPT !.reg_pointer = r, !.free_regs = f] = [d EXCEPT !.free_regs = f]
  OBVIOUS
<1> QED BY <1>2, <1>3, <1>4, <1>7, <1>8

(* alloc_reg takes nothing back. *)
LEMMA GrownAlloc == ASSUME NEW c, IsCode(c) PROVE Grown(c, AllocReg(c))
  BY GrownRegs DEF AllocReg

(* free_reg takes nothing back. *)
LEMMA GrownFree == ASSUME NEW c, IsCode(c), NEW x PROVE Grown(c, FreeLocal(c, x))
  BY GrownRegs DEF FreeLocal, FreeReg

(* Closing a scope takes back registers, never instructions. *)
LEMMA GrownScope ==
    ASSUME NEW c, IsCode(c), NEW st
    PROVE  Grown(c, ScopeEnd(st, c)) /\ Grown(c, ScopeHwmEnd(st, c))
  BY GrownRegs DEF ScopeEnd, ScopeHwmEnd

(* emit keeps every earlier instruction. *)
LEMMA GrownEmit == ASSUME NEW c, IsCode(c), NEW i PROVE Grown(c, Emit(c, i))
<1>1. /\ Stream(Append(c.bc, i)) /\ Len(Append(c.bc, i)) = Len(c.bc) + 1
      /\ \A n \in 1 .. Len(c.bc) : Append(c.bc, i)[n] = c.bc[n]
  BY StreamAppend DEF IsCode
<1>2. Len(c.bc) <= Len(Append(c.bc, i))
  BY <1>1, StreamLength DEF IsCode
<1>3. Grown(c, Fields(Append(c.bc, i), c.consts, c.user, c.free_regs, c.reg_pointer))
  BY <1>1, <1>2, KeepsSelf, GrownFields DEF IsCode
<1>4. Emit(c, i) = Fields(Append(c.bc, i), c.consts, c.user, c.free_regs, c.reg_pointer)
  BY FieldsExcept DEF Emit
<1> QED BY <1>3, <1>4

(* Replacing one instruction by one that differs in its labels alone. *)
LEMMA GrownPatch ==
    ASSUME NEW c, IsCode(c), NEW n, NEW x, Unlabelled(x) = Unlabelled(c.bc[n])
    PROVE  Grown(c, [c EXCEPT !.bc = [c.bc EXCEPT ![n] = x]])
<1> DEFINE t == [c.bc EXCEPT ![n] = x]
<1>1. /\ Stream(t) /\ Len(t) = Len(c.bc)
      /\ \A i \in 1 .. Len(c.bc) : Unlabelled(t[i]) = Unlabelled(c.bc[i])
  BY StreamSet DEF IsCode
<1>2. Len(c.bc) <= Len(t)
  BY <1>1, StreamLength DEF IsCode
<1> HIDE DEF t
<1>3. Grown(c, Fields(t, c.consts, c.user, c.free_regs, c.reg_pointer))
  BY <1>1, <1>2, KeepsSelf, GrownFields DEF IsCode
<1>4. [c EXCEPT !.bc = t] = Fields(t, c.consts, c.user, c.free_regs, c.reg_pointer)
  BY FieldsExcept
<1> QED BY <1>3, <1>4 DEF t

(* set_label writes the label of a jump or a branch, or nothing. *)
LEMMA GrownSetLabel == ASSUME NEW c, IsCode(c), NEW l, NEW to PROVE Grown(c, SetLabel(c, l, to))
<1>1. CASE c.bc[l+1].op \in Patchable
  <2> DEFINE x == [c.bc[l+1] EXCEPT !.to = to]
  <2>1. Unlabelled(x) = Unlabelled(c.bc[l+1])
    BY DEF Unlabelled
  <2>2. SetLabel(c, l, to) = [c EXCEPT !.bc = [c.bc EXCEPT ![l+1] = x]]
    BY <1>1 DEF SetLabel
  <2> HIDE DEF x
  <2> QED BY <2>1, <2>2, GrownPatch
<1>2. CASE c.bc[l+1].op \notin Patchable
  BY <1>2, GrownRegs DEF SetLabel
<1> QED BY <1>1, <1>2

(* push_start_label writes the start label of a branch, or nothing. *)
LEMMA GrownPushStartLabel == ASSUME NEW c, IsCode(c), NEW l PROVE Grown(c, PushStartLabel(c, l))
<1>1. CASE c.bc[l+1].op = "Branch"
  <2> DEFINE x == [c.bc[l+1] EXCEPT !.on = (c.bc[l+1].on + 1) % U16]
  <2>1. Unlabelled(x) = Unlabelled(c.bc[l+1])
    BY DEF Unlabelled
  <2>2. PushStartLabel(c, l) = [c EXCEPT !.bc = [c.bc EXCEPT ![l+1] = x]]
    BY <1>1 DEF PushStartLabel
  <2> HIDE DEF x
  <2> QED BY <2>1, <2>2, GrownPatch
<1>2. CASE c.bc[l+1].op # "Branch"
  BY <1>2, GrownRegs DEF PushStartLabel
<1> QED BY <1>1, <1>2

(* A new entry goes behind the others. *)
LEMMA KeepsAppend == ASSUME NEW s, Stream(s), NEW x PROVE Stream(Append(s, x)) /\ Keeps(s, Append(s, x))
  BY StreamAppend, StreamLength DEF Keeps

(* Interning an identifier keeps the index of every other. *)
LEMMA GrownUser == ASSUME NEW c, IsCode(c), NEW id PROVE Grown(c, RegisterUserVar(c, id))
<1>1. Stream(Append(c.user, id)) /\ Keeps(c.user, Append(c.user, id))
  BY KeepsAppend DEF IsCode
<1>2. Grown(c, Fields(c.bc, c.consts, Append(c.user, id), c.free_regs, c.reg_pointer))
  BY <1>1, KeepsSelf, GrownFields DEF IsCode
<1>3. [c EXCEPT !.user = Append(c.user, id)] = Fields(c.bc, c.consts, Append(c.user, id), c.free_regs, c.reg_pointer)
  BY FieldsExcept
<1> QED BY <1>2, <1>3, GrownRegs DEF RegisterUserVar

(* Interning a constant keeps the index of every other, whatever slot the *)
(* hash set answers.                                                      *)
LEMMA GrownConst == ASSUME NEW c, IsCode(c), NEW v, NEW slot PROVE Grown(c, RegisterConst(c, v, slot))
<1>1. Stream(Append(c.consts, v)) /\ Keeps(c.consts, Append(c.consts, v))
  BY KeepsAppend DEF IsCode
<1>2. Grown(c, Fields(c.bc, Append(c.consts, v), c.user, c.free_regs, c.reg_pointer))
  BY <1>1, KeepsSelf, GrownFields DEF IsCode
<1>3. [c EXCEPT !.consts = Append(c.consts, v)] = Fields(c.bc, Append(c.consts, v), c.user, c.free_regs, c.reg_pointer)
  BY FieldsExcept
<1> QED BY <1>2, <1>3, GrownRegs DEF RegisterConst

(* An index that does not fit u8 is loaded by an instruction behind the   *)
(* others.                                                                *)
LEMMA GrownImm ==
    ASSUME NEW c, IsCode(c), NEW k, NEW n, NEW load, NEW dest
    PROVE  Grown(c, ImmOrLoad(c, k, n, load, dest).code)
  BY GrownRegs, GrownEmit DEF ImmOrLoad

(* A scalar operand is interned and perhaps loaded. *)
LEMMA GrownScalar ==
    ASSUME NEW c, IsCode(c), NEW x, NEW dest
    PROVE  Grown(c, ScalarMi(c, x, dest).code)
<1>1. CASE x.k = "user"
  <2> DEFINE d == RegisterUserVar(c, x.id)
             n == UserIndex(d, x.id)
             e == ImmOrLoad(d, "ImmUserVar", n, "LoadUserScalar", dest).code
  <2>1. Grown(c, d)
    BY GrownUser
  <2>2. ScalarMi(c, x, dest).code = e
    BY <1>1 DEF ScalarMi
  <2> HIDE DEF d, n
  <2>3. Grown(d, e)
    BY <2>1, GrownImm DEF Grown
  <2> HIDE DEF e
  <2> QED BY <2>1, <2>2, <2>3, GrownTrans
<1>2. CASE x.k # "user"
  BY <1>2, GrownImm DEF ScalarMi
<1> QED BY <1>1, <1>2

(* A constant operand is interned and perhaps loaded. *)
LEMMA GrownLoadedConst ==
    ASSUME NEW c, IsCode(c), NEW v, NEW slot, NEW k, NEW n, NEW load, NEW dest
    PROVE  Grown(c, ImmOrLoad(RegisterConst(c, v, slot), k, n, load, dest).code)
<1> DEFINE d == RegisterConst(c, v, slot)
           e == ImmOrLoad(d, k, n, load, dest).code
<1>1. Grown(c, d)
  BY GrownConst
<1> HIDE DEF d
<1>2. Grown(d, e)
  BY <1>1, GrownImm DEF Grown
<1> HIDE DEF e
<1>3. Grown(c, e)
  BY <1>1, <1>2, GrownTrans
<1> QED BY <1>3 DEF d, e

(* lower_atom_mi takes nothing back, for every atom it has an arm for. *)
LEMMA GrownAtom ==
    ASSUME NEW c, IsCode(c), NEW a \in Atoms, a.k # "todo", NEW dest, NEW slot
    PROVE  Grown(c, AtomMi(c, a, dest, slot).code)
<1>1. CASE a.k \in {"user", "builtin"}
  BY <1>1, GrownScalar DEF AtomMi
<1>2. CASE a.k = "int"
  BY <1>2, GrownRegs DEF AtomMi
<1>3. CASE a.k = "cnt"
  BY <1>3, GrownLoadedConst DEF AtomMi
<1>4. CASE a.k = "regex"
  <2> DEFINE x == ImmOrLoad(RegisterConst(c, a.v, slot), "ImmCnt", (slot - 1) % U16,
                            "LoadConst", dest)
             i == Binary("Matches", dest, [k |-> "Rec", n |-> 0], x.mi)
  <2>1. AtomMi(c, a, dest, slot).code = Emit(x.code, i)
    BY <1>4 DEF AtomMi
  <2>2. Grown(c, x.code)
    BY GrownLoadedConst
  <2> HIDE DEF x, i
  <2>3. Grown(x.code, Emit(x.code, i))
    BY <2>2, GrownEmit DEF Grown
  <2>4. Grown(c, Emit(x.code, i))
    BY <2>2, <2>3, GrownTrans
  <2> QED BY <2>1, <2>4
<1> QED BY <1>1, <1>2, <1>3, <1>4, AtomFields

(* Emitting an instruction and freeing its operand takes nothing back. *)
LEMMA GrownEmitFree ==
    ASSUME NEW c, IsCode(c), NEW i, NEW x
    PROVE  Grown(c, FreeLocal(Emit(c, i), x))
<1> DEFINE d == Emit(c, i)
<1>1. Grown(c, d)
  BY GrownEmit
<1> HIDE DEF d
<1>2. Grown(d, FreeLocal(d, x))
  BY <1>1, GrownFree DEF Grown
<1>3. Grown(c, FreeLocal(d, x))
  BY <1>1, <1>2, GrownTrans
<1> QED BY <1>3 DEF d

-----------------------------------------------------------------------------
(* The actions. *)

(* A step that does not panic leaves the code it computed. *)
LEMMA DoCode == ASSUME NEW c, NEW l, NEW tasks, Do(c, l, tasks) PROVE code' = c
  BY DEF Do

(* The steps that only start a call leave the code alone. *)
LEMMA GrownSilent ==
    ASSUME IsCode(code),
           \/ If \/ For \/ ForTop \/ While \/ DoWhile \/ ExprStmt
           \/ UnaryInto \/ BinaryInto \/ TernaryInto \/ AssignInto \/ IncrInto \/ StoreRecord
    PROVE  Grown(code, code')
<1>1. CASE If \/ For \/ While \/ DoWhile \/ ExprStmt
  BY <1>1, DoCode, GrownRegs DEF If, For, While, Loop, DoWhile, ExprStmt
<1>2. CASE ForTop
  BY <1>2, DoCode, GrownRegs DEF ForTop, Loop
<1>3. CASE UnaryInto \/ BinaryInto \/ TernaryInto
  BY <1>3, DoCode, GrownRegs DEF UnaryInto, BinaryInto, TernaryInto
<1>4. CASE AssignInto \/ IncrInto \/ StoreRecord
  BY <1>4, DoCode, GrownRegs DEF AssignInto, IncrInto, StoreRecord
<1> QED BY <1>1, <1>2, <1>3, <1>4

(* The steps that emit one instruction and free its operands. *)
LEMMA GrownOneEmit ==
    ASSUME IsCode(code),
           \/ IfBranch \/ LoopBranch \/ DoBranch \/ UnaryEmit \/ BinaryEmit
           \/ TernaryBranch \/ RecordEmit \/ AssignEmit
    PROVE  Grown(code, code')
<1>1. CASE IfBranch \/ LoopBranch \/ DoBranch
  BY <1>1, DoCode, GrownEmitFree DEF IfBranch, LoopBranch, DoBranch
<1>2. CASE UnaryEmit \/ RecordEmit \/ TernaryBranch
  BY <1>2, DoCode, GrownEmitFree DEF UnaryEmit, RecordEmit, TernaryBranch
<1>3. CASE AssignEmit
  BY <1>3, DoCode, GrownEmit DEF AssignEmit
<1>4. CASE BinaryEmit
  <2> DEFINE i == Binary(Top.op, Top.dest, Local(1).mi, Local(0).mi)
             c == FreeLocal(Emit(code, i), Local(1))
  <2>1. code' = FreeLocal(c, Local(0))
    BY <1>4, DoCode DEF BinaryEmit
  <2>2. Grown(code, c)
    BY GrownEmitFree
  <2> HIDE DEF c
  <2>3. Grown(c, FreeLocal(c, Local(0)))
    BY <2>2, GrownFree DEF Grown
  <2>4. Grown(code, FreeLocal(c, Local(0)))
    BY <2>2, <2>3, GrownTrans
  <2> QED BY <2>1, <2>4
<1> QED BY <1>1, <1>2, <1>3, <1>4

(* The end of a then-body patches the branch and may emit the jump over   *)
(* the else.                                                              *)
LEMMA GrownThenEnd == ASSUME IsCode(code), ThenEnd PROVE Grown(code, code')
<1> DEFINE patched == SetLabel(code, Top.branch, FollowingInstr(code, 0))
           pushed  == PushStartLabel(patched, Top.branch)
<1>1. Grown(code, patched)
  BY GrownSetLabel
<1>2. Grown(patched, pushed)
  <2> HIDE DEF patched
  <2> QED BY <1>1, GrownPushStartLabel DEF Grown, pushed
<1>3. code' \in {patched, Emit(pushed, Jump(0))}
  BY DoCode DEF ThenEnd
<1> HIDE DEF patched, pushed
<1>4. Grown(code, pushed)
  BY <1>1, <1>2, GrownTrans
<1>5. Grown(pushed, Emit(pushed, Jump(0)))
  BY <1>4, GrownEmit DEF Grown
<1>6. Grown(code, Emit(pushed, Jump(0)))
  BY <1>4, <1>5, GrownTrans
<1> QED BY <1>1, <1>3, <1>6

(* The end of an else patches the jump over it. *)
LEMMA GrownElseEnd == ASSUME IsCode(code), ElseEnd PROVE Grown(code, code')
<1> DEFINE c == ScopeHwmEnd(Top.st, code)
           d == SetLabel(c, Top.jump, FollowingInstr(c, 0))
<1>1. code' = d
  BY DoCode DEF ElseEnd
<1>2. Grown(code, c)
  BY GrownScope
<1> HIDE DEF c
<1>3. Grown(c, d)
  BY <1>2, GrownSetLabel DEF Grown
<1> HIDE DEF d
<1> QED BY <1>1, <1>2, <1>3, GrownTrans

(* The end of a loop emits the jump back and patches the exit. *)
LEMMA GrownLoopEnd == ASSUME IsCode(code), LoopEnd PROVE Grown(code, code')
<1> DEFINE c == Emit(code, Jump(Top.top))
           d == SetLabel(c, Top.branch[1], FollowingInstr(c, 0))
<1>1. code' \in {c, d}
  BY DoCode DEF LoopEnd
<1>2. Grown(code, c)
  BY GrownEmit
<1> HIDE DEF c
<1>3. Grown(c, d)
  BY <1>2, GrownSetLabel DEF Grown
<1> HIDE DEF d
<1>4. Grown(code, d)
  BY <1>2, <1>3, GrownTrans
<1> QED BY <1>1, <1>2, <1>4

(* Opening and closing a call's window. *)
LEMMA GrownCall == ASSUME IsCode(code), Command \/ CallEnd PROVE Grown(code, code')
<1>1. CASE Command
  <2>1. code' = [code EXCEPT !.reg_pointer = code.reg_pointer + Len(Top.s.args)]
    BY <1>1, DoCode DEF Command
  <2> QED BY <2>1, GrownRegs
<1>2. CASE CallEnd
  <2> DEFINE c == ScopeEnd(Top.st, code)
  <2>1. code' = Emit(c, Top.instr)
    BY <1>2, DoCode DEF CallEnd
  <2>2. Grown(code, c)
    BY GrownScope
  <2> HIDE DEF c
  <2>3. Grown(c, Emit(c, Top.instr))
    BY <2>2, GrownEmit DEF Grown
  <2>4. Grown(code, Emit(c, Top.instr))
    BY <2>2, <2>3, GrownTrans
  <2> QED BY <2>1, <2>4
<1> QED BY <1>1, <1>2

(* The steps that only take or give back a register. *)
LEMMA GrownOperand ==
    ASSUME IsCode(code), Redirection \/ LowerNode \/ AssignVal \/ FreeTop
    PROVE  Grown(code, code')
<1>1. CASE Redirection \/ LowerNode
  BY <1>1, DoCode, GrownAlloc DEF Redirection, LowerNode
<1>2. CASE AssignVal
  BY <1>2, DoCode, GrownAlloc, GrownRegs DEF AssignVal
<1>3. CASE FreeTop
  BY <1>3, DoCode, GrownFree DEF FreeTop
<1> QED BY <1>1, <1>2, <1>3

(* The ends of the two arms of a ternary. *)
LEMMA GrownTernary == ASSUME IsCode(code), TernaryThen \/ TernaryElse PROVE Grown(code, code')
<1>1. CASE TernaryThen
  <2> DEFINE c == ScopeEnd(Top.st, code)
  <2>1. code' = Emit(c, Jump(0))
    BY <1>1, DoCode DEF TernaryThen
  <2>2. Grown(code, c)
    BY GrownScope
  <2> HIDE DEF c
  <2>3. Grown(c, Emit(c, Jump(0)))
    BY <2>2, GrownEmit DEF Grown
  <2>4. Grown(code, Emit(c, Jump(0)))
    BY <2>2, <2>3, GrownTrans
  <2> QED BY <2>1, <2>4
<1>2. CASE TernaryElse
  <2> DEFINE b == ScopeHwmEnd(Top.st, code)
             c == SetLabel(b, Top.branch, Top.label)
             d == SetLabel(c, Top.jump, FollowingInstr(c, 0))
  <2>1. code' = d
    BY <1>2, DoCode DEF TernaryElse
  <2>2. Grown(code, b)
    BY GrownScope
  <2> HIDE DEF b
  <2>3. Grown(b, c)
    BY <2>2, GrownSetLabel DEF Grown
  <2> HIDE DEF c
  <2>4. Grown(code, c)
    BY <2>2, <2>3, GrownTrans
  <2>5. Grown(c, d)
    BY <2>4, GrownSetLabel DEF Grown
  <2> HIDE DEF d
  <2> QED BY <2>1, <2>4, <2>5, GrownTrans
<1> QED BY <1>1, <1>2

(* lower_atom and lower_atom_into. *)
LEMMA GrownAtoms ==
    ASSUME TypeOK, IsCode(code), LowerAtom \/ AtomInto
    PROVE  Grown(code, code')
<1>0. At("Expr") \/ At("Into")
  BY DEF LowerAtom, AtomInto, AtInto
<1>1. Top \in Tasks /\ (Top.k = "Expr" \/ Top.k = "Into") /\ Top.e.k = "atom"
  BY <1>0, AtTypes DEF LowerAtom, AtomInto, AtInto
<1>2. Top.e.a \in Atoms
  BY <1>1, TaskFields, ExprFields
<1>3. ~Panics(Top)
  BY DEF LowerAtom, AtomInto, Do
<1>4. Top.e.a.k # "todo"
  BY <1>1, <1>3 DEF Panics
<1>5. CASE LowerAtom
  <2> DEFINE r == NextReg(code)
             b == AllocReg(code)
             x(slot) == AtomMi(b, Top.e.a, r, slot)
  <2>1. PICK slot : code' \in {x(slot).code, FreeReg(x(slot).code, r)}
    BY <1>5, DoCode DEF LowerAtom
  <2>2. Grown(code, b)
    BY GrownAlloc
  <2> DEFINE c == x(slot).code
  <2>3. Grown(b, c)
    <3> HIDE DEF b
    <3> QED BY <1>2, <1>4, <2>2, GrownAtom DEF Grown
  <2>4. code' \in {c, FreeReg(c, r)}
    BY <2>1
  <2> HIDE DEF b, c, x, r
  <2>5. Grown(code, c)
    BY <2>2, <2>3, GrownTrans
  <2>6. Grown(c, FreeReg(c, r))
    BY <2>5, GrownRegs DEF Grown, FreeReg
  <2>7. Grown(code, FreeReg(c, r))
    BY <2>5, <2>6, GrownTrans
  <2> QED BY <2>4, <2>5, <2>7
<1>6. CASE AtomInto
  <2> DEFINE x(slot) == AtomMi(code, Top.e.a, Top.dest, slot)
             i(slot) == Unary("Copy", Top.dest, x(slot).mi)
  <2>1. PICK slot : code' \in {x(slot).code, Emit(x(slot).code, i(slot))}
    BY <1>6, DoCode DEF AtomInto
  <2> DEFINE c == x(slot).code
             j == i(slot)
  <2>2. code' \in {c, Emit(c, j)}
    BY <2>1
  <2>3. Grown(code, c)
    BY <1>2, <1>4, GrownAtom
  <2> HIDE DEF c, x, i, j
  <2>4. Grown(c, Emit(c, j))
    BY <2>3, GrownEmit DEF Grown
  <2>5. Grown(code, Emit(c, j))
    BY <2>3, <2>4, GrownTrans
  <2> QED BY <2>2, <2>3, <2>5
<1> QED BY <1>5, <1>6

(* An increment, before or after. *)
LEMMA GrownIncr == ASSUME IsCode(code), Incr PROVE Grown(code, code')
<1>1. CASE ~Top.post
  BY <1>1, DoCode, GrownEmit DEF Incr
<1>2. CASE Top.post
  <2> DEFINE c == Emit(code, Binary("Add", Top.dest, Local(0).mi, Imm(0)))
             i == Binary(Top.op, NextReg(c), Local(0).mi, Imm(1))
             d == AllocReg(c)
  <2>1. code' = Emit(d, i)
    BY <1>2, DoCode DEF Incr
  <2>2. Grown(code, c)
    BY GrownEmit
  <2> HIDE DEF c, i
  <2>3. Grown(c, d)
    BY <2>2, GrownAlloc DEF Grown
  <2> HIDE DEF d
  <2>4. Grown(code, d)
    BY <2>2, <2>3, GrownTrans
  <2>5. Grown(d, Emit(d, i))
    BY <2>4, GrownEmit DEF Grown
  <2>6. Grown(code, Emit(d, i))
    BY <2>4, <2>5, GrownTrans
  <2> QED BY <2>1, <2>6
<1> QED BY <1>1, <1>2

(* Loading and storing variables and array elements. *)
LEMMA GrownPlace ==
    ASSUME IsCode(code), LoadScalar \/ StoreScalar \/ LoadIndex \/ StoreIndex
    PROVE  Grown(code, code')
<1>1. CASE LoadScalar
  BY <1>1, DoCode, GrownScalar DEF LoadScalar
<1>2. CASE StoreScalar
  <2>1. CASE Top.p.k = "user"
    <3> DEFINE c == RegisterUserVar(code, Top.p.id)
               i == Store("StoreUserScalar", Top.dest, Top.src, UserIndex(c, Top.p.id))
    <3>1. code' = Emit(c, i)
      BY <1>2, <2>1, DoCode DEF StoreScalar
    <3>2. Grown(code, c)
      BY GrownUser
    <3> HIDE DEF c, i
    <3>3. Grown(c, Emit(c, i))
      BY <3>2, GrownEmit DEF Grown
    <3>4. Grown(code, Emit(c, i))
      BY <3>2, <3>3, GrownTrans
    <3> QED BY <3>1, <3>4
  <2>2. CASE Top.p.k # "user"
    BY <1>2, <2>2, DoCode, GrownEmit DEF StoreScalar
  <2> QED BY <2>1, <2>2
<1>3. ASSUME NEW user, NEW builtin, ArrayAccess(user, builtin) PROVE Grown(code, code')
  <2> DEFINE c == IF Top.p.k = "userindex" THEN RegisterUserVar(code, Top.p.id) ELSE code
             d == [c EXCEPT !.reg_pointer = c.reg_pointer + Len(Top.p.args)]
  <2>1. code' = d
    BY <1>3, DoCode DEF ArrayAccess
  <2>2. Grown(code, c)
    BY GrownUser, GrownRegs
  <2> HIDE DEF c
  <2>3. Grown(c, d)
    BY <2>2, GrownRegs DEF Grown
  <2> HIDE DEF d
  <2> QED BY <2>1, <2>2, <2>3, GrownTrans
<1> QED BY <1>1, <1>2, <1>3 DEF LoadIndex, StoreIndex

(* Every step from a well-typed state only adds to what was emitted. *)
LEMMA StepGrows == TypeOK /\ [Next]_vars => [GrowsInto(code, code')]_code
<1> SUFFICES ASSUME TypeOK, [Next]_vars, code' # code PROVE Grown(code, code')
  BY DEF Grown
<1>1. IsCode(code)
  BY CodeTypeIsCode DEF TypeOK
<1>2. CASE LowerStatement
  BY <1>1, <1>2, GrownSilent, GrownOneEmit, GrownThenEnd, GrownElseEnd, GrownLoopEnd,
     GrownCall, GrownOperand DEF LowerStatement
<1>3. CASE LowerExpr
  BY <1>1, <1>3, GrownSilent, GrownOneEmit, GrownOperand, GrownAtoms, GrownTernary,
     GrownIncr DEF LowerExpr
<1>4. CASE LowerPlace
  BY <1>1, <1>4, GrownSilent, GrownOneEmit, GrownPlace DEF LowerPlace
<1>5. CASE Panic \/ Finish \/ UNCHANGED vars
  BY <1>5 DEF Panic, Finish, vars
<1> QED BY <1>2, <1>3, <1>4, <1>5 DEF Next

(* For every program and every width: an emitted instruction changes in    *)
(* its labels only and is never taken back, and identifiers and constants  *)
(* keep the index that instructions already name, even where the hash set  *)
(* of constants answers with the slot of a loosely equal one.              *)
THEOREM CodeIsFinal == Spec => EmittedIsFinal
<1> QED BY TypeCorrect, StepGrows, PTL DEF Spec, EmittedIsFinal

-----------------------------------------------------------------------------
(* Most methods of Code leave the registers alone. *)

HasRegs(c) == {"free_regs", "reg_pointer"} \subseteq DOMAIN c
SameRegs(c, d) ==
    HasRegs(d) /\ d.free_regs = c.free_regs /\ d.reg_pointer = c.reg_pointer

LEMMA CodeHasRegs == ASSUME NEW c \in CodeType PROVE HasRegs(c)
  BY DEF CodeType, HasRegs

LEMMA SameRegsTrans ==
    ASSUME NEW c, NEW d, NEW e, SameRegs(c, d), SameRegs(d, e) PROVE SameRegs(c, e)
  BY DEF SameRegs

(* Emitting, patching and interning. *)
LEMMA KeepRegs ==
    ASSUME NEW c, HasRegs(c)
    PROVE  /\ \A i : SameRegs(c, Emit(c, i))
           /\ \A l, to : SameRegs(c, SetLabel(c, l, to))
           /\ \A id : SameRegs(c, RegisterUserVar(c, id))
           /\ \A v, slot : SameRegs(c, RegisterConst(c, v, slot))
<1>1. \A i : SameRegs(c, Emit(c, i))
  BY DEF Emit, SameRegs, HasRegs
<1>2. \A l, to : SameRegs(c, SetLabel(c, l, to))
  BY DEF SetLabel, SameRegs, HasRegs
<1>3. \A id : SameRegs(c, RegisterUserVar(c, id))
  BY DEF RegisterUserVar, SameRegs, HasRegs
<1>4. \A v, slot : SameRegs(c, RegisterConst(c, v, slot))
  BY DEF RegisterConst, SameRegs, HasRegs
<1> QED BY <1>1, <1>2, <1>3, <1>4

(* An immediate, or a load. *)
LEMMA ImmOrLoadRegs ==
    ASSUME NEW c, HasRegs(c), NEW k, NEW n, NEW load, NEW dest
    PROVE  SameRegs(c, ImmOrLoad(c, k, n, load, dest).code)
<1>1. SameRegs(c, c)
  BY DEF SameRegs
<1>2. SameRegs(c, Emit(c, Load(load, dest, n)))
  BY KeepRegs
<1> QED BY <1>1, <1>2 DEF ImmOrLoad

(* A variable. *)
LEMMA ScalarRegs ==
    ASSUME NEW c, HasRegs(c), NEW x, NEW dest
    PROVE  SameRegs(c, ScalarMi(c, x, dest).code)
<1>1. CASE x.k = "user"
  <2> DEFINE d == RegisterUserVar(c, x.id)
  <2>1. SameRegs(c, d) /\ HasRegs(d)
    BY KeepRegs DEF SameRegs
  <2>2. SameRegs(d, ImmOrLoad(d, "ImmUserVar", UserIndex(d, x.id), "LoadUserScalar", dest).code)
    BY <2>1, ImmOrLoadRegs
  <2>3. ScalarMi(c, x, dest) = ImmOrLoad(d, "ImmUserVar", UserIndex(d, x.id), "LoadUserScalar", dest)
    BY <1>1 DEF ScalarMi
  <2> HIDE DEF d
  <2> QED BY <2>1, <2>2, <2>3, SameRegsTrans
<1>2. CASE x.k # "user"
  BY <1>2, ImmOrLoadRegs DEF ScalarMi
<1> QED BY <1>1, <1>2

(* An atom. *)
LEMMA AtomRegs ==
    ASSUME NEW c, HasRegs(c), NEW a \in Atoms, a.k # "todo", NEW dest, NEW slot
    PROVE  SameRegs(c, AtomMi(c, a, dest, slot).code)
<1> DEFINE d == RegisterConst(c, a.v, slot)
           x == ImmOrLoad(d, "ImmCnt", (slot - 1) % U16, "LoadConst", dest)
           i == Binary("Matches", dest, [k |-> "Rec", n |-> 0], x.mi)
<1>1. SameRegs(c, x.code)
  <2>1. SameRegs(c, d) /\ HasRegs(d)
    BY KeepRegs DEF SameRegs
  <2>2. SameRegs(d, x.code)
    BY <2>1, ImmOrLoadRegs
  <2> HIDE DEF d, x
  <2> QED BY <2>1, <2>2, SameRegsTrans
<1>2. SameRegs(x.code, Emit(x.code, i))
  BY <1>1, KeepRegs DEF SameRegs
<1>3. CASE a.k \in {"user", "builtin"}
  BY <1>3, ScalarRegs DEF AtomMi
<1>4. CASE a.k = "int"
  BY <1>4 DEF AtomMi, SameRegs
<1>5. CASE a.k = "cnt"
  <2>1. AtomMi(c, a, dest, slot) = x
    BY <1>5 DEF AtomMi
  <2> QED BY <1>1, <2>1
<1>6. CASE a.k = "regex"
  <2>1. AtomMi(c, a, dest, slot).code = Emit(x.code, i)
    BY <1>6 DEF AtomMi
  <2> HIDE DEF x, i
  <2> QED BY <1>1, <1>2, <2>1, SameRegsTrans
<1> QED BY <1>3, <1>4, <1>5, <1>6, AtomFields
=============================================================================
