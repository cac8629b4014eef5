------------------------------ MODULE Lowering ------------------------------
(***************************************************************************)
(* The lowering of a rule's body to bytecode: ir/lower.rs, lower_body and  *)
(* everything it calls.                                                    *)
(*                                                                         *)
(* The code is a recursive descent.  Here its call stack is the sequence   *)
(* control of tasks still to do, the innermost first: a task stands for    *)
(* the code between two recursive calls and holds the locals that code     *)
(* reads.  A call pushes the callee's task and, behind it, the task that   *)
(* continues the caller.  locals is the stack of the operands the frames   *)
(* own: an entry with own = TRUE is a LinearReg, which only free_reg may   *)
(* consume; one with own = FALSE is a plain MaybeImm.                      *)
(*                                                                         *)
(* A panic (todo!(), "register overflow", "too many call args") ends the   *)
(* lowering with status "panic" and leaves control and locals as the       *)
(* unwinding finds them.                                                   *)
(***************************************************************************)
EXTENDS Code

CONSTANTS Exprs,    \* expressions, closed under sub-expressions
          Stmts,    \* statements over Exprs, closed under sub-statements
          Programs  \* bodies of the first rule

VARIABLES program,  \* the body being lowered
          code,     \* struct Code
          control,  \* pending tasks, innermost first
          locals,   \* operands owned by the pending frames, innermost last
          status    \* "lowering", "lowered" or "panic"

vars == <<program, code, control, locals, status>>

-----------------------------------------------------------------------------
(* The AST as the lowering takes it apart. *)

Atoms == [k : {"user"}, id : Idents] \cup [k : {"builtin"}, n : Nat]
         \cup [k : {"int"}, n : Int] \cup [k : {"cnt", "regex"}, v : Consts]
         \cup [k : {"todo"}]

(* Place: a variable, an indexed variable, a record $e; "todo" is          *)
(* ChainedIndex.                                                           *)
Places == [k : {"user"}, id : Idents] \cup [k : {"builtin"}, n : Nat]
          \cup [k : {"userindex"}, id : Idents, args : Seq(Exprs)]
          \cup [k : {"builtinindex"}, n : Nat, args : Seq(Exprs)]
          \cup [k : {"record"}, e : Exprs] \cup [k : {"todo"}]

(* Expr: a Leaf is "atom"; "todo" stands for the nodes lower_expr_into has *)
(* no arm for.  op of an "assign" is the operator applied before the       *)
(* store, "Set" for the plain assignment.                                  *)
ExprShapes ==
    [k : {"atom"}, a : Atoms] \cup [k : {"unary"}, op : UnaryOps, e : Exprs]
    \cup [k : {"binary"}, op : BinaryOps, l : Exprs, r : Exprs]
    \cup [k : {"ternary"}, c : Exprs, t : Exprs, f : Exprs]
    \cup [k : {"assign"}, op : ArithOps \cup {"Set"}, p : Places, e : Exprs]
    \cup [k : {"incr"}, op : {"Add", "Subtract"}, post : BOOLEAN, p : Places]
    \cup [k : {"todo"}]

(* Statement: an Option is a sequence of at most one element; "todo"       *)
(* stands for the statements lower_statement has no arm for.               *)
StmtShapes ==
    [k : {"if"}, c : Exprs, body : Seq(Stmts), orelse : Seq(Seq(Stmts))]
    \cup [k : {"while", "dowhile"}, c : Exprs, body : Seq(Stmts)]
    \cup [k : {"for"}, init : Seq(Stmts), cond : Seq(Exprs), update : Seq(Stmts),
          body : Seq(Stmts)]
    \cup [k : {"expr"}, e : Exprs]
    \cup [k : {"command"}, name : Commands, args : Seq(Exprs), redir : Seq(Exprs)]
    \cup [k : {"todo"}]

ASSUME ExprsClosed == Exprs \subseteq ExprShapes
ASSUME StmtsClosed == Stmts \subseteq StmtShapes
ASSUME ProgramsAssumption == Programs \subseteq Seq(Stmts)

-----------------------------------------------------------------------------
(* Tasks. *)

Stmt(s)    == [k |-> "Stmt", s |-> s]
Expr(e)    == [k |-> "Expr", e |-> e]                \* lower_expr
Into(e, r) == [k |-> "Into", e |-> e, dest |-> r]    \* lower_expr_into
Free       == [k |-> "Free"]                         \* Operand::free, free_reg
LoadPlace(p, r)     == [k |-> "LoadPlace", p |-> p, dest |-> r]
StorePlace(p, r, x) == [k |-> "StorePlace", p |-> p, dest |-> r, src |-> x]

Body(ss) == [i \in 1 .. Len(ss) |-> Stmt(ss[i])]     \* lower_body

(* The init and update of a for: only an expression is lowered. *)
Simple(opt) == IF opt # <<>> /\ opt[1].k = "expr" THEN <<Expr(opt[1].e), Free>> ELSE <<>>

Own(r)   == [mi |-> Reg(r), own |-> TRUE]
Plain(x) == [mi |-> x, own |-> FALSE]

(* The n-th local from the top, and the stack without the top n. *)
Local(n) == IF n < Len(locals) THEN locals[Len(locals) - n] ELSE Plain(Imm(0))
Pop(n)   == Take(locals, IF n < Len(locals) THEN Len(locals) - n ELSE 0)
Push(x)  == Append(locals, x)

FreeLocal(c, x) == IF x.own THEN FreeReg(c, x.mi.n) ELSE c

-----------------------------------------------------------------------------
(* Steps. *)

Top == control[1]
At(k) == status = "lowering" /\ control # <<>> /\ control[1].k = k
AtStmt(k) == At("Stmt") /\ Top.s.k = k
AtInto(k) == At("Into") /\ Top.e.k = k

(* gen_call_convention: the window of argument registers starts at the     *)
(* register pointer.                                                       *)
WindowFits(args) == Len(args) < U8 /\ code.reg_pointer + Len(args) < U8
Window(args, extra, instr) ==
    [i \in 1 .. Len(args) |-> Into(args[i], code.reg_pointer + i - 1)] \o extra
    \o <<[k |-> "CallEnd", st |-> SaveRegs(code),
          instr |-> [instr EXCEPT !.lo = code.reg_pointer, !.hi = code.reg_pointer + Len(args)]]>>

(* The paths that panic. *)
Allocates(t) ==
    \/ t.k \in {"Expr", "Redirection"}
    \/ t.k = "AssignVal" /\ t.op # "Set"
    \/ t.k = "Incr" /\ t.post

Panics(t) ==
    \/ Allocates(t) /\ ~CanAlloc(code)
    \/ t.k = "Stmt" /\ t.s.k = "todo"
    \/ t.k = "Stmt" /\ t.s.k = "command" /\ ~WindowFits(t.s.args)
    \/ t.k = "Expr" /\ t.e.k = "atom" /\ t.e.a.k = "todo"
    \/ t.k = "Into" /\ t.e.k = "todo"
    \/ t.k = "Into" /\ t.e.k = "atom" /\ t.e.a.k = "todo"
    \/ t.k = "LoadPlace" /\ t.p.k = "record"
    \/ t.k \in {"LoadPlace", "StorePlace"} /\ t.p.k = "todo"
    \/ t.k \in {"LoadPlace", "StorePlace"} /\ t.p.k \in {"userindex", "builtinindex"}
       /\ ~WindowFits(t.p.args)
    \/ t.k = "ThenEnd" /\ t.orelse # <<>> /\ t.st.reg_pointer + 1 >= U8

(* The outcome of a step that does not panic: the top task is replaced. *)
Do(c, l, tasks) ==
    /\ ~Panics(Top)
    /\ code' = c
    /\ locals' = l
    /\ control' = tasks \o Tail(control)
    /\ UNCHANGED <<program, status>>

-----------------------------------------------------------------------------
(* lower_statement. *)

If == AtStmt("if") /\
    Do(code, locals,
       <<Expr(Top.s.c),
         [k |-> "IfBranch", st |-> SaveRegs(code), body |-> Top.s.body, orelse |-> Top.s.orelse]>>)

IfBranch == At("IfBranch") /\
    Do(FreeLocal(Emit(code, Branch(Local(0).mi, FollowingInstr(code, 1), 0)), Local(0)),
       Pop(1),
       Body(Top.body) \o <<[k |-> "ThenEnd", st |-> Top.st, orelse |-> Top.orelse,
                            branch |-> EmitLabel(code)]>>)

(* The then-body is lowered: patch the branch; with an else, add a jump    *)
(* over it.                                                                *)
ThenEnd == At("ThenEnd") /\
    LET patched == SetLabel(code, Top.branch, FollowingInstr(code, 0))
        pushed  == PushStartLabel(patched, Top.branch)
        st      == [Top.st EXCEPT !.reg_pointer = @ + 1]
    IN  IF Top.orelse = <<>>
        THEN Do(patched, locals, <<>>)
        ELSE Do(Emit(pushed, Jump(0)), locals,
                Body(Top.orelse[1])
                \o <<[k |-> "ElseEnd", st |-> st, jump |-> EmitLabel(code)]>>)

ElseEnd == At("ElseEnd") /\
    LET c == ScopeHwmEnd(Top.st, code)
    IN  Do(SetLabel(c, Top.jump, FollowingInstr(c, 0)), locals, <<>>)

(* While, and a For with a condition after its init. *)
Loop(cond, body, update) ==
    Do(code, locals, <<Expr(cond), [k |-> "LoopBranch", top |-> FollowingInstr(code, 0),
                                    body |-> body, update |-> update]>>)

While == AtStmt("while") /\ Loop(Top.s.c, Top.s.body, <<>>)

For == AtStmt("for") /\
    Do(code, locals, Simple(Top.s.init) \o <<[k |-> "ForTop", s |-> Top.s]>>)

ForTop == At("ForTop") /\
    LET s == Top.s
    IN  IF s.cond # <<>>
        THEN Loop(s.cond[1], s.body, s.update)
        ELSE Do(code, locals, Body(s.body) \o Simple(s.update)
                \o <<[k |-> "LoopEnd", top |-> FollowingInstr(code, 0), branch |-> <<>>]>>)

LoopBranch == At("LoopBranch") /\
    Do(FreeLocal(Emit(code, Branch(Local(0).mi, FollowingInstr(code, 1), 0)), Local(0)),
       Pop(1),
       Body(Top.body) \o Simple(Top.update)
       \o <<[k |-> "LoopEnd", top |-> Top.top, branch |-> <<EmitLabel(code)>>]>>)

(* Mutants: the exit of the branch leads back to the condition; the jump   *)
(* leads to itself.                                                        *)
LoopEndBackward == At("LoopEnd") /\
    LET c == Emit(code, Jump(Top.top))
    IN  Do(IF Top.branch = <<>> THEN c ELSE SetLabel(c, Top.branch[1], Top.top), locals, <<>>)

LoopEndStuck == At("LoopEnd") /\
    LET c == Emit(code, Jump(FollowingInstr(code, 0)))
    IN  Do(IF Top.branch = <<>> THEN c ELSE SetLabel(c, Top.branch[1], FollowingInstr(c, 0)),
           locals, <<>>)

LoopEnd == At("LoopEnd") /\
    LET c == Emit(code, Jump(Top.top))
    IN  Do(IF Top.branch = <<>> THEN c ELSE SetLabel(c, Top.branch[1], FollowingInstr(c, 0)),
           locals, <<>>)

DoWhile == AtStmt("dowhile") /\
    Do(code, locals, Body(Top.s.body)
       \o <<Expr(Top.s.c), [k |-> "DoBranch", top |-> FollowingInstr(code, 0)]>>)

DoBranch == At("DoBranch") /\
    Do(FreeLocal(Emit(code, Branch(Local(0).mi, Top.top, FollowingInstr(code, 1))), Local(0)),
       Pop(1), <<>>)

(* Mutant: the value of the expression is not freed. *)
ExprStmtUnfreed == AtStmt("expr") /\ Do(code, locals, <<Expr(Top.s.e)>>)

ExprStmt == AtStmt("expr") /\ Do(code, locals, <<Expr(Top.s.e), Free>>)

(* Mutant: the pointer is not raised past the window. *)
CommandUnraised == AtStmt("command") /\
    LET s == Top.s
        extra == IF s.redir = <<>> THEN <<>> ELSE <<[k |-> "Redirection", e |-> s.redir[1]]>>
    IN  Do(code, locals, Window(s.args, extra, Output(s.name, s.redir # <<>>)))

(* A command's arguments and redirection are lowered in one window. *)
Command == AtStmt("command") /\
    LET s == Top.s
        extra == IF s.redir = <<>> THEN <<>> ELSE <<[k |-> "Redirection", e |-> s.redir[1]]>>
    IN  Do([code EXCEPT !.reg_pointer = @ + Len(s.args)], locals,
           Window(s.args, extra, Output(s.name, s.redir # <<>>)))

Redirection == At("Redirection") /\
    LET r == NextReg(code)
    IN  Do(AllocReg(code), Push(Own(r)), <<Into(Top.e, r), Free>>)

(* The end of a window: its scope is closed and the instruction emitted;   *)
(* a load returns its destination.                                         *)
CallEnd == At("CallEnd") /\
    Do(Emit(ScopeEnd(Top.st, code), Top.instr),
       IF Top.instr.op \in ArrayLoads THEN Push(Plain(Reg(Top.instr.dest))) ELSE locals,
       <<>>)

-----------------------------------------------------------------------------
(* Operands and atoms. *)

FreeTop == At("Free") /\ Do(FreeLocal(code, Local(0)), Pop(1), <<>>)

(* lower_atom_mi, for the place slot that interning a constant may give.   *)
Slots(a) == IF a.k \in {"cnt", "regex"} THEN ConstSlots(code, a.v) ELSE {1}

ScalarMi(c, x, dest) ==
    IF x.k = "user"
    THEN LET d == RegisterUserVar(c, x.id)
         IN  ImmOrLoad(d, "ImmUserVar", UserIndex(d, x.id), "LoadUserScalar", dest)
    ELSE ImmOrLoad(c, "ImmBuiltinVar", x.n, "LoadBuiltinScalar", dest)

AtomMi(c, a, dest, slot) ==
    CASE a.k \in {"user", "builtin"} -> ScalarMi(c, a, dest)
      [] a.k = "int"   -> [code |-> c, mi |-> Imm(a.n)]
      [] a.k = "cnt"   -> ImmOrLoad(RegisterConst(c, a.v, slot), "ImmCnt",
                                    (slot - 1) % U16, "LoadConst", dest)
      [] a.k = "regex" ->
           LET x == ImmOrLoad(RegisterConst(c, a.v, slot), "ImmCnt",
                              (slot - 1) % U16, "LoadConst", dest)
           IN  [code |-> Emit(x.code, Binary("Matches", dest, [k |-> "Rec", n |-> 0], x.mi)),
                mi |-> Reg(dest)]

(* Mutant: the register is given back also when the atom was loaded in it. *)
LowerAtomFrees == At("Expr") /\ Top.e.k = "atom" /\
    \E slot \in Slots(Top.e.a) :
        LET r == NextReg(code)
            x == AtomMi(AllocReg(code), Top.e.a, r, slot)
        IN  Do(FreeReg(x.code, r), Push(IF x.mi.k = "Reg" THEN Own(r) ELSE Plain(x.mi)), <<>>)

(* lower_atom: the register is taken first and given back when the atom    *)
(* turns out to be an immediate.                                           *)
LowerAtom == At("Expr") /\ Top.e.k = "atom" /\
    \E slot \in Slots(Top.e.a) :
        LET r == NextReg(code)
            x == AtomMi(AllocReg(code), Top.e.a, r, slot)
        IN  IF x.mi.k = "Reg" THEN Do(x.code, Push(Own(r)), <<>>)
                              ELSE Do(FreeReg(x.code, r), Push(Plain(x.mi)), <<>>)

LowerNode == At("Expr") /\ Top.e.k # "atom" /\
    LET r == NextReg(code)
    IN  Do(AllocReg(code), Push(Own(r)), <<Into(Top.e, r)>>)

(* lower_atom_into *)
AtomInto == AtInto("atom") /\
    \E slot \in Slots(Top.e.a) :
        LET x == AtomMi(code, Top.e.a, Top.dest, slot)
        IN  Do(IF x.mi = Reg(Top.dest) THEN x.code
                                       ELSE Emit(x.code, Unary("Copy", Top.dest, x.mi)),
               locals, <<>>)

-----------------------------------------------------------------------------
(* lower_expr_into. *)

UnaryInto == AtInto("unary") /\
    Do(code, locals, <<Expr(Top.e.e), [k |-> "UnaryEmit", op |-> Top.e.op, dest |-> Top.dest]>>)

UnaryEmit == At("UnaryEmit") /\
    Do(FreeLocal(Emit(code, Unary(Top.op, Top.dest, Local(0).mi)), Local(0)), Pop(1), <<>>)

BinaryInto == AtInto("binary") /\
    Do(code, locals, <<Expr(Top.e.l), Expr(Top.e.r),
                       [k |-> "BinaryEmit", op |-> Top.e.op, dest |-> Top.dest]>>)

(* Mutants: the left operand is not freed; the operands are swapped. *)
BinaryEmitLeaks == At("BinaryEmit") /\
    Do(FreeLocal(Emit(code, Binary(Top.op, Top.dest, Local(1).mi, Local(0).mi)), Local(0)),
       Pop(2), <<>>)

BinaryEmitSwapped == At("BinaryEmit") /\
    LET lhs == Local(1)
        rhs == Local(0)
        c   == Emit(code, Binary(Top.op, Top.dest, rhs.mi, lhs.mi))
    IN  Do(FreeLocal(FreeLocal(c, lhs), rhs), Pop(2), <<>>)

(* The left operand is freed before the right one. *)
BinaryEmit == At("BinaryEmit") /\
    LET lhs == Local(1)
        rhs == Local(0)
        c   == Emit(code, Binary(Top.op, Top.dest, lhs.mi, rhs.mi))
    IN  Do(FreeLocal(FreeLocal(c, lhs), rhs), Pop(2), <<>>)

TernaryInto == AtInto("ternary") /\
    Do(code, locals, <<Expr(Top.e.c), [k |-> "TernaryBranch", t |-> Top.e.t, f |-> Top.e.f,
                                       dest |-> Top.dest]>>)

TernaryBranch == At("TernaryBranch") /\
    LET c == FreeLocal(Emit(code, Branch(Local(0).mi, FollowingInstr(code, 1), 0)), Local(0))
    IN  Do(c, Pop(1),
           <<Into(Top.t, Top.dest),
             [k |-> "TernaryThen", st |-> SaveRegs(c), f |-> Top.f, dest |-> Top.dest,
              branch |-> EmitLabel(code)]>>)

TernaryThen == At("TernaryThen") /\
    LET c == Emit(ScopeEnd(Top.st, code), Jump(0))
    IN  Do(c, locals,
           <<Into(Top.f, Top.dest),
             [k |-> "TernaryElse", st |-> AfterScope(Top.st, code), branch |-> Top.branch,
              jump |-> EmitLabel(code), label |-> FollowingInstr(c, 0)]>>)

TernaryElse == At("TernaryElse") /\
    LET c == SetLabel(ScopeHwmEnd(Top.st, code), Top.branch, Top.label)
    IN  Do(SetLabel(c, Top.jump, FollowingInstr(c, 0)), locals, <<>>)

AssignInto == AtInto("assign") /\
    Do(code, locals, <<Expr(Top.e.e), [k |-> "AssignVal", op |-> Top.e.op, p |-> Top.e.p,
                                       dest |-> Top.dest]>>)

(* The value is lowered: store it, or load the place it is combined with.  *)
AssignVal == At("AssignVal") /\
    IF Top.op = "Set"
    THEN Do(code, locals, <<StorePlace(Top.p, Top.dest, Local(0).mi), Free>>)
    ELSE LET r == NextReg(code)
         IN  Do(AllocReg(code), Push(Own(r)),
                <<LoadPlace(Top.p, r),
                  [k |-> "AssignEmit", op |-> Top.op, p |-> Top.p, dest |-> Top.dest]>>)

(* Locals: the value, the register for the loaded place, its operand. *)
AssignEmit == At("AssignEmit") /\
    Do(Emit(code, Binary(Top.op, Top.dest, Local(0).mi, Local(2).mi)), Pop(1),
       <<StorePlace(Top.p, Top.dest, Reg(Top.dest)), Free, Free>>)

IncrInto == AtInto("incr") /\
    Do(code, locals, <<LoadPlace(Top.e.p, Top.dest),
                       [k |-> "Incr", op |-> Top.e.op, post |-> Top.e.post, p |-> Top.e.p,
                        dest |-> Top.dest]>>)

Incr == At("Incr") /\
    LET val == Local(0).mi
    IN  IF ~Top.post
        THEN Do(Emit(code, Binary(Top.op, Top.dest, val, Imm(1))), Pop(1),
                <<StorePlace(Top.p, Top.dest, Reg(Top.dest))>>)
        ELSE LET c   == Emit(code, Binary("Add", Top.dest, val, Imm(0)))
                 tmp == NextReg(c)
             IN  Do(Emit(AllocReg(c), Binary(Top.op, tmp, val, Imm(1))),
                    Append(Pop(1), Own(tmp)),
                    <<StorePlace(Top.p, tmp, Reg(tmp)), Free>>)

-----------------------------------------------------------------------------
(* load_place and store_place. *)

AtPlace(t, kinds) == At(t) /\ Top.p.k \in kinds
Scalars == {"user", "builtin"}
Indexed == {"userindex", "builtinindex"}

LoadScalar == AtPlace("LoadPlace", Scalars) /\
    LET x == ScalarMi(code, Top.p, Top.dest)
    IN  Do(x.code, Push(Plain(x.mi)), <<>>)

StoreScalar == AtPlace("StorePlace", Scalars) /\
    IF Top.p.k = "user"
    THEN LET c == RegisterUserVar(code, Top.p.id)
         IN  Do(Emit(c, Store("StoreUserScalar", Top.dest, Top.src, UserIndex(c, Top.p.id))),
                locals, <<>>)
    ELSE Do(Emit(code, Store("StoreBuiltinScalar", Top.dest, Top.src, Top.p.n)), locals, <<>>)

(* An indexed place: the identifier is interned, then the indices are      *)
(* lowered in a window.  The instruction that stores does not name src.    *)
ArrayAccess(user, builtin) ==
    LET p == Top.p
        c == IF p.k = "userindex" THEN RegisterUserVar(code, p.id) ELSE code
        ins == IF p.k = "userindex" THEN Load(user, Top.dest, UserIndex(c, p.id))
                                    ELSE Load(builtin, Top.dest, p.n)
    IN  Do([c EXCEPT !.reg_pointer = @ + Len(p.args)], locals, Window(p.args, <<>>, ins))

LoadIndex  == AtPlace("LoadPlace", Indexed) /\ ArrayAccess("LoadUserArray", "LoadBuiltinArray")
StoreIndex == AtPlace("StorePlace", Indexed) /\ ArrayAccess("StoreUserArray", "StoreBuiltinArray")

StoreRecord == AtPlace("StorePlace", {"record"}) /\
    Do(code, locals, <<Expr(Top.p.e), [k |-> "RecordEmit", dest |-> Top.dest, src |-> Top.src]>>)

RecordEmit == At("RecordEmit") /\
    Do(FreeLocal(Emit(code, Binary("StoreRecord", Top.dest, Local(0).mi, Top.src)), Local(0)),
       Pop(1), <<>>)

-----------------------------------------------------------------------------
Init ==
    /\ program \in Programs
    /\ code = EmptyCode
    /\ control = Body(program)
    /\ locals = <<>>
    /\ status = "lowering"

Panic ==
    /\ status = "lowering" /\ control # <<>> /\ Panics(Top)
    /\ status' = "panic"
    /\ UNCHANGED <<program, code, control, locals>>

Finish ==
    /\ status = "lowering" /\ control = <<>>
    /\ status' = "lowered"
    /\ UNCHANGED <<program, code, control, locals>>

LowerStatement == \/ If \/ IfBranch \/ ThenEnd \/ ElseEnd
                  \/ While \/ For \/ ForTop \/ LoopBranch \/ LoopEnd \/ DoWhile \/ DoBranch
                  \/ ExprStmt \/ Command \/ Redirection \/ CallEnd

LowerExpr == \/ FreeTop \/ LowerAtom \/ LowerNode \/ AtomInto
             \/ UnaryInto \/ UnaryEmit \/ BinaryInto \/ BinaryEmit
             \/ TernaryInto \/ TernaryBranch \/ TernaryThen \/ TernaryElse
             \/ AssignInto \/ AssignVal \/ AssignEmit \/ IncrInto \/ Incr

LowerPlace == LoadScalar \/ StoreScalar \/ LoadIndex \/ StoreIndex \/ StoreRecord \/ RecordEmit

Next == LowerStatement \/ LowerExpr \/ LowerPlace \/ Panic \/ Finish

Spec == Init /\ [][Next]_vars /\ WF_vars(Next)

-----------------------------------------------------------------------------
(* Types. *)

Registers == 0 .. U8-1
Labels    == 0 .. U16-1

Tasks ==
    [k : {"Stmt"}, s : Stmts] \cup [k : {"Expr", "Redirection"}, e : Exprs]
    \cup [k : {"Into"}, e : Exprs, dest : Registers] \cup [k : {"Free"}]
    \cup [k : {"LoadPlace"}, p : Places, dest : Registers]
    \cup [k : {"StorePlace"}, p : Places, dest : Registers, src : MaybeImm]
    \cup [k : {"IfBranch"}, st : RegsState, body : Seq(Stmts), orelse : Seq(Seq(Stmts))]
    \cup [k : {"ThenEnd"}, st : RegsState, orelse : Seq(Seq(Stmts)), branch : Labels]
    \cup [k : {"ElseEnd"}, st : RegsState, jump : Labels]
    \cup [k : {"ForTop"}, s : {s \in Stmts : s.k = "for"}]
    \cup [k : {"LoopBranch"}, top : Labels, body : Seq(Stmts), update : Seq(Stmts)]
    \cup [k : {"LoopEnd"}, top : Labels, branch : Seq(Labels)]
    \cup [k : {"DoBranch"}, top : Labels]
    \cup [k : {"CallEnd"}, st : RegsState, instr : Instruction]
    \cup [k : {"UnaryEmit"}, op : UnaryOps, dest : Registers]
    \cup [k : {"BinaryEmit"}, op : BinaryOps, dest : Registers]
    \cup [k : {"TernaryBranch"}, t : Exprs, f : Exprs, dest : Registers]
    \cup [k : {"TernaryThen"}, st : RegsState, f : Exprs, dest : Registers, branch : Labels]
    \cup [k : {"TernaryElse"}, st : RegsState, branch : Labels, jump : Labels, label : Labels]
    \cup [k : {"AssignVal"}, op : ArithOps \cup {"Set"}, p : Places, dest : Registers]
    \cup [k : {"AssignEmit"}, op : ArithOps, p : Places, dest : Registers]
    \cup [k : {"Incr"}, op : {"Add", "Subtract"}, post : BOOLEAN, p : Places, dest : Registers]
    \cup [k : {"RecordEmit"}, dest : Registers, src : MaybeImm]

Operands == {x \in [mi : MaybeImm, own : BOOLEAN] : x.own => x.mi.k = "Reg" /\ x.mi.n \in Registers}

(* Every variable has its type; in particular the register pointer and     *)
(* every register on the free list and in a frame fit u8.                  *)
TypeOK ==
    /\ program \in Programs
    /\ code \in CodeType
    /\ control \in Seq(Tasks)
    /\ locals \in Seq(Operands)
    /\ status \in {"lowering", "lowered", "panic"}

-----------------------------------------------------------------------------
(* Properties: registers. *)

Owned(i) == locals[i].own

(* Two LinearRegs that are alive at the same time (lhs and rhs of a binary *)
(* operation, say) are different registers, below the pointer.             *)
OwnersDistinct ==
    /\ \A i, j \in 1 .. Len(locals) :
          Owned(i) /\ Owned(j) /\ i # j => locals[i].mi.n # locals[j].mi.n
    /\ \A i \in 1 .. Len(locals) : Owned(i) => locals[i].mi.n < code.reg_pointer

(* The free list holds registers below the pointer that nobody owns, each  *)
(* once: alloc_reg never gives a register that somebody holds, neither     *)
(* from the list nor, later, from the pointer.                             *)
FreeListSound ==
    /\ \A i, j \in 1 .. Len(code.free_regs) :
          i # j => code.free_regs[i] # code.free_regs[j]
    /\ \A i \in 1 .. Len(locals), j \in 1 .. Len(code.free_regs) :
          Owned(i) => locals[i].mi.n # code.free_regs[j]
    /\ \A i \in 1 .. Len(code.free_regs) : code.free_regs[i] < code.reg_pointer

(* No register is lost: whatever alloc_reg took below the pointer is held  *)
(* by a frame or is on the free list (`Leaked register`, lower.rs:615).    *)
NoRegisterLost ==
    \A r \in 0 .. code.reg_pointer - 1 :
        \/ \E i \in 1 .. Len(locals) : Owned(i) /\ locals[i].mi.n = r
        \/ \E i \in 1 .. Len(code.free_regs) : code.free_regs[i] = r

(* Statements and expressions that open no register scope: no command, no  *)
(* else, no ternary, no array element.                                     *)
FlatOver(stmts, exprs) ==
    /\ \A s \in stmts : s.k # "command" /\ (s.k = "if" => s.orelse = <<>>)
    /\ \A e \in exprs : e.k # "ternary" /\ (e.k \in {"assign", "incr"} => e.p.k \notin Indexed)

Flat == FlatOver(Stmts, Exprs)

(* Statements and expressions that pass no arguments: no command and no    *)
(* array element.  Elses and ternaries open their scopes.                  *)
WindowlessOver(stmts, exprs) ==
    /\ \A s \in stmts : s.k # "command"
    /\ \A e \in exprs : e.k \in {"assign", "incr"} => e.p.k \notin Indexed

Windowless == WindowlessOver(Stmts, Exprs)

(* The free list is one way to keep the promise of Pool: who asks gets a   *)
(* register nobody holds, and a fresh one only when all others are held.   *)
Held == [i \in {j \in 1 .. Len(locals) : Owned(j)} |-> locals[i].mi.n]

RegisterPool == INSTANCE Pool WITH Size <- U8 - 1, held <- Held, top <- code.reg_pointer

ImplementsPool == RegisterPool!Spec

(* The register file the interpreter allocates, reg_pointer.max(1) (vm.rs  *)
(* line 64), holds every register the finished bytecode names and every    *)
(* range of registers it slices, the empty ones included.                  *)
RegistersFit ==
    LET size == IF code.reg_pointer = 0 THEN 1 ELSE code.reg_pointer
    IN  status = "lowered" =>
            \A i \in 1 .. Len(code.bc) :
                /\ code.bc[i].lo <= code.bc[i].hi /\ code.bc[i].hi <= size
                /\ \A r \in RegistersOf(code.bc[i]) : r < size

(* A call's argument registers are the call's alone until it is emitted:   *)
(* no frame above it owns one and alloc_reg cannot give one away.  Like    *)
(* OwnersDistinct it is lost once a scope leaves a register above its      *)
(* pointer on the free list.                                               *)
WindowIsPrivate ==
    \A t \in 1 .. Len(control) : control[t].k = "CallEnd" =>
        LET w == control[t].instr.lo .. control[t].instr.hi - 1
        IN  /\ \A i \in 1 .. Len(locals) : Owned(i) => locals[i].mi.n \notin w
            /\ \A i \in 1 .. Len(code.free_regs) : code.free_regs[i] \notin w
            /\ \A r \in w : r < code.reg_pointer

(* A scope that ends cuts the free list to the length it had when it began *)
(* and sets the pointer back (RegsState::scope): what is left of the list  *)
(* is the list it had, unless the code in the scope gave back registers in *)
(* another order than it took them.                                        *)
ScopesClose ==
    status = "lowering" /\ control # <<>> /\ Top.k \in {"CallEnd", "TernaryThen"} =>
        \A i \in 1 .. Len(code.free_regs) :
            i <= Top.st.n_free_regs => code.free_regs[i] < Top.st.reg_pointer

(* As long as every scope leaves the free list below its pointer, no two   *)
(* owners ever share a register, through the list, the pointer or a        *)
(* window: this is the only way an owner loses its register.               *)
ScopesKeepRegisters == []ScopesClose => [](OwnersDistinct /\ FreeListSound /\ WindowIsPrivate)

(* A lowering that finishes has consumed every operand it made: no         *)
(* LinearReg is dropped by the return of its owner.                        *)
OperandsConsumed == status = "lowered" => locals = <<>>

-----------------------------------------------------------------------------
(* Properties: labels. *)

NoWrap == Len(code.bc) < U16

(* The labels still to be patched by the pending tasks. *)
PatchesOf(t) ==
    CASE t.k = "ThenEnd" -> {t.branch}
      [] t.k = "ElseEnd" -> {t.jump}
      [] t.k = "LoopEnd" -> {t.branch[i] : i \in 1 .. Len(t.branch)}
      [] t.k = "TernaryThen" -> {t.branch}
      [] t.k = "TernaryElse" -> {t.branch, t.jump}
      [] OTHER -> {}

(* Every label a pending task will patch is that of a Jump or Branch: the  *)
(* debug assertion `Incorrect label set!` (ir.rs:116 and 124) never fires. *)
LabelsSetOnJumps ==
    \A t \in 1 .. Len(control) : \A l \in PatchesOf(control[t]) :
        /\ l < Len(code.bc) /\ code.bc[l+1].op \in Patchable
        /\ control[t].k = "ThenEnd" => code.bc[l+1].op = "Branch"

(* While the bytecode is within the labels' width, the assertion holds.    *)
PatchesAreJumps == NoWrap => LabelsSetOnJumps

(* No jump is left unpatched or leads backward by mistake: the exit of a   *)
(* Branch lies after it, except while a pending task is still to set it.   *)
BranchesExitForward ==
    NoWrap => \A i \in 1 .. Len(code.bc) :
                 code.bc[i].op = "Branch" =>
                    \/ code.bc[i].to >= i
                    \/ \E t \in 1 .. Len(control) : i - 1 \in PatchesOf(control[t])

(* Every label names an instruction or the end of the bytecode once the    *)
(* bytecode is finished.                                                   *)
LabelsInCode ==
    NoWrap /\ status = "lowered" =>
        \A i \in 1 .. Len(code.bc) :
            code.bc[i].op \in Patchable =>
                code.bc[i].to <= Len(code.bc) /\ code.bc[i].on <= Len(code.bc)

Unlabelled(x) == [x EXCEPT !.on = 0, !.to = 0]
Keeps(s, t) == Len(s) <= Len(t) /\ \A i \in 1 .. Len(s) : t[i] = s[i]
GrowsInto(c, d) ==
    /\ Len(c.bc) <= Len(d.bc)
    /\ \A i \in 1 .. Len(c.bc) : Unlabelled(d.bc[i]) = Unlabelled(c.bc[i])
    /\ Keeps(c.user, d.user)
    /\ Keeps(c.consts, d.consts)

(* An emitted instruction changes in its labels only, and is never taken   *)
(* back; identifiers and constants keep the index they were given, which   *)
(* instructions already name.                                              *)
EmittedIsFinal == [][GrowsInto(code, code')]_code

(* Every user variable or constant an instruction names is in the table    *)
(* the interpreter indexes with unwrap (vm.rs:88, 133, 203).               *)
IndexBound(x) == CASE x.k = "ImmCnt" -> Len(code.consts)
                   [] x.k = "ImmUserVar" -> Len(code.user)
                   [] OTHER -> x.n + 1

IndicesInterned ==
    \A i \in 1 .. Len(code.bc) :
        LET x == code.bc[i]
        IN  /\ x.a.n < IndexBound(x.a) /\ x.b.n < IndexBound(x.b)
            /\ x.op = "LoadConst" => x.mem < Len(code.consts)
            /\ x.op \in {"LoadUserScalar", "StoreUserScalar", "LoadUserArray", "StoreUserArray"}
                  => x.mem < Len(code.user)
=============================================================================
