-------------------------------- MODULE Code --------------------------------
(***************************************************************************)
(* The structure the lowering writes: struct Code of ir/lower.rs with the  *)
(* instructions and immediates of ir.rs.  A method of Code, Bytecode,      *)
(* RegsState or SymbolTable is an operator from Code records to Code       *)
(* records; the lowering (module Lowering) composes them in the order of   *)
(* the calls.                                                              *)
(*                                                                         *)
(* Integer widths are parameters: a register number, the register pointer  *)
(* and an immediate index are u8 (0 .. U8-1), a label and a NonLocal are   *)
(* u16 (0 .. U16-1).  Arithmetic on labels wraps as it does in a release   *)
(* build; the register pointer is checked (module Lowering, Panics).       *)
(***************************************************************************)
EXTENDS Integers, Sequences

CONSTANTS U8,       \* 2^8 in the code: registers and immediates
          U16,      \* 2^16 in the code: labels and NonLocals
          Idents,   \* identifiers of user variables
          Consts,   \* constant values: numbers, strings, regexes
          LooseEq   \* pairs of different constants that `==` of Value equates

ASSUME WidthAssumption == U8 \in Nat \ {0} /\ U16 \in Nat \ {0}
ASSUME LooseEqAssumption == LooseEq \subseteq Consts \X Consts

-----------------------------------------------------------------------------
(* MaybeImm: the operand of an instruction. *)

ImmKinds == {"Reg", "Rec", "Imm", "ImmCnt", "ImmUserVar", "ImmBuiltinVar"}
MaybeImm == [k : ImmKinds, n : Int]

Imm(n) == [k |-> "Imm", n |-> n]
Reg(r) == [k |-> "Reg", n |-> r]

(* Opcodes: an instruction computes with one or two operands, moves a      *)
(* value between a register and the memory of variables, arrays and        *)
(* constants, or transfers control.                                        *)
ArithOps  == {"Add", "Subtract", "Multiply", "Divide", "Raise", "Modulo"}
UnaryOps  == {"Record", "Negation", "ToInt", "Negative"}
BinaryOps == ArithOps \cup {"Concat", "Eq", "NEq", "Gt", "Lt", "LtE", "GtE",
                            "And", "Or", "Matches", "MatchesNot"}
ArrayLoads  == {"LoadUserArray", "LoadBuiltinArray"}
ArrayStores == {"StoreUserArray", "StoreBuiltinArray"}
MemoryOps == {"LoadConst", "LoadUserScalar", "LoadBuiltinScalar",
              "StoreUserScalar", "StoreBuiltinScalar"} \cup ArrayLoads \cup ArrayStores
Patchable == {"Jump", "Branch"}
Opcodes == {"Copy", "StoreRecord", "OutputCall"} \cup UnaryOps \cup BinaryOps
           \cup MemoryOps \cup Patchable
Commands == {"print", "printf"}

(* Instruction.  One record shape for every variant: dest and the operands *)
(* a, b; the register range lo .. hi-1 of MemArgRange and OutputCallArgs;  *)
(* mem for a NonLocal; for a Branch on is the label taken when true and to *)
(* the label taken when false; for a Jump to is its label.  out is the     *)
(* command of an OutputCall and redir whether it is redirected.            *)
Instruction ==
    [op : Opcodes, dest : Nat, a : MaybeImm, b : MaybeImm, lo : Nat, hi : Nat,
     mem : Nat, on : Nat, to : Nat, out : Commands \cup {"none"}, redir : BOOLEAN]

Blank == [op |-> "Copy", dest |-> 0, a |-> Imm(0), b |-> Imm(0), lo |-> 0, hi |-> 0,
          mem |-> 0, on |-> 0, to |-> 0, out |-> "none", redir |-> FALSE]

Unary(op, dest, a)      == [Blank EXCEPT !.op = op, !.dest = dest, !.a = a]
Binary(op, dest, a, b)  == [Blank EXCEPT !.op = op, !.dest = dest, !.a = a, !.b = b]
Load(op, dest, mem)     == [Blank EXCEPT !.op = op, !.dest = dest, !.mem = mem]
Store(op, dest, a, mem) == [Blank EXCEPT !.op = op, !.dest = dest, !.a = a, !.mem = mem]
Jump(to)                == [Blank EXCEPT !.op = "Jump", !.to = to]
Branch(a, on, to)       == [Blank EXCEPT !.op = "Branch", !.a = a, !.on = on, !.to = to]
Output(out, redir)      == [Blank EXCEPT !.op = "OutputCall", !.out = out, !.redir = redir]

(* The registers an instruction names, as dest, as operand or in its range. *)
RegistersOf(i) ==
    (IF i.op \in Patchable \cup {"OutputCall"} THEN {} ELSE {i.dest})
    \cup {x.n : x \in {y \in {i.a, i.b} : y.k = "Reg"}}
    \cup i.lo .. (i.hi - 1)

-----------------------------------------------------------------------------
(* struct Code. *)

CodeType == [bc : Seq(Instruction), consts : Seq(Consts), user : Seq(Idents),
             free_regs : Seq(0 .. U8-1), reg_pointer : 0 .. U8-1]

EmptyCode == [bc |-> <<>>, consts |-> <<>>, user |-> <<>>,
              free_regs |-> <<>>, reg_pointer |-> 0]

(* Bytecode::emit: the instruction goes last; its label is the index,      *)
(* truncated to u16.                                                       *)
Emit(c, i) == [c EXCEPT !.bc = Append(@, i)]
(* Mutant: the length after the push is not taken back by one. *)
EmitLabelAfter(c) == (Len(c.bc) + 1) % U16

EmitLabel(c) == Len(c.bc) % U16

(* Code::following_instr. *)
(* Mutant: one instruction too far. *)
FollowingInstrAfter(c, nth) == (Len(c.bc) + nth + 1) % U16

FollowingInstr(c, nth) == (Len(c.bc) + nth) % U16

(* self.bc.nth(l).set_label(to) and push_start_label: what they assert     *)
(* about the instruction is debug-only, a release build leaves any other   *)
(* instruction alone.                                                      *)
(* Mutant: a branch is overwritten by a jump. *)
SetLabelJump(c, l, to) ==
    IF c.bc[l+1].op \in Patchable THEN [c EXCEPT !.bc[l+1] = Jump(to)] ELSE c

SetLabel(c, l, to) ==
    IF c.bc[l+1].op \in Patchable THEN [c EXCEPT !.bc[l+1].to = to] ELSE c

PushStartLabel(c, l) ==
    IF c.bc[l+1].op = "Branch" THEN [c EXCEPT !.bc[l+1].on = (@ + 1) % U16] ELSE c

-----------------------------------------------------------------------------
(* Registers.  free_regs is a stack with its top at the end. *)

Take(s, n) == [i \in 1 .. (IF n < Len(s) THEN n ELSE Len(s)) |-> s[i]]

(* Mutant: the pointer may reach 2^8. *)
CanAllocInclusive(c) == c.free_regs # <<>> \/ c.reg_pointer + 1 <= U8

CanAlloc(c) == c.free_regs # <<>> \/ c.reg_pointer + 1 < U8

(* Mutant: the pointer is read after it was advanced. *)
NextRegAdvanced(c) == IF c.free_regs # <<>> THEN c.free_regs[Len(c.free_regs)]
                                            ELSE c.reg_pointer + 1

NextReg(c) == IF c.free_regs # <<>> THEN c.free_regs[Len(c.free_regs)]
                                    ELSE c.reg_pointer

(* Mutant: the free list is read but not popped. *)
AllocRegUnpopped(c) == IF c.free_regs # <<>> THEN c ELSE [c EXCEPT !.reg_pointer = @ + 1]

AllocReg(c) == IF c.free_regs # <<>>
               THEN [c EXCEPT !.free_regs = Take(@, Len(@) - 1)]
               ELSE [c EXCEPT !.reg_pointer = @ + 1]

FreeReg(c, r) == [c EXCEPT !.free_regs = Append(@, r)]

(* RegsState::new, scope and scope_hwm: what they do when the closure has  *)
(* returned.  scope hands the pointer it found back in the state.          *)
RegsState == [reg_pointer : 0 .. U8-1, n_free_regs : Nat]

SaveRegs(c) == [reg_pointer |-> c.reg_pointer, n_free_regs |-> Len(c.free_regs)]

ScopeEnd(st, c) == [c EXCEPT !.reg_pointer = st.reg_pointer,
                             !.free_regs = Take(@, st.n_free_regs)]

AfterScope(st, c) == [st EXCEPT !.reg_pointer = c.reg_pointer]

ScopeHwmEnd(st, c) ==
    [c EXCEPT !.reg_pointer = IF @ < st.reg_pointer THEN st.reg_pointer ELSE @,
              !.free_regs = Take(@, st.n_free_regs)]

-----------------------------------------------------------------------------
(* Interning. *)

(* SymbolTable::register_user_var: an index map, so a known identifier     *)
(* keeps its index and a new one is appended.                              *)
Known(c, id) == \E i \in 1 .. Len(c.user) : c.user[i] = id

RegisterUserVar(c, id) == IF Known(c, id) THEN c ELSE [c EXCEPT !.user = Append(@, id)]

(* Mutant: the length of the table, not the place in it. *)
UserIndexLast(c, id) == Len(c.user) % U16

UserIndex(c, id) == ((CHOOSE i \in 1 .. Len(c.user) : c.user[i] = id) - 1) % U16

(* Code::register_const inserts into a hash set whose `==` equates more    *)
(* values than its Hash does: a constant that is only loosely equal to an  *)
(* entry is found or not found, as the hash tags fall.  ConstSlots is the  *)
(* set of places (1-based) where the insertion may say the constant is.    *)
ConstSlots(c, v) ==
    LET found == {i \in 1 .. Len(c.consts) :
                     c.consts[i] = v \/ <<c.consts[i], v>> \in LooseEq}
    IN  IF \E i \in 1 .. Len(c.consts) : c.consts[i] = v
        THEN found ELSE found \cup {Len(c.consts) + 1}

RegisterConst(c, v, slot) ==
    IF slot <= Len(c.consts) THEN c ELSE [c EXCEPT !.consts = Append(@, v)]

(* MaybeImm::from_vs, from_is, from_cnt: an index that fits u8 is an       *)
(* immediate, another is loaded into dest.                                 *)
ImmOrLoad(c, k, n, load, dest) ==
    IF n < U8 THEN [code |-> c, mi |-> [k |-> k, n |-> n]]
              ELSE [code |-> Emit(c, Load(load, dest, n)), mi |-> Reg(dest)]
=============================================================================
