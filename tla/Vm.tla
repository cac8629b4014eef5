--------------------------------- MODULE Vm ---------------------------------
(***************************************************************************)
(* The interpreter of the bytecode: interpreter/src/vm.rs.  code is the    *)
(* struct Code the interpreter is given (Interpreter::new moves it); run   *)
(* then executes one instruction per step.  A panic (todo!(), unwrap() of  *)
(* None, an index out of bounds, an assert) ends the run with run =        *)
(* "panic".                                                                *)
(***************************************************************************)
EXTENDS Code, Values

CONSTANT ValueOf(_)   \* the value of a constant of Consts

VARIABLES code,       \* the bytecode, constants and symbols to run
          pc,         \* program_counter
          registers,  \* Registers
          user,       \* the values of the user variables, by index
          out,        \* what was written to standard output, in pieces
          run         \* "idle", "running", "halted" or "panic"

vmvars == <<pc, registers, user, out, run>>

(* The pieces of output: a separator or the text of a value. *)
OFS == [sep |-> "ofs"]
RFS == [sep |-> "rfs"]
Piece(v) == [text |-> Display(v)]

VmInit ==
    /\ pc = 0
    /\ registers = <<>> /\ user = <<>> /\ out = <<>>
    /\ run = "idle"

(* Interpreter::new *)
FileSize == IF code.reg_pointer = 0 THEN 1 ELSE code.reg_pointer

Start ==
    /\ run = "idle"
    /\ registers' = [r \in 1 .. FileSize |-> Untyped]
    /\ user' = [i \in 1 .. Len(code.user) |-> Untyped]
    /\ run' = "running"
    /\ UNCHANGED <<pc, out>>

-----------------------------------------------------------------------------
(* Operands: what rx! reads.  Reading a variable puts it in scalar context.*)

Readable(x) == CASE x.k = "Reg" -> x.n < Len(registers)
                 [] x.k = "Imm" -> TRUE
                 [] x.k = "ImmCnt" -> x.n < Len(code.consts)
                 [] x.k = "ImmUserVar" -> x.n < Len(user)
                 [] OTHER -> FALSE                      \* todo!()

Value(x) == CASE x.k = "Reg" -> registers[x.n + 1]
              [] x.k = "Imm" -> Int_(x.n)
              [] x.k = "ImmCnt" -> ValueOf(code.consts[x.n + 1])
              [] x.k = "ImmUserVar" -> ScalarContext(user[x.n + 1])

InScalarContext(xs) ==
    [i \in 1 .. Len(user) |->
        IF \E x \in xs : x.k = "ImmUserVar" /\ x.n = i - 1 THEN ScalarContext(user[i]) ELSE user[i]]

-----------------------------------------------------------------------------
Unaries == {"Negation", "ToInt", "Negative", "Copy"}
Binaries == {"Add", "Subtract", "Multiply", "Divide", "Modulo", "Raise", "Concat",
             "Eq", "NEq", "Gt", "Lt", "LtE", "GtE"}

Instr == code.bc[pc + 1]
Running == run = "running" /\ pc < Len(code.bc)
HasRegister(r) == r < Len(registers)

(* Instructions that reach a panic: the todo!() arms, and operands or      *)
(* destinations that do not exist.                                         *)
Faults(i) ==
    CASE i.op \in Unaries -> ~Readable(i.a) \/ ~HasRegister(i.dest)
      [] i.op \in Binaries ->
            \/ ~Readable(i.a) \/ ~Readable(i.b) \/ ~HasRegister(i.dest)
            \/ DivisionPanics(i.op, Value(i.a), Value(i.b))
      [] i.op = "LoadUserScalar" -> i.mem >= Len(user) \/ ~HasRegister(i.dest)
      [] i.op = "LoadConst" -> i.mem >= Len(code.consts) \/ ~HasRegister(i.dest)
      [] i.op = "StoreUserScalar" ->
            ~Readable(i.a) \/ i.mem >= Len(user) \/ ~HasRegister(i.dest)
      [] i.op = "OutputCall" ->
            i.out # "print" \/ i.redir \/ i.lo > i.hi \/ i.hi > Len(registers)
      [] i.op = "Branch" -> ~Readable(i.a)
      [] i.op = "Jump" -> FALSE
      [] OTHER -> TRUE

Execute(ops) == Running /\ Instr.op \in ops /\ ~Faults(Instr)

Write(dest, v) == registers' = [registers EXCEPT ![dest + 1] = v]

Advance == pc' = pc + 1 /\ run' = run

ExecUnary ==
    /\ Execute(Unaries) /\ Advance
    /\ Write(Instr.dest, UnaryValue(Instr.op, Value(Instr.a)))
    /\ user' = InScalarContext({Instr.a})
    /\ UNCHANGED out

ExecBinary ==
    /\ Execute(Binaries) /\ Advance
    /\ Write(Instr.dest, BinaryValue(Instr.op, Value(Instr.a), Value(Instr.b)))
    /\ user' = InScalarContext({Instr.a, Instr.b})
    /\ UNCHANGED out

ExecLoadUser ==
    /\ Execute({"LoadUserScalar"}) /\ Advance
    /\ Write(Instr.dest, ScalarContext(user[Instr.mem + 1]))
    /\ user' = [user EXCEPT ![Instr.mem + 1] = ScalarContext(@)]
    /\ UNCHANGED out

ExecLoadConst ==
    /\ Execute({"LoadConst"}) /\ Advance
    /\ Write(Instr.dest, ValueOf(code.consts[Instr.mem + 1]))
    /\ UNCHANGED <<user, out>>

ExecStore ==
    /\ Execute({"StoreUserScalar"}) /\ Advance
    /\ Write(Instr.dest, Value(Instr.a))
    /\ user' = [InScalarContext({Instr.a}) EXCEPT ![Instr.mem + 1] = Value(Instr.a)]
    /\ UNCHANGED out

(* Mutant: the range is taken without its last register. *)
PrintedShort(i) ==
    IF i.lo = i.hi THEN <<Piece(Unassigned)>>
    ELSE [n \in 1 .. 2 * (i.hi - i.lo) - 2 |->
            IF n % 2 = 1 THEN OFS ELSE Piece(registers[i.lo + n \div 2])]

(* intrinsic_print: with no argument the record, which nothing has set;    *)
(* else each argument behind the output field separator.                   *)
Printed(i) ==
    IF i.lo = i.hi THEN <<Piece(Unassigned)>>
    ELSE [n \in 1 .. 2 * (i.hi - i.lo) |->
            IF n % 2 = 1 THEN OFS ELSE Piece(registers[i.lo + n \div 2])]

ExecPrint ==
    /\ Execute({"OutputCall"}) /\ Advance
    /\ out' = out \o Printed(Instr) \o <<RFS>>
    /\ UNCHANGED <<registers, user>>

ExecJump ==
    /\ Execute({"Jump"})
    /\ pc' = Instr.to
    /\ UNCHANGED <<registers, user, out, run>>

ExecBranch ==
    /\ Execute({"Branch"})
    /\ pc' = IF ToBool(Value(Instr.a)) THEN Instr.on ELSE Instr.to
    /\ user' = InScalarContext({Instr.a})
    /\ UNCHANGED <<registers, out, run>>

Fault ==
    /\ Running /\ Faults(Instr)
    /\ run' = "panic"
    /\ UNCHANGED <<pc, registers, user, out>>

Halt ==
    /\ run = "running" /\ pc >= Len(code.bc)
    /\ run' = "halted"
    /\ UNCHANGED <<pc, registers, user, out>>

VmStep == \/ ExecUnary \/ ExecBinary \/ ExecLoadUser \/ ExecLoadConst \/ ExecStore
          \/ ExecPrint \/ ExecJump \/ ExecBranch \/ Fault \/ Halt
=============================================================================
