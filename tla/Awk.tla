--------------------------------- MODULE Awk --------------------------------
(***************************************************************************)
(* The program: main.rs and utils.rs around the lowering and the           *)
(* interpreter.  The parser's answer is an input: an error, an AST whose   *)
(* first rule has no action, the first rule's body (program), a panic (an  *)
(* @include, see Rules), or no parse at all because the command line is    *)
(* not understood.  Standard output is open, full (every write fails) or a *)
(* closed pipe; reports go to standard error, which takes them.            *)
(*                                                                         *)
(* A release build aborts on panic behind a hook that exits first; a debug *)
(* build unwinds to catch_unwind and runs the destructor of every LinearReg*)
(* it passes, whose assertion panics again: the process aborts.            *)
(***************************************************************************)
EXTENDS Lowering

CONSTANTS ValueOf(_),       \* see Vm
          PanicUnwinds,     \* FALSE in the release profile (panic = "abort")
          DebugAssertions,  \* FALSE in the release profile
          Answers,          \* what the parser may answer
          Stdouts           \* what standard output may be

ASSUME BuildAssumption == PanicUnwinds \in BOOLEAN /\ DebugAssertions \in BOOLEAN
ASSUME InputAssumption == /\ Answers \subseteq {"usage", "error", "panic", "noaction", "rule"}
                          /\ Stdouts \subseteq {"open", "full", "closed"}

VARIABLES pc, registers, user, out, run,   \* the interpreter, see Vm
          parsed,    \* the parser's answer, one of Answers
          stdout,    \* "open", "full" or "closed"
          stage,     \* where uu_main is
          exit       \* exit status; NotExited before, Aborted when killed

VM == INSTANCE Vm

vmvars  == <<pc, registers, user, out, run>>
env     == <<parsed, stdout>>
awkvars == <<vars, vmvars, env, stage, exit>>

NotExited == -1
Aborted   == 134
AWK_PANIC_CODE == 2

AwkInit ==
    /\ Init /\ VM!VmInit
    /\ parsed \in Answers
    /\ stdout \in Stdouts
    /\ stage = "parse" /\ exit = NotExited

-----------------------------------------------------------------------------
Exit(code_) == stage' = "exited" /\ exit' = code_
Stay == stage' = stage /\ exit' = exit
Goto(s) == stage' = s /\ exit' = exit

(* Args::try_parse_from fails: exit_err. *)
Usage ==
    /\ stage = "parse" /\ parsed = "usage"
    /\ Exit(1)
    /\ UNCHANGED <<vars, vmvars, env>>

(* A parse error is reported and uu_main returns Ok. *)
Parse ==
    /\ stage = "parse" /\ parsed \notin {"usage", "panic"}
    /\ IF parsed = "error" THEN Exit(0) ELSE Goto("write_ast")
    /\ UNCHANGED <<vars, vmvars, env>>

(* Mutant: the result of writing the AST is dropped. *)
WriteAstUnchecked ==
    /\ stage = "write_ast"
    /\ IF parsed = "rule" THEN Goto("lower") ELSE Exit(0)
    /\ UNCHANGED <<vars, vmvars, env>>

(* The AST and the final dump are written with writeln!: an error other    *)
(* than a broken pipe exits at once.                                       *)
WriteAst ==
    /\ stage = "write_ast"
    /\ IF stdout = "full" THEN Exit(1)
       ELSE IF parsed = "rule" THEN Goto("lower") ELSE Exit(0)
    /\ UNCHANGED <<vars, vmvars, env>>

(* test_interpreter: lower_body, then the interpreter. *)
Lower ==
    /\ stage = "lower" /\ status = "lowering"
    /\ Next /\ Stay /\ UNCHANGED <<vmvars, env>>

StartVm ==
    /\ stage = "lower" /\ status = "lowered"
    /\ VM!Start /\ Goto("run") /\ UNCHANGED <<vars, env>>

RunVm ==
    /\ stage = "run"
    /\ VM!VmStep /\ Stay /\ UNCHANGED <<vars, env>>

(* Mutant: the result of writing the dump is dropped. *)
WriteDumpUnchecked ==
    /\ stage = "run" /\ run = "halted"
    /\ Exit(0)
    /\ UNCHANGED <<vars, vmvars, env>>

WriteDump ==
    /\ stage = "run" /\ run = "halted"
    /\ IF stdout = "full" THEN Exit(1) ELSE Exit(0)
    /\ UNCHANGED <<vars, vmvars, env>>

(* ensure_consistent_panic.  The lowering's frames hold LinearRegs; the    *)
(* interpreter's hold none.                                                *)
HoldsRegister == status = "panic" /\ \E i \in 1 .. Len(locals) : Owned(i)

Panicking == \/ stage = "parse" /\ parsed = "panic"
             \/ stage = "lower" /\ status = "panic"
             \/ stage = "run" /\ run = "panic"

(* Mutants: the panic is not caught, the runtime exits with its own code;  *)
(* the panic is reported as an ordinary error.                             *)
CatchPanicDefault ==
    /\ Panicking
    /\ Exit(101)
    /\ UNCHANGED <<vars, vmvars, env>>

CatchPanicFailure ==
    /\ Panicking
    /\ Exit(1)
    /\ UNCHANGED <<vars, vmvars, env>>

CatchPanic ==
    /\ Panicking
    /\ IF PanicUnwinds /\ DebugAssertions /\ HoldsRegister THEN Exit(Aborted)
                                                           ELSE Exit(AWK_PANIC_CODE)
    /\ UNCHANGED <<vars, vmvars, env>>

uu_main == Usage \/ Parse \/ WriteAst \/ Lower \/ StartVm \/ RunVm \/ WriteDump \/ CatchPanic

(* The environment: the device fills or the reader of the pipe goes away.  *)
StdoutFails ==
    /\ stdout = "open" /\ exit = NotExited
    /\ stdout' \in Stdouts \ {"open"}
    /\ UNCHANGED <<vars, vmvars, parsed, stage, exit>>

AwkNext == uu_main \/ StdoutFails

AwkSpec == AwkInit /\ [][AwkNext]_awkvars /\ WF_awkvars(uu_main)

-----------------------------------------------------------------------------
(* Properties. *)

Panicked == parsed = "panic" \/ status = "panic" \/ run = "panic"

AwkTypeOK ==
    /\ TypeOK
    /\ pc \in Nat
    /\ run \in {"idle", "running", "halted", "panic"}
    /\ stage \in {"parse", "write_ast", "lower", "run", "exited"}
    /\ exit \in {NotExited, 0, 1, AWK_PANIC_CODE, Aborted}

(* The exit status is 2 exactly when the process panicked ("Ensures exit   *)
(* code 2 on panics", utils.rs:46); a write error alone gives 1.           *)
PanicExitsTwo == exit # NotExited => (exit = AWK_PANIC_CODE <=> Panicked)

(* A program that parsed and ends with status 0 has had its output taken:  *)
(* a write error met on the way is never reported as success.              *)
NoSilentWriteError == exit = 0 /\ parsed # "error" => stdout # "full"

(* The interpreter never indexes a register, constant or variable that     *)
(* does not exist: it panics only on what is not implemented and on a      *)
(* division by zero.                                                       *)
Unimplemented(i) ==
    \/ i.op \notin VM!Unaries \cup VM!Binaries \cup
                   {"LoadUserScalar", "LoadConst", "StoreUserScalar", "OutputCall", "Branch", "Jump"}
    \/ i.op = "OutputCall" /\ (i.out # "print" \/ i.redir)
    \/ \E x \in {i.a, i.b} : x.k \in {"Rec", "ImmBuiltinVar"}

OperandsExist ==
    run = "panic" =>
        \/ Unimplemented(VM!Instr)
        \/ VM!DivisionPanics(VM!Instr.op, VM!Value(VM!Instr.a), VM!Value(VM!Instr.b))

(* With a full device as standard output a program that parses exits with  *)
(* status 1 and does not panic (write_to_dev_full_does_not_panic,          *)
(* test_awk.rs:25-49).                                                     *)
FullDeviceExitsOne ==
    (stage = "parse" /\ stdout = "full" /\ parsed \in {"noaction", "rule"}) ~> (exit = 1)

(* The program ends: every run of uu_main reaches exit. *)
Exits == <>(exit # NotExited)
=============================================================================
