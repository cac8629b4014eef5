----------------------------- MODULE AwkProofs ------------------------------
(***************************************************************************)
(* The process of Awk: its types, its exit status and its writes, for      *)
(* every program, every width, every behaviour of standard output.         *)
(***************************************************************************)
EXTENDS Awk, IndexProofs

-----------------------------------------------------------------------------
(* Types. *)

VmTypes == pc \in Nat /\ run \in {"idle", "running", "halted", "panic"}

(* A jump leads where a label of the code says, and labels are numbers.    *)
LEMMA VmStepTypes ==
    ASSUME TypeOK, VmTypes, VM!VmStep
    PROVE  VmTypes'
<1>1. ASSUME VM!Running PROVE VM!Instr.to \in Nat /\ VM!Instr.on \in Nat
  <2>1. code.bc \in Seq(Instruction) /\ pc + 1 \in 1 .. Len(code.bc)
    BY <1>1 DEF VM!Running, VmTypes, TypeOK, CodeType
  <2>2. VM!Instr \in Instruction
    BY <2>1, ElementOfSeq DEF VM!Instr
  <2> QED BY <2>2, WidthAssumption DEF Instruction
<1>2. CASE VM!ExecUnary \/ VM!ExecBinary \/ VM!ExecLoadUser \/ VM!ExecLoadConst
               \/ VM!ExecStore \/ VM!ExecPrint
  BY <1>2 DEF VM!ExecUnary, VM!ExecBinary, VM!ExecLoadUser, VM!ExecLoadConst, VM!ExecStore,
     VM!ExecPrint, VM!Advance, VmTypes
<1>3. CASE VM!ExecJump \/ VM!ExecBranch
  BY <1>1, <1>3 DEF VM!ExecJump, VM!ExecBranch, VM!Execute, VmTypes
<1>4. CASE VM!Fault \/ VM!Halt
  BY <1>4 DEF VM!Fault, VM!Halt, VmTypes
<1> QED BY <1>2, <1>3, <1>4 DEF VM!VmStep

StageTypes ==
    /\ stage \in {"parse", "write_ast", "lower", "run", "exited"}
    /\ exit \in {NotExited, 0, 1, AWK_PANIC_CODE, Aborted}

LEMMA AwkInitTypes == AwkInit => AwkTypeOK
<1>1. ASSUME AwkInit PROVE TypeOK
  BY <1>1, InitTypes DEF AwkInit
<1> QED BY <1>1 DEF AwkInit, AwkTypeOK, VM!VmInit

LEMMA AwkStepTypes == AwkTypeOK /\ [AwkNext]_awkvars => AwkTypeOK'
<1> SUFFICES ASSUME AwkTypeOK, [AwkNext]_awkvars PROVE AwkTypeOK'
  OBVIOUS
<1>0. TypeOK /\ VmTypes /\ StageTypes
  BY DEF AwkTypeOK, VmTypes, StageTypes
<1>1. SUFFICES TypeOK' /\ VmTypes' /\ StageTypes'
  BY <1>1 DEF AwkTypeOK, VmTypes, StageTypes
<1>2. CASE Lower
  <2>1. TypeOK'
    BY <1>0, <1>2, StepTypes DEF Lower
  <2> QED BY <1>0, <1>2, <2>1 DEF Lower, Stay, VmTypes, StageTypes, vmvars
<1>3. CASE RunVm
  <2>1. TypeOK'
    BY <1>0, <1>3, StepTypes DEF RunVm
  <2>2. VmTypes'
    BY <1>0, <1>3, VmStepTypes DEF RunVm
  <2> QED BY <1>0, <1>3, <2>1, <2>2 DEF RunVm, Stay, StageTypes
<1>4. CASE UNCHANGED vars /\ ~RunVm
  <2>1. TypeOK'
    BY <1>0, <1>4, StepTypes
  <2>2. VmTypes'
    BY <1>0, <1>4 DEF VmTypes, AwkNext, uu_main, Usage, Parse, WriteAst, Lower, StartVm, WriteDump,
       CatchPanic, Panicking, StdoutFails, awkvars, vmvars, VM!Start
  <2>3. StageTypes'
    BY <1>0, <1>4 DEF StageTypes, AwkNext, uu_main, Usage, Parse, WriteAst, Lower, StartVm, WriteDump,
       CatchPanic, Panicking, StdoutFails, awkvars, Exit, Goto, Stay, NotExited, Aborted, AWK_PANIC_CODE
  <2> QED BY <2>1, <2>2, <2>3
<1>5. Lower \/ RunVm \/ UNCHANGED vars
  BY DEF AwkNext, uu_main, Usage, Parse, WriteAst, StartVm, WriteDump, CatchPanic, Panicking, StdoutFails, awkvars
<1> QED BY <1>2, <1>3, <1>4, <1>5

(* For every program and every behaviour of standard output the process    *)
(* keeps its types: the lowering's (registers and labels fit), a program   *)
(* counter that is a number, a stage and one of the five exit statuses.    *)
THEOREM ProcessTypes == AwkSpec => []AwkTypeOK
<1> QED BY AwkInitTypes, AwkStepTypes, PTL DEF AwkSpec

-----------------------------------------------------------------------------
(* Exit status and writes.  What each stage knows of the lowering and the  *)
(* interpreter: neither has begun before the AST is written, only a parse  *)
(* that ended has an AST, and only a finished lowering is interpreted.     *)
StageKnows ==
    /\ stage \notin {"parse", "exited"} => parsed \notin {"usage", "panic"}
    /\ stage \in {"parse", "write_ast"} => status = "lowering" /\ run = "idle"
    /\ stage = "run" => status = "lowered"
    /\ stage = "exited" <=> exit # NotExited

WritesInv == StageKnows /\ NoSilentWriteError

LEMMA InitWrites == AwkInit => WritesInv
BY DEF AwkInit, Init, VM!VmInit, WritesInv, StageKnows, NoSilentWriteError, NotExited

LEMMA StepWrites == WritesInv /\ [AwkNext]_awkvars => WritesInv'
<1> SUFFICES ASSUME WritesInv, [AwkNext]_awkvars PROVE WritesInv'
  OBVIOUS
<1> USE DEF WritesInv, StageKnows, NoSilentWriteError, NotExited, Exit, Goto, Stay, vars, vmvars, env
<1>1. CASE Usage \/ Parse
  BY <1>1 DEF Usage, Parse
<1>2. CASE WriteAst
  BY <1>2 DEF WriteAst
<1>3. CASE Lower
  BY <1>3 DEF Lower
<1>4. CASE StartVm
  BY <1>4 DEF StartVm
<1>5. CASE RunVm
  BY <1>5 DEF RunVm
<1>6. CASE WriteDump
  BY <1>6 DEF WriteDump
<1>7. CASE CatchPanic
  BY <1>7 DEF CatchPanic, Panicking, Aborted, AWK_PANIC_CODE
<1>8. CASE StdoutFails
  BY <1>8 DEF StdoutFails
<1>9. CASE UNCHANGED awkvars
  BY <1>9 DEF awkvars
<1> QED BY <1>1, <1>2, <1>3, <1>4, <1>5, <1>6, <1>7, <1>8, <1>9 DEF AwkNext, uu_main

LEMMA WritesHold == AwkSpec => []WritesInv
<1> QED BY InitWrites, StepWrites, PTL DEF AwkSpec

(* No process whose program parsed exits with status 0 when a write        *)
(* failed, at whatever step standard output fills up, in any build.        *)
THEOREM WritesAreChecked == AwkSpec => []NoSilentWriteError
<1> QED BY WritesHold, PTL DEF WritesInv

(* A build that does not both unwind and check the destructors of          *)
(* LinearReg: with both, a panic may abort the process.                    *)
NoAbort == ~(PanicUnwinds /\ DebugAssertions)

LEMMA StepStatus ==
    ASSUME NoAbort, WritesInv, PanicExitsTwo, [AwkNext]_awkvars
    PROVE  PanicExitsTwo'
<1> USE DEF WritesInv, StageKnows, PanicExitsTwo, Panicked, NotExited, AWK_PANIC_CODE,
            Exit, Goto, Stay, vars, vmvars, env
<1>1. CASE Usage \/ Parse \/ WriteAst
  BY <1>1 DEF Usage, Parse, WriteAst
<1>2. CASE Lower \/ StartVm \/ RunVm
  BY <1>2 DEF Lower, StartVm, RunVm
<1>3. CASE WriteDump
  BY <1>3 DEF WriteDump
<1>4. CASE CatchPanic
  BY <1>4 DEF CatchPanic, Panicking, NoAbort
<1>5. CASE StdoutFails \/ UNCHANGED awkvars
  BY <1>5 DEF StdoutFails, awkvars
<1> QED BY <1>1, <1>2, <1>3, <1>4, <1>5 DEF AwkNext, uu_main

(* Every process of such a build that has exited has status 2 exactly when *)
(* its parser, lowering or interpreter panicked: ensure_consistent_panic   *)
(* catches every panic, and no write error or parse error is mistaken for  *)
(* one.                                                                    *)
THEOREM PanicStatus == ASSUME NoAbort PROVE AwkSpec => []PanicExitsTwo
<1>1. AwkInit => PanicExitsTwo
  BY DEF AwkInit, PanicExitsTwo
<1>2. WritesInv /\ PanicExitsTwo /\ [AwkNext]_awkvars => PanicExitsTwo'
  BY StepStatus
<1> QED BY <1>1, <1>2, WritesHold, PTL DEF AwkSpec

-----------------------------------------------------------------------------
(* Operands.  The interpreter is given a finished Code and makes room for  *)
(* what that Code names: a register per register of the file, a value per  *)
(* user variable.  What it then runs on was fixed by the lowering: no step *)
(* of the process changes the Code once the lowering has ended.            *)

RoomFor == /\ status = "lowered"
           /\ Stream(registers) /\ Len(registers) = VM!FileSize
           /\ Stream(user) /\ Len(user) = Len(code.user)

VmReady == run # "idle" => RoomFor

(* Storing to one place of a sequence leaves it as long as it was.         *)
LEMMA StreamPut ==
    ASSUME NEW s, Stream(s), NEW l, NEW x
    PROVE  Stream([s EXCEPT ![l] = x]) /\ Len([s EXCEPT ![l] = x]) = Len(s)
<1>1. PICK S : s \in Seq(S)
  BY DEF Stream
<1>2. [s EXCEPT ![l] = x] \in Seq(S \cup {x})
  <2>1. s \in Seq(S \cup {x}) /\ x \in S \cup {x}
    <3>1. S \subseteq S \cup {x}
      OBVIOUS
    <3>2. \A n \in 1 .. Len(s) : s[n] \in S \cup {x}
      BY <1>1, ElementOfSeq, <3>1
    <3>3. s = [n \in 1 .. Len(s) |-> s[n]] /\ Len(s) \in Nat
      BY <1>1
    <3>4. [n \in 1 .. Len(s) |-> s[n]] \in Seq(S \cup {x})
      BY <3>2, <3>3, IsASeq
    <3> QED BY <3>3, <3>4
  <2>2. CASE l \in 1 .. Len(s)
    BY <2>1, <2>2, ExceptSeq
  <2>3. CASE l \notin 1 .. Len(s)
    <3>1. [s EXCEPT ![l] = x] = s
      BY <1>1, <2>3
    <3> QED BY <2>1, <3>1
  <2> QED BY <2>2, <2>3
<1>3. DOMAIN [s EXCEPT ![l] = x] = DOMAIN s
  OBVIOUS
<1>4. Len([s EXCEPT ![l] = x]) = Len(s)
  BY <1>1, <1>2, <1>3, LenProperties
<1> QED BY <1>2, <1>4 DEF Stream

(* Reading a variable in scalar context neither adds nor removes one.      *)
LEMMA ScalarKeeps ==
    ASSUME RoomFor, NEW xs
    PROVE  Stream(VM!InScalarContext(xs)) /\ Len(VM!InScalarContext(xs)) = Len(user)
<1> DEFINE f == VM!InScalarContext(xs)
           S == {f[n] : n \in 1 .. Len(user)}
<1>1. Len(user) \in Nat
  BY StreamLength DEF RoomFor
<1>2. f = [n \in 1 .. Len(user) |-> f[n]]
  BY DEF VM!InScalarContext
<1>3. \A n \in 1 .. Len(user) : f[n] \in S
  OBVIOUS
<1> HIDE DEF f, S
<1>4. [n \in 1 .. Len(user) |-> f[n]] \in Seq(S)
  BY <1>1, <1>3, IsASeq
<1>5. f \in Seq(S) /\ Len(f) = Len(user)
  <2>1. DOMAIN f = 1 .. Len(user)
    BY <1>2
  <2>2. f \in Seq(S)
    BY <1>2, <1>4
  <2> QED BY <1>1, <2>1, <2>2, LenProperties
<1>6. Stream(f) /\ Len(f) = Len(user)
  BY <1>5 DEF Stream
<1> QED BY <1>6 DEF f

(* Every step of the interpreter keeps the room it made.                   *)
LEMMA VmKeepsRoom ==
    ASSUME VmReady, VM!VmStep, UNCHANGED vars
    PROVE  VmReady'
<1>0. UNCHANGED <<code, status>>
  BY DEF vars
<1>1. RoomFor
  <2>1. run = "running"
    BY DEF VM!VmStep, VM!ExecUnary, VM!ExecBinary, VM!ExecLoadUser, VM!ExecLoadConst,
       VM!ExecStore, VM!ExecPrint, VM!ExecJump, VM!ExecBranch, VM!Fault, VM!Halt,
       VM!Execute, VM!Running
  <2> QED BY <2>1 DEF VmReady
<1>2. /\ Stream(registers) /\ Len(registers) = VM!FileSize /\ Stream(user)
      /\ Len(user) = Len(code.user) /\ status = "lowered"
  BY <1>1 DEF RoomFor
<1>3. \/ registers' = registers
      \/ \E d, v : registers' = [registers EXCEPT ![d] = v]
  BY DEF VM!VmStep, VM!ExecUnary, VM!ExecBinary, VM!ExecLoadUser, VM!ExecLoadConst,
     VM!ExecStore, VM!ExecPrint, VM!ExecJump, VM!ExecBranch, VM!Fault, VM!Halt, VM!Write
<1>4. Stream(registers') /\ Len(registers') = Len(registers)
  <2>1. CASE registers' = registers
    BY <1>2, <2>1
  <2>2. ASSUME NEW d, NEW v, registers' = [registers EXCEPT ![d] = v]
        PROVE  Stream(registers') /\ Len(registers') = Len(registers)
    <3>1. Stream([registers EXCEPT ![d] = v]) /\ Len([registers EXCEPT ![d] = v]) = Len(registers)
      BY <1>2, StreamPut
    <3> QED BY <2>2, <3>1
  <2> QED BY <1>3, <2>1, <2>2
<1>5. \/ user' = user
      \/ \E xs : user' = VM!InScalarContext(xs)
      \/ \E d, v : user' = [user EXCEPT ![d] = v]
      \/ \E xs, d, v : user' = [VM!InScalarContext(xs) EXCEPT ![d] = v]
  BY DEF VM!VmStep, VM!ExecUnary, VM!ExecBinary, VM!ExecLoadUser, VM!ExecLoadConst,
     VM!ExecStore, VM!ExecPrint, VM!ExecJump, VM!ExecBranch, VM!Fault, VM!Halt
<1>6. Stream(user') /\ Len(user') = Len(user)
  <2>1. CASE user' = user
    BY <1>2, <2>1
  <2>2. ASSUME NEW u, Stream(u), Len(u) = Len(user), NEW d, NEW v, user' = [u EXCEPT ![d] = v]
        PROVE  Stream(user') /\ Len(user') = Len(user)
    <3>1. Stream([u EXCEPT ![d] = v]) /\ Len([u EXCEPT ![d] = v]) = Len(u)
      BY <2>2, StreamPut
    <3> QED BY <2>2, <3>1
  <2>3. \A xs : Stream(VM!InScalarContext(xs)) /\ Len(VM!InScalarContext(xs)) = Len(user)
    BY <1>1, ScalarKeeps
  <2>4. CASE \E xs : user' = VM!InScalarContext(xs)
    BY <2>3, <2>4
  <2>5. CASE \E d, v : user' = [user EXCEPT ![d] = v]
    BY <1>2, <2>2, <2>5
  <2>6. CASE \E xs, d, v : user' = [VM!InScalarContext(xs) EXCEPT ![d] = v]
    BY <2>2, <2>3, <2>6
  <2> QED BY <1>5, <2>1, <2>4, <2>5, <2>6
<1>7. (VM!FileSize)' = VM!FileSize
  BY <1>0 DEF VM!FileSize
<1>8. RoomFor'
  BY <1>0, <1>2, <1>4, <1>6, <1>7 DEF RoomFor
<1> QED BY <1>8 DEF VmReady

(* The lowering is a part of the process: to it every other step is a      *)
(* stutter, so what its own steps keep holds in the whole process.         *)
LEMMA LoweringSteps == [AwkNext]_awkvars => [Next]_vars
BY DEF AwkNext, uu_main, Usage, Parse, WriteAst, Lower, StartVm, RunVm, WriteDump, CatchPanic,
   StdoutFails, awkvars

LEMMA ProcessIndices == AwkSpec => []IndicesInterned
<1>1. AwkInit => Init
  BY DEF AwkInit
<1>2. AwkTypeOK => TypeOK
  BY DEF AwkTypeOK
<1>3. IndexInv => IndicesInterned
  BY SoundIsInterned DEF IndexInv
<1>4. Init /\ TypeOK => IndexInv
  BY IndexInit
<1>5. TypeOK /\ IndexInv /\ [Next]_vars => IndexInv'
  BY IndexStep
<1> QED BY <1>1, <1>2, <1>3, <1>4, <1>5, LoweringSteps, ProcessTypes, PTL DEF AwkSpec

LEMMA ProcessFits == ASSUME Windowless PROVE AwkSpec => []RegistersFit
<1>1. AwkInit => Init
  BY DEF AwkInit
<1>2. AwkTypeOK => TypeOK
  BY DEF AwkTypeOK
<1>3. TypeOK /\ FileInv => RegistersFit
  BY FileFits
<1>4. Init /\ TypeOK => FileInv
  BY FileInit
<1>5. TypeOK /\ FileInv /\ [Next]_vars => FileInv'
  BY FileStep
<1> QED BY <1>1, <1>2, <1>3, <1>4, <1>5, LoweringSteps, ProcessTypes, PTL DEF AwkSpec

LEMMA ReadyStep ==
    ASSUME VmReady, [AwkNext]_awkvars, TypeOK
    PROVE  VmReady'
<1>1. CASE Lower
  <2>1. status = "lowering" /\ UNCHANGED run
    BY <1>1 DEF Lower, vmvars
  <2>2. run' = "idle"
    BY <2>1 DEF VmReady, RoomFor
  <2> QED BY <2>2 DEF VmReady
<1>2. CASE StartVm
  <2>1. status = "lowered" /\ UNCHANGED <<code, status>>
    BY <1>2 DEF StartVm, vars
  <2>2. VM!FileSize \in Nat /\ Len(code.user) \in Nat
    BY DEF VM!FileSize, TypeOK, CodeType
  <2>3. ASSUME NEW n \in Nat PROVE LET s == [i \in 1 .. n |-> VM!Untyped]
                                   IN  Stream(s) /\ Len(s) = n
    <3> DEFINE s == [i \in 1 .. n |-> VM!Untyped]
    <3>1. s \in Seq({VM!Untyped})
      BY <2>3, IsASeq
    <3>2. DOMAIN s = 1 .. n
      OBVIOUS
    <3>3. Len(s) = n
      BY <2>3, <3>1, <3>2, LenProperties
    <3> QED BY <3>1, <3>3 DEF Stream
  <2>4. registers' = [r \in 1 .. VM!FileSize |-> VM!Untyped]
        /\ user' = [i \in 1 .. Len(code.user) |-> VM!Untyped]
    BY <1>2 DEF StartVm, VM!Start
  <2>5. Stream(registers') /\ Len(registers') = VM!FileSize
    BY <2>2, <2>3, <2>4
  <2>6. Stream(user') /\ Len(user') = Len(code.user)
    BY <2>2, <2>3, <2>4
  <2>7. (VM!FileSize)' = VM!FileSize
    BY <2>1 DEF VM!FileSize
  <2> QED BY <2>1, <2>5, <2>6, <2>7 DEF VmReady, RoomFor
<1>3. CASE RunVm
  BY <1>3, VmKeepsRoom DEF RunVm, vars
<1>4. CASE UNCHANGED <<vars, vmvars>>
  <2>1. UNCHANGED <<code, status, registers, user, run>> /\ (VM!FileSize)' = VM!FileSize
    BY <1>4 DEF vars, vmvars, VM!FileSize
  <2> QED BY <2>1 DEF VmReady, RoomFor
<1>5. Lower \/ StartVm \/ RunVm \/ UNCHANGED <<vars, vmvars>>
  BY DEF AwkNext, uu_main, Usage, Parse, WriteAst, WriteDump, CatchPanic, Panicking, StdoutFails, awkvars
<1> QED BY <1>1, <1>2, <1>3, <1>4, <1>5

LEMMA ProcessReady == AwkSpec => []VmReady
<1>1. AwkInit => VmReady
  BY DEF AwkInit, VM!VmInit, VmReady
<1>2. AwkTypeOK /\ VmReady /\ [AwkNext]_awkvars => VmReady'
  BY ReadyStep DEF AwkTypeOK
<1> QED BY <1>1, <1>2, ProcessTypes, PTL DEF AwkSpec

(* What a finished lowering promises of an instruction the interpreter may *)
(* meet, in the interpreter's terms.                                       *)
LEMMA NothingMissing ==
    ASSUME AwkTypeOK, IndicesInterned, RegistersFit, RoomFor, NEW n \in 1 .. Len(code.bc)
    PROVE  LET i == code.bc[n]
           IN  /\ \A x \in {i.a, i.b} : x.k \in {"Reg", "Imm", "ImmCnt", "ImmUserVar"}
                                          => VM!Readable(x)
               /\ i.op \notin Patchable \cup {"OutputCall"} => VM!HasRegister(i.dest)
               /\ i.op = "LoadConst" => i.mem < Len(code.consts)
               /\ i.op \in {"LoadUserScalar", "StoreUserScalar"} => i.mem < Len(user)
               /\ i.lo <= i.hi /\ i.hi <= Len(registers)
<1> DEFINE i == code.bc[n]
           size == Len(registers)
<1>1. size = (IF code.reg_pointer = 0 THEN 1 ELSE code.reg_pointer) /\ status = "lowered"
      /\ Len(user) = Len(code.user)
  BY DEF RoomFor, VM!FileSize
<1>2. i.lo <= i.hi /\ i.hi <= size /\ \A r \in RegistersOf(i) : r < size
  BY <1>1 DEF RegistersFit
<1>3. /\ i.a.n < IndexBound(i.a) /\ i.b.n < IndexBound(i.b)
      /\ i.op = "LoadConst" => i.mem < Len(code.consts)
      /\ i.op \in {"LoadUserScalar", "StoreUserScalar"} => i.mem < Len(code.user)
  BY DEF IndicesInterned
<1> HIDE DEF i, size
<1>4. \A x \in {i.a, i.b} : x.k = "Reg" => x.n < size
  BY <1>2 DEF RegistersOf
<1>5. \A x \in {i.a, i.b} : /\ x.k = "ImmCnt" => x.n < Len(code.consts)
                            /\ x.k = "ImmUserVar" => x.n < Len(user)
  BY <1>1, <1>3 DEF IndexBound
<1>6. \A x \in {i.a, i.b} : x.k \in {"Reg", "Imm", "ImmCnt", "ImmUserVar"} => VM!Readable(x)
  BY <1>4, <1>5 DEF VM!Readable, size
<1>7. i.op \notin Patchable \cup {"OutputCall"} => VM!HasRegister(i.dest)
  BY <1>2 DEF RegistersOf, VM!HasRegister, size
<1>8. i.op \in {"LoadUserScalar", "StoreUserScalar"} => i.mem < Len(user)
  BY <1>1, <1>3
<1>9. i.op = "LoadConst" => i.mem < Len(code.consts)
  BY <1>3
<1>10. i.lo <= i.hi /\ i.hi <= Len(registers)
  BY <1>2 DEF size
<1> QED BY <1>6, <1>7, <1>8, <1>9, <1>10 DEF i

(* So a fault is one of those the interpreter owns up to.                  *)
LEMMA FaultsAreOwned ==
    ASSUME AwkTypeOK, IndicesInterned, RegistersFit, RoomFor,
           pc + 1 \in 1 .. Len(code.bc), VM!Faults(VM!Instr)
    PROVE  \/ Unimplemented(VM!Instr)
           \/ VM!DivisionPanics(VM!Instr.op, VM!Value(VM!Instr.a), VM!Value(VM!Instr.b))
<1> DEFINE i == VM!Instr
           panics == VM!DivisionPanics(i.op, VM!Value(i.a), VM!Value(i.b))
<1>1. i = code.bc[pc + 1]
  BY DEF VM!Instr
<1>2. i \in Instruction
  <2>1. code.bc \in Seq(Instruction)
    BY DEF AwkTypeOK, TypeOK, CodeType
  <2> QED BY <1>1, <2>1, ElementOfSeq
<1>3. /\ \A x \in {i.a, i.b} : x.k \in {"Reg", "Imm", "ImmCnt", "ImmUserVar"} => VM!Readable(x)
      /\ i.op \notin Patchable \cup {"OutputCall"} => VM!HasRegister(i.dest)
      /\ i.op = "LoadConst" => i.mem < Len(code.consts)
      /\ i.op \in {"LoadUserScalar", "StoreUserScalar"} => i.mem < Len(user)
      /\ i.lo <= i.hi /\ i.hi <= Len(registers)
  BY <1>1, NothingMissing
<1>4. VM!Faults(i)
  OBVIOUS
<1> SUFFICES ASSUME ~panics PROVE Unimplemented(i)
  OBVIOUS
<1>5. ~VM!DivisionPanics(i.op, VM!Value(i.a), VM!Value(i.b))
  OBVIOUS
<1> HIDE DEF i, panics
<1>6. i.a.k \in ImmKinds /\ i.b.k \in ImmKinds /\ i.lo \in Nat /\ i.hi \in Nat /\ i.mem \in Nat
      /\ Len(registers) \in Nat /\ Len(user) \in Nat /\ Len(code.consts) \in Nat
  <2>1. Len(registers) \in Nat /\ Len(user) \in Nat /\ Len(code.consts) \in Nat
    BY StreamLength DEF RoomFor, AwkTypeOK, TypeOK, CodeType
  <2> QED BY <1>2, <2>1 DEF Instruction, MaybeImm
<1>7. \A x \in {i.a, i.b} : VM!Readable(x) \/ x.k \in {"Rec", "ImmBuiltinVar"}
  BY <1>3, <1>6 DEF ImmKinds
<1>8. SUFFICES ASSUME \A x \in {i.a, i.b} : VM!Readable(x) PROVE Unimplemented(i)
  BY <1>7 DEF Unimplemented
<1>9. CASE i.op \in VM!Unaries \cup VM!Binaries
  <2>1. VM!HasRegister(i.dest)
    BY <1>3, <1>9 DEF VM!Unaries, VM!Binaries, Patchable
  <2>2. ~VM!Faults(i)
    BY <1>5, <1>8, <1>9, <2>1 DEF VM!Faults, VM!Unaries, VM!Binaries
  <2> QED BY <1>4, <2>2
<1>10. CASE i.op \in {"LoadUserScalar", "LoadConst", "StoreUserScalar"}
  <2>1. VM!HasRegister(i.dest)
    BY <1>3, <1>10 DEF Patchable
  <2>2. /\ i.op = "LoadConst" => ~(i.mem >= Len(code.consts))
        /\ i.op \in {"LoadUserScalar", "StoreUserScalar"} => ~(i.mem >= Len(user))
    BY <1>3, <1>6
  <2>3. ~VM!Faults(i)
    BY <1>8, <1>10, <2>1, <2>2 DEF VM!Faults, VM!Unaries, VM!Binaries
  <2> QED BY <1>4, <2>3
<1>11. CASE i.op = "OutputCall"
  <2>1. ~(i.lo > i.hi) /\ ~(i.hi > Len(registers))
    BY <1>3, <1>6
  <2>2. i.out # "print" \/ i.redir
    BY <1>4, <1>11, <2>1 DEF VM!Faults, VM!Unaries, VM!Binaries
  <2> QED BY <1>11, <2>2 DEF Unimplemented
<1>12. CASE i.op \in {"Branch", "Jump"}
  <2>1. ~VM!Faults(i)
    BY <1>8, <1>12 DEF VM!Faults, VM!Unaries, VM!Binaries
  <2> QED BY <1>4, <2>1
<1> QED BY <1>9, <1>10, <1>11, <1>12 DEF Unimplemented

LEMMA OperandsStep ==
    ASSUME AwkTypeOK, IndicesInterned, RegistersFit, VmReady, OperandsExist, [AwkNext]_awkvars
    PROVE  OperandsExist'
<1> SUFFICES ASSUME run' = "panic"
             PROVE  (\/ Unimplemented(VM!Instr)
                     \/ VM!DivisionPanics(VM!Instr.op, VM!Value(VM!Instr.a),
                                          VM!Value(VM!Instr.b)))'
  BY DEF OperandsExist
<1> DEFINE owned == \/ Unimplemented(VM!Instr)
                    \/ VM!DivisionPanics(VM!Instr.op, VM!Value(VM!Instr.a), VM!Value(VM!Instr.b))
<1>1. UNCHANGED <<code, pc, registers, user>> => owned' = owned
  BY DEF owned, Unimplemented, VM!Instr, VM!Value
<1>2. CASE run = "panic"
  <2>1. owned
    BY <1>2 DEF OperandsExist
  <2>2. UNCHANGED <<code, pc, registers, user>>
    <3>1. CASE Lower
      BY <1>2, <3>1 DEF Lower, VmReady, RoomFor
    <3>2. CASE StartVm
      BY <1>2, <3>2 DEF StartVm, VM!Start
    <3>3. CASE RunVm
      BY <1>2, <3>3 DEF RunVm, VM!VmStep, VM!ExecUnary, VM!ExecBinary, VM!ExecLoadUser,
         VM!ExecLoadConst, VM!ExecStore, VM!ExecPrint, VM!ExecJump, VM!ExecBranch, VM!Fault,
         VM!Halt, VM!Execute, VM!Running
    <3>4. CASE UNCHANGED <<vars, vmvars>>
      BY <3>4 DEF vars, vmvars
    <3> QED BY <3>1, <3>2, <3>3, <3>4 DEF AwkNext, uu_main, Usage, Parse, WriteAst, WriteDump,
            CatchPanic, Panicking, StdoutFails, awkvars
  <2> QED BY <1>1, <2>1, <2>2
<1>3. CASE run # "panic"
  <2>1. VM!Fault /\ UNCHANGED vars
    <3>1. CASE Lower \/ StartVm \/ UNCHANGED <<vars, vmvars>>
      BY <1>3, <3>1 DEF Lower, StartVm, VM!Start, vmvars
    <3>2. CASE RunVm
      BY <1>3, <3>2 DEF RunVm, VM!VmStep, VM!ExecUnary, VM!ExecBinary, VM!ExecLoadUser,
         VM!ExecLoadConst, VM!ExecStore, VM!ExecPrint, VM!ExecJump, VM!ExecBranch, VM!Advance,
         VM!Halt
    <3> QED BY <3>1, <3>2 DEF AwkNext, uu_main, Usage, Parse, WriteAst, WriteDump, CatchPanic,
            StdoutFails, awkvars
  <2>2. RoomFor /\ pc + 1 \in 1 .. Len(code.bc) /\ VM!Faults(VM!Instr)
    <3>1. VM!Faults(VM!Instr) /\ pc < Len(code.bc) /\ run = "running"
      BY <2>1 DEF VM!Fault, VM!Running
    <3>2. RoomFor
      BY <3>1 DEF VmReady
    <3>3. pc \in Nat /\ Len(code.bc) \in Nat
      BY DEF AwkTypeOK, TypeOK, CodeType
    <3>4. pc + 1 \in 1 .. Len(code.bc)
      BY <3>1, <3>3
    <3> QED BY <3>1, <3>2, <3>4
  <2>3. owned
    BY <2>2, FaultsAreOwned
  <2>4. UNCHANGED <<code, pc, registers, user>>
    BY <2>1 DEF VM!Fault, vars
  <2> QED BY <1>1, <2>3, <2>4
<1> QED BY <1>2, <1>3

(* The interpreter panics on nothing but what is not implemented and on a  *)
(* division by zero: what it indexes is there, in every behaviour whose    *)
(* finished lowerings fit their register file.  The other half, that       *)
(* every slot of a table is in it, the lowering owes at no condition.      *)
THEOREM OperandsExistIfTheyFit == AwkSpec /\ []RegistersFit => []OperandsExist
<1>1. AwkInit => OperandsExist
  BY DEF AwkInit, VM!VmInit, OperandsExist
<1>2. AwkTypeOK /\ IndicesInterned /\ RegistersFit /\ VmReady /\ OperandsExist
      /\ [AwkNext]_awkvars => OperandsExist'
  BY OperandsStep
<1> QED BY <1>1, <1>2, ProcessTypes, ProcessIndices, ProcessReady, PTL DEF AwkSpec

(* And with no condition on the behaviour for every program that opens no  *)
(* window: no command, no assignment to an array element.                  *)
THEOREM OperandsAlwaysExist == ASSUME Windowless PROVE AwkSpec => []OperandsExist
<1> QED BY OperandsExistIfTheyFit, ProcessFits, PTL
=============================================================================
