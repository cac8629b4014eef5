---------------------------- MODULE LabelProofs -----------------------------
(***************************************************************************)
(* Labels: what is patched is a jump, the exit of a branch lies after it,  *)
(* and every label leads into the code or to its end, as long as the       *)
(* bytecode is within the width of labels.                                 *)
(*                                                                         *)
(* The argument: Labelled relates the bytecode and the pending tasks, each *)
(* with the labels it will patch or jump to.  Code only grows and keeps    *)
(* its opcodes (Grown), so a pending task stays right (TaskLater).         *)
(* Most actions append instructions without a label (Adds); the nine that  *)
(* emit or patch jumps are looked at one by one.                           *)
(***************************************************************************)
EXTENDS LoweringProofs

-----------------------------------------------------------------------------
(* Bytecode d is b followed by instructions that are no jumps.             *)
Adds(b, d) ==
    /\ Stream(d) /\ Len(b) <= Len(d)
    /\ \A i \in 1 .. Len(b) : d[i] = b[i]
    /\ \A i \in 1 .. Len(d) : i > Len(b) => d[i].op \notin Patchable

HasBc(c) == "bc" \in DOMAIN c /\ Stream(c.bc)
Quiet(c, d) == HasBc(d) /\ Adds(c.bc, d.bc)

LEMMA CodeHasBc == ASSUME NEW c \in CodeType PROVE HasBc(c)
  BY DEF CodeType, HasBc, Stream

LEMMA AddsSelf == ASSUME NEW b, Stream(b) PROVE Adds(b, b)
  BY StreamLength DEF Adds

LEMMA AddsTrans ==
    ASSUME NEW a, NEW b, NEW c, Stream(a), Adds(a, b), Adds(b, c)
    PROVE  Adds(a, c)
<1>1. Len(a) \in Nat /\ Len(b) \in Nat /\ Len(c) \in Nat
  BY StreamLength DEF Adds
<1> QED BY <1>1 DEF Adds

LEMMA AddsOne ==
    ASSUME NEW b, Stream(b), NEW i, i.op \notin Patchable
    PROVE  Adds(b, Append(b, i))
<1>1. /\ Stream(Append(b, i)) /\ Len(Append(b, i)) = Len(b) + 1
      /\ \A n \in 1 .. Len(b) : Append(b, i)[n] = b[n]
  BY StreamAppend
<1>2. Append(b, i)[Len(b) + 1] = i
  <2>1. PICK S : b \in Seq(S)
    BY DEF Stream
  <2>2. b \in [1 .. Len(b) -> S] /\ Len(b) \in Nat
    BY <2>1
  <2>3. b \in Seq(S \cup {i})
    BY <2>2
  <2> QED BY <2>3
<1>3. \A n \in 1 .. Len(b) + 1 : n > Len(b) => n = Len(b) + 1
  BY StreamLength
<1>4. Len(b) <= Len(b) + 1
  BY StreamLength
<1> QED BY <1>1, <1>2, <1>3, <1>4 DEF Adds

LEMMA QuietTrans ==
    ASSUME NEW c, NEW d, NEW e, HasBc(c), Quiet(c, d), Quiet(d, e) PROVE Quiet(c, e)
  BY AddsTrans DEF Quiet, HasBc

-----------------------------------------------------------------------------
(* Methods of Code that leave the bytecode alone or emit no jump.          *)

LEMMA QuietRegs ==
    ASSUME NEW c, HasBc(c)
    PROVE  /\ Quiet(c, c)
           /\ Quiet(c, AllocReg(c))
           /\ \A r : Quiet(c, FreeReg(c, r))
           /\ \A x : Quiet(c, FreeLocal(c, x))
           /\ \A st : Quiet(c, ScopeEnd(st, c)) /\ Quiet(c, ScopeHwmEnd(st, c))
           /\ \A r : Quiet(c, [c EXCEPT !.reg_pointer = r])
<1>1. Adds(c.bc, c.bc)
  BY AddsSelf DEF HasBc
<1>2. \A d : "bc" \in DOMAIN d /\ d.bc = c.bc => Quiet(c, d)
  BY <1>1 DEF Quiet, HasBc
<1>3. Quiet(c, AllocReg(c))
  BY <1>2 DEF AllocReg, HasBc
<1>4. \A r : Quiet(c, FreeReg(c, r))
  BY <1>2 DEF FreeReg, HasBc
<1>5. \A st : Quiet(c, ScopeEnd(st, c)) /\ Quiet(c, ScopeHwmEnd(st, c))
  BY <1>2 DEF ScopeEnd, ScopeHwmEnd, HasBc
<1>6. \A r : Quiet(c, [c EXCEPT !.reg_pointer = r])
  BY <1>2 DEF HasBc
<1>7. Quiet(c, c)
  BY <1>2 DEF HasBc
<1> QED BY <1>3, <1>4, <1>5, <1>6, <1>7 DEF FreeLocal

LEMMA QuietInterned ==
    ASSUME NEW c, HasBc(c)
    PROVE  /\ \A id : Quiet(c, RegisterUserVar(c, id))
           /\ \A v, slot : Quiet(c, RegisterConst(c, v, slot))
<1>1. Adds(c.bc, c.bc)
  BY AddsSelf DEF HasBc
<1>2. \A d : "bc" \in DOMAIN d /\ d.bc = c.bc => Quiet(c, d)
  BY <1>1 DEF Quiet, HasBc
<1>3. \A id : Quiet(c, RegisterUserVar(c, id))
  BY <1>2 DEF RegisterUserVar, HasBc
<1>4. \A v, slot : Quiet(c, RegisterConst(c, v, slot))
  BY <1>2 DEF RegisterConst, HasBc
<1> QED BY <1>3, <1>4

LEMMA QuietEmit ==
    ASSUME NEW c, HasBc(c), NEW i, i.op \notin Patchable
    PROVE  Quiet(c, Emit(c, i))
<1>1. "bc" \in DOMAIN Emit(c, i) /\ Emit(c, i).bc = Append(c.bc, i)
  BY DEF Emit, HasBc
<1>2. Adds(c.bc, Append(c.bc, i)) /\ Stream(Append(c.bc, i))
  BY AddsOne DEF HasBc, Adds
<1> QED BY <1>1, <1>2 DEF Quiet, HasBc

(* The constructors of instructions that are no jumps.                     *)
LEMMA Opcode ==
    /\ \A op, dest, a : Unary(op, dest, a).op = op
    /\ \A op, dest, a, b : Binary(op, dest, a, b).op = op
    /\ \A op, dest, mem : Load(op, dest, mem).op = op /\ "op" \in DOMAIN Load(op, dest, mem)
    /\ \A op, dest, a, mem : Store(op, dest, a, mem).op = op
    /\ \A out, redir : Output(out, redir).op = "OutputCall" /\ "op" \in DOMAIN Output(out, redir)
    /\ \A to : Jump(to).op = "Jump" /\ Jump(to).to = to /\ Jump(to).on = 0
    /\ \A a, on, to : /\ Branch(a, on, to).op = "Branch"
                      /\ Branch(a, on, to).on = on /\ Branch(a, on, to).to = to
  BY DEF Unary, Binary, Load, Store, Output, Jump, Branch, Blank

LEMMA QuietImm ==
    ASSUME NEW c, HasBc(c), NEW k, NEW n, NEW load, load \notin Patchable, NEW dest
    PROVE  Quiet(c, ImmOrLoad(c, k, n, load, dest).code)
<1>1. Quiet(c, Emit(c, Load(load, dest, n)))
  BY QuietEmit, Opcode
<1> QED BY <1>1, QuietRegs DEF ImmOrLoad

LEMMA QuietScalar ==
    ASSUME NEW c, HasBc(c), NEW x, NEW dest
    PROVE  Quiet(c, ScalarMi(c, x, dest).code)
<1>1. "LoadUserScalar" \notin Patchable /\ "LoadBuiltinScalar" \notin Patchable
  BY DEF Patchable
<1>2. CASE x.k = "user"
  <2> DEFINE d == RegisterUserVar(c, x.id)
             n == UserIndex(d, x.id)
  <2>1. Quiet(c, d)
    BY QuietInterned
  <2>2. ScalarMi(c, x, dest) = ImmOrLoad(d, "ImmUserVar", n, "LoadUserScalar", dest)
    BY <1>2 DEF ScalarMi
  <2> HIDE DEF d, n
  <2>3. Quiet(d, ImmOrLoad(d, "ImmUserVar", n, "LoadUserScalar", dest).code)
    BY <1>1, <2>1, QuietImm DEF Quiet
  <2> QED BY <2>1, <2>2, <2>3, QuietTrans
<1>3. CASE x.k # "user"
  BY <1>1, <1>3, QuietImm DEF ScalarMi
<1> QED BY <1>2, <1>3

LEMMA QuietAtom ==
    ASSUME NEW c, HasBc(c), NEW a \in Atoms, a.k # "todo", NEW dest, NEW slot
    PROVE  Quiet(c, AtomMi(c, a, dest, slot).code)
<1> DEFINE d == RegisterConst(c, a.v, slot)
           x == ImmOrLoad(d, "ImmCnt", (slot - 1) % U16, "LoadConst", dest)
           i == Binary("Matches", dest, [k |-> "Rec", n |-> 0], x.mi)
<1>1. "LoadConst" \notin Patchable /\ "Matches" \notin Patchable
  BY DEF Patchable
<1>2. Quiet(c, x.code)
  <2>1. Quiet(c, d)
    BY QuietInterned
  <2> HIDE DEF d
  <2>2. Quiet(d, x.code)
    BY <1>1, <2>1, QuietImm DEF Quiet
  <2> HIDE DEF x
  <2> QED BY <2>1, <2>2, QuietTrans
<1>3. CASE a.k \in {"user", "builtin"}
  BY <1>3, QuietScalar DEF AtomMi
<1>4. CASE a.k = "int"
  BY <1>4, QuietRegs DEF AtomMi
<1>5. CASE a.k = "cnt"
  <2>1. AtomMi(c, a, dest, slot) = x
    BY <1>5 DEF AtomMi
  <2> QED BY <1>2, <2>1
<1>6. CASE a.k = "regex"
  <2>1. AtomMi(c, a, dest, slot).code = Emit(x.code, i)
    BY <1>6 DEF AtomMi
  <2>2. i.op \notin Patchable
    BY <1>1, Opcode
  <2> HIDE DEF x, i
  <2>3. Quiet(x.code, Emit(x.code, i))
    BY <1>2, <2>2, QuietEmit DEF Quiet
  <2> QED BY <1>2, <2>1, <2>3, QuietTrans
<1> QED BY <1>3, <1>4, <1>5, <1>6, AtomFields

-----------------------------------------------------------------------------
(* What holds of a pending task: the labels it will patch are those of     *)
(* jumps, the labels it will jump to are in the code or at its end, and a  *)
(* call's instruction is no jump.                                          *)
TaskOK(b, t) ==
    /\ \A l \in PatchesOf(t) : /\ l \in 0 .. Len(b) - 1 /\ b[l+1].op \in Patchable
                               /\ t.k = "ThenEnd" => b[l+1].op = "Branch"
    /\ t.k \in {"LoopBranch", "LoopEnd", "DoBranch"} => t.top \in 0 .. Len(b)
    /\ t.k = "TernaryElse" => t.label \in 0 .. Len(b) /\ t.branch < t.label
    /\ t.k = "LoopEnd" => Len(t.branch) <= 1
    /\ t.k = "CallEnd" => t.instr.op \notin Patchable

TasksOK(b, ts) == Stream(ts) /\ \A n \in 1 .. Len(ts) : TaskOK(b, ts[n])

(* What holds of an instruction, beside the branches still to be patched.  *)
InstrOK(b, i) == b[i].op \in Patchable => b[i].to \in 0 .. Len(b) /\ b[i].on \in 0 .. Len(b)
InstrsOK(b) == \A i \in 1 .. Len(b) : InstrOK(b, i)

Patched(ts, i) == \E n \in 1 .. Len(ts) : i - 1 \in PatchesOf(ts[n])
Forward(b, ts, i) == b[i].op = "Branch" => b[i].to >= i \/ Patched(ts, i)

Labelled(b, ts) == /\ InstrsOK(b) /\ TasksOK(b, ts)
                   /\ \A i \in 1 .. Len(b) : Forward(b, ts, i)

SameOps(b, d) == Len(b) <= Len(d) /\ \A i \in 1 .. Len(b) : d[i].op = b[i].op

(* A pending task stays right when the code grows.                         *)
LEMMA TaskLater ==
    ASSUME NEW b, NEW d, Stream(b), Stream(d), SameOps(b, d), NEW t, TaskOK(b, t)
    PROVE  TaskOK(d, t)
<1>1. Len(b) \in Nat /\ Len(d) \in Nat /\ Len(b) <= Len(d)
  BY StreamLength DEF SameOps
<1>2. \A x : x \in 0 .. Len(b) => x \in 0 .. Len(d)
  BY <1>1
<1>3. \A x : x \in 0 .. Len(b) - 1 => x \in 0 .. Len(d) - 1 /\ x + 1 \in 1 .. Len(b)
  BY <1>1
<1>4. \A i \in 1 .. Len(b) : d[i].op = b[i].op
  BY DEF SameOps
<1> HIDE DEF SameOps
<1> QED BY <1>2, <1>3, <1>4 DEF TaskOK

LEMMA TasksConcat ==
    ASSUME NEW b, NEW s, NEW t, TasksOK(b, s), TasksOK(b, t)
    PROVE  TasksOK(b, s \o t)
<1>1. Stream(s) /\ Stream(t)
  BY DEF TasksOK
<1>2. /\ Stream(s \o t) /\ Len(s) \in Nat /\ Len(t) \in Nat /\ Len(s \o t) = Len(s) + Len(t)
      /\ \A i \in 1 .. Len(s) : (s \o t)[i] = s[i]
      /\ \A i \in 1 .. Len(t) : (s \o t)[Len(s) + i] = t[i]
  BY <1>1, StreamConcat
<1>3. ASSUME NEW n \in 1 .. Len(s) + Len(t) PROVE TaskOK(b, (s \o t)[n])
  <2>1. CASE n <= Len(s)
    BY <1>2, <2>1 DEF TasksOK
  <2>2. CASE n > Len(s)
    <3>1. n - Len(s) \in 1 .. Len(t) /\ Len(s) + (n - Len(s)) = n
      BY <1>2, <2>2
    <3> QED BY <1>2, <3>1 DEF TasksOK
  <2> QED BY <1>2, <2>1, <2>2
<1> QED BY <1>2, <1>3 DEF TasksOK

LEMMA PatchedConcat ==
    ASSUME NEW s, NEW t, Stream(s), Stream(t), NEW i, Patched(s, i) \/ Patched(t, i)
    PROVE  Patched(s \o t, i)
<1>1. /\ Len(s) \in Nat /\ Len(t) \in Nat /\ Len(s \o t) = Len(s) + Len(t)
      /\ \A n \in 1 .. Len(s) : (s \o t)[n] = s[n]
      /\ \A n \in 1 .. Len(t) : (s \o t)[Len(s) + n] = t[n]
  BY StreamConcat
<1>2. CASE Patched(s, i)
  <2>1. PICK n \in 1 .. Len(s) : i - 1 \in PatchesOf(s[n])
    BY <1>2 DEF Patched
  <2>2. n \in 1 .. Len(s \o t) /\ (s \o t)[n] = s[n]
    BY <1>1
  <2> QED BY <2>1, <2>2 DEF Patched
<1>3. CASE Patched(t, i)
  <2>1. PICK n \in 1 .. Len(t) : i - 1 \in PatchesOf(t[n])
    BY <1>3 DEF Patched
  <2>2. Len(s) + n \in 1 .. Len(s \o t) /\ (s \o t)[Len(s) + n] = t[n]
    BY <1>1
  <2> QED BY <2>1, <2>2 DEF Patched
<1> QED BY <1>2, <1>3

(* A step replaces the top task by others, after setting the labels it     *)
(* had to set.                                                             *)
LEMMA StepLabelled ==
    ASSUME NEW b, NEW d, Stream(b), Stream(d), SameOps(b, d),
           NEW ts, ts # <<>>, Labelled(b, ts), NEW new, TasksOK(d, new), InstrsOK(d),
           \A i \in 1 .. Len(d) : d[i].op = "Branch" =>
               \/ d[i].to >= i
               \/ i <= Len(b) /\ d[i].to = b[i].to /\ i - 1 \notin PatchesOf(ts[1])
               \/ Patched(ts, i) /\ i - 1 \notin PatchesOf(ts[1])
               \/ Patched(new, i)
    PROVE  Labelled(d, new \o Tail(ts))
<1> DEFINE tl == Tail(ts)
<1>1. Stream(ts) /\ Stream(new)
  BY DEF Labelled, TasksOK
<1>2. /\ Stream(tl) /\ Len(ts) \in Nat \ {0} /\ Len(tl) = Len(ts) - 1
      /\ \A n \in 1 .. Len(ts) - 1 : tl[n] = ts[n + 1]
  BY <1>1, StreamTail
<1> HIDE DEF tl
<1>3. TasksOK(d, tl)
  <2>1. ASSUME NEW n \in 1 .. Len(tl) PROVE TaskOK(d, tl[n])
    <3>1. n + 1 \in 1 .. Len(ts) /\ tl[n] = ts[n + 1]
      BY <1>2
    <3> QED BY <3>1, TaskLater DEF Labelled, TasksOK
  <2> QED BY <1>2, <2>1 DEF TasksOK
<1>4. TasksOK(d, new \o tl)
  BY <1>3, TasksConcat
<1>5. ASSUME NEW i \in 1 .. Len(d) PROVE Forward(d, new \o tl, i)
  <2> SUFFICES ASSUME d[i].op = "Branch", ~(d[i].to >= i), ~Patched(new, i)
               PROVE  Patched(new \o tl, i)
    BY <1>1, <1>2, PatchedConcat DEF Forward
  <2>1. i - 1 \notin PatchesOf(ts[1])
    OBVIOUS
  <2>2. Patched(ts, i)
    <3>1. CASE i <= Len(b) /\ d[i].to = b[i].to
      <4>1. i \in 1 .. Len(b)
        BY <3>1, StreamLength
      <4>2. b[i].op = "Branch" /\ ~(b[i].to >= i)
        BY <3>1, <4>1 DEF SameOps
      <4> QED BY <4>1, <4>2 DEF Labelled, Forward
    <3> QED BY <3>1
  <2>4. PICK n \in 1 .. Len(ts) : i - 1 \in PatchesOf(ts[n])
    BY <2>2 DEF Patched
  <2>5. n # 1
    BY <2>1, <2>4
  <2>6. n - 1 \in 1 .. Len(tl) /\ tl[n - 1] = ts[n]
    BY <1>2, <2>5
  <2>7. Patched(tl, i)
    BY <2>4, <2>6 DEF Patched
  <2> QED BY <1>1, <1>2, <2>7, PatchedConcat
<1> QED BY <1>4, <1>5 DEF Labelled, tl

-----------------------------------------------------------------------------
(* The tasks that patch nothing and jump nowhere.                          *)
Calm == {"Stmt", "Expr", "Into", "Free", "Redirection", "LoadPlace", "StorePlace", "IfBranch",
         "ForTop", "UnaryEmit", "BinaryEmit", "TernaryBranch", "AssignVal", "AssignEmit", "Incr",
         "RecordEmit"}

LEMMA CalmOK ==
    ASSUME NEW b, NEW t, t.k \in Calm
    PROVE  TaskOK(b, t) /\ PatchesOf(t) = {}
<1>1. t.k \notin {"ThenEnd", "ElseEnd", "LoopEnd", "TernaryThen", "TernaryElse", "LoopBranch",
                  "DoBranch", "CallEnd"}
  BY DEF Calm
<1>2. PatchesOf(t) = {}
  BY <1>1 DEF PatchesOf
<1> QED BY <1>1, <1>2 DEF TaskOK

LEMMA CalmCalls ==
    /\ \A s : Stmt(s).k \in Calm
    /\ \A e : Expr(e).k \in Calm
    /\ \A e, r : Into(e, r).k \in Calm
    /\ Free.k \in Calm
    /\ \A p, r : LoadPlace(p, r).k \in Calm
    /\ \A p, r, x : StorePlace(p, r, x).k \in Calm
  BY DEF Stmt, Expr, Into, Free, LoadPlace, StorePlace, Calm

LEMMA TasksNone == ASSUME NEW b PROVE TasksOK(b, <<>>)
<1>1. <<>> \in Seq({}) /\ Len(<<>>) = 0
  BY EmptySeq
<1> QED BY <1>1 DEF TasksOK, Stream

LEMMA TasksOne == ASSUME NEW b, NEW t, TaskOK(b, t) PROVE TasksOK(b, <<t>>)
<1>1. <<t>> \in Seq({t}) /\ Len(<<t>>) = 1 /\ <<t>>[1] = t
  OBVIOUS
<1>2. \A n \in 1 .. Len(<<t>>) : <<t>>[n] = t
  BY <1>1
<1> QED BY <1>1, <1>2 DEF TasksOK, Stream

LEMMA TasksTwo ==
    ASSUME NEW b, NEW t, NEW u, TaskOK(b, t), TaskOK(b, u) PROVE TasksOK(b, <<t, u>>)
<1>1. /\ <<t, u>> \in Seq({t, u}) /\ Len(<<t, u>>) = 2
      /\ <<t, u>>[1] = t /\ <<t, u>>[2] = u
  OBVIOUS
<1>2. \A n \in 1 .. 2 : n = 1 \/ n = 2
  OBVIOUS
<1> QED BY <1>1, <1>2 DEF TasksOK, Stream

LEMMA TasksThree ==
    ASSUME NEW b, NEW t, NEW u, NEW v, TaskOK(b, t), TaskOK(b, u), TaskOK(b, v)
    PROVE  TasksOK(b, <<t, u, v>>)
<1>1. /\ <<t, u, v>> \in Seq({t, u, v}) /\ Len(<<t, u, v>>) = 3
      /\ <<t, u, v>>[1] = t /\ <<t, u, v>>[2] = u /\ <<t, u, v>>[3] = v
  OBVIOUS
<1>2. \A n \in 1 .. 3 : n = 1 \/ n = 2 \/ n = 3
  OBVIOUS
<1> QED BY <1>1, <1>2 DEF TasksOK, Stream

(* Lowering a body, or the init or update of a for.                        *)
LEMMA TasksBody == ASSUME NEW b, NEW ss \in Seq(Stmts) PROVE TasksOK(b, Body(ss))
<1>1. Stream(Body(ss))
  BY BodyType DEF Stream
<1>2. Len(ss) \in Nat
  OBVIOUS
<1>3. Len(Body(ss)) = Len(ss) /\ \A n \in 1 .. Len(ss) : Body(ss)[n] = Stmt(ss[n])
  BY <1>2 DEF Body
<1> QED BY <1>1, <1>3, CalmCalls, CalmOK DEF TasksOK

LEMMA TasksSimple == ASSUME NEW b, NEW ss PROVE TasksOK(b, Simple(ss))
  BY TasksNone, TasksTwo, CalmCalls, CalmOK DEF Simple

(* Opening the window of a call.                                           *)
LEMMA TasksWindow ==
    ASSUME NEW b, NEW args \in Seq(Exprs), NEW extra, TasksOK(b, extra),
           NEW instr, "op" \in DOMAIN instr, instr.op \notin Patchable
    PROVE  TasksOK(b, Window(args, extra, instr))
<1> DEFINE fill == [i \in 1 .. Len(args) |-> Into(args[i], code.reg_pointer + i - 1)]
           call == [instr EXCEPT !.lo = code.reg_pointer, !.hi = code.reg_pointer + Len(args)]
           end  == [k |-> "CallEnd", st |-> SaveRegs(code), instr |-> call]
<1>1. TasksOK(b, fill)
  <2>1. Len(args) \in Nat
    OBVIOUS
  <2>2. \A n \in 1 .. Len(args) : fill[n].k \in Calm
    BY CalmCalls
  <2>3. Stream(fill) /\ Len(fill) = Len(args)
    <3> DEFINE S == {fill[n] : n \in 1 .. Len(args)}
    <3>1. fill \in [1 .. Len(args) -> S]
      OBVIOUS
    <3> HIDE DEF fill, S
    <3>2. fill \in Seq(S) /\ Len(fill) = Len(args)
      BY <2>1, <3>1
    <3> QED BY <3>2 DEF Stream
  <2> HIDE DEF fill
  <2> QED BY <2>2, <2>3, CalmOK DEF TasksOK
<1>2. TasksOK(b, <<end>>)
  <2>1. call.op = instr.op
    OBVIOUS
  <2>2. PatchesOf(end) = {}
    BY DEF PatchesOf
  <2>3. TaskOK(b, end)
    BY <2>1, <2>2 DEF TaskOK
  <2> QED BY <2>3, TasksOne
<1>3. Window(args, extra, instr) = fill \o extra \o <<end>>
  BY DEF Window
<1> HIDE DEF fill, end
<1> QED BY <1>1, <1>2, <1>3, TasksConcat

-----------------------------------------------------------------------------
(* The steps that emit no jump.                                            *)

Ready == TypeOK /\ NoWrap /\ Labelled(code.bc, control)
Kept  == Labelled(code'.bc, control')

LEMMA DoQuiet ==
    ASSUME Ready, control # <<>>, PatchesOf(Top) = {},
           NEW c, NEW l, NEW new, Do(c, l, new), Quiet(code, c), TasksOK(c.bc, new)
    PROVE  Kept
<1> DEFINE b == code.bc
           d == c.bc
<1>1. code' = c /\ control' = new \o Tail(control)
  BY DEF Do
<1>2. Stream(b) /\ Stream(d) /\ Adds(b, d)
  BY CodeHasBc DEF Quiet, Adds, HasBc, Ready, TypeOK
<1>3. Len(b) \in Nat /\ Len(d) \in Nat /\ Len(b) <= Len(d)
  BY <1>2, StreamLength DEF Adds
<1>4. \A i \in 1 .. Len(b) : d[i] = b[i]
  BY <1>2 DEF Adds
<1>5. \A i \in 1 .. Len(d) : d[i].op \in Patchable => i \in 1 .. Len(b) /\ d[i] = b[i]
  BY <1>2, <1>3 DEF Adds
<1> HIDE DEF b, d
<1>6. SameOps(b, d)
  BY <1>3, <1>4 DEF SameOps
<1>7. InstrsOK(d)
  <2>1. \A x : x \in 0 .. Len(b) => x \in 0 .. Len(d)
    BY <1>3
  <2>2. InstrsOK(b)
    BY DEF b, Ready, Labelled
  <2> QED BY <1>5, <2>1, <2>2 DEF InstrsOK, InstrOK
<1>8. \A i \in 1 .. Len(d) : d[i].op = "Branch" =>
          i <= Len(b) /\ d[i].to = b[i].to /\ i - 1 \notin PatchesOf(control[1])
  BY <1>3, <1>5 DEF Patchable, Top
<1>9. Labelled(b, control) /\ TasksOK(d, new)
  BY DEF b, d, Ready
<1>10. Labelled(d, new \o Tail(control))
  BY <1>2, <1>6, <1>7, <1>8, <1>9, StepLabelled
<1> QED BY <1>1, <1>10 DEF d, Kept

(* A number below a width is its own remainder.                            *)
LEMMA ModuloSmall ==
    ASSUME NEW m \in Nat, NEW w \in Nat, m < w PROVE m % w = m
  OBVIOUS

(* The labels a step reads, while the bytecode is within their width.      *)
LEMMA LabelValues ==
    ASSUME NEW c \in CodeType, NEW n \in Nat, Len(c.bc) + n < U16
    PROVE  FollowingInstr(c, n) = Len(c.bc) + n /\ EmitLabel(c) = Len(c.bc)
<1>1. Len(c.bc) \in Nat /\ U16 \in Nat /\ Len(c.bc) + n \in Nat /\ Len(c.bc) < U16
  BY WidthAssumption DEF CodeType
<1>2. (Len(c.bc) + n) % U16 = Len(c.bc) + n /\ Len(c.bc) % U16 = Len(c.bc)
  BY <1>1, ModuloSmall
<1> QED BY <1>2 DEF FollowingInstr, EmitLabel

LEMMA CalmTop ==
    ASSUME NEW k \in Calm, At(k)
    PROVE  control # <<>> /\ PatchesOf(Top) = {}
  BY CalmOK DEF At, Top

LEMMA ReadyCode ==
    ASSUME Ready
    PROVE  code \in CodeType /\ HasBc(code) /\ Quiet(code, code) /\ Len(code.bc) \in Nat
<1>1. code \in CodeType
  BY DEF Ready, TypeOK
<1>2. HasBc(code)
  BY <1>1, CodeHasBc
<1> QED BY <1>1, <1>2, QuietRegs, StreamLength DEF HasBc

LEMMA TopOK ==
    ASSUME Ready, control # <<>>
    PROVE  TaskOK(code.bc, Top) /\ Top \in Tasks
<1>1. control \in Seq(Tasks) /\ 1 \in 1 .. Len(control)
  BY EmptySeq DEF Ready, TypeOK
<1> QED BY <1>1, ElementOfSeq DEF Ready, Labelled, TasksOK, Top

(* The top of a loop is the end of the code so far.                        *)
LEMMA HereIsLabel ==
    ASSUME Ready
    PROVE  FollowingInstr(code, 0) = Len(code.bc) /\ Len(code.bc) \in 0 .. Len(code.bc)
<1>1. Len(code.bc) + 0 = Len(code.bc) /\ Len(code.bc) \in Nat
  BY ReadyCode
<1> QED BY <1>1, ReadyCode, LabelValues DEF Ready, NoWrap

LEMMA LabelsOfLoop ==
    ASSUME Ready, control # <<>>, PatchesOf(Top) = {}, NEW cond, NEW body, NEW update,
           Loop(cond, body, update)
    PROVE  Kept
<1> DEFINE t == [k |-> "LoopBranch", top |-> FollowingInstr(code, 0), body |-> body,
                 update |-> update]
<1>1. PatchesOf(t) = {}
  BY DEF PatchesOf
<1>2. TaskOK(code.bc, t)
  BY <1>1, HereIsLabel DEF TaskOK
<1>3. TasksOK(code.bc, <<Expr(cond), t>>)
  BY <1>2, TasksTwo, CalmCalls, CalmOK
<1> QED BY <1>3, DoQuiet, ReadyCode DEF Loop

LEMMA LabelsOfStatement ==
    ASSUME Ready, If \/ While \/ For \/ DoWhile \/ ExprStmt
    PROVE  Kept
<1>1. At("Stmt")
  BY DEF If, While, For, DoWhile, ExprStmt, AtStmt
<1>2. control # <<>> /\ PatchesOf(Top) = {} /\ Top.s \in Stmts
  <2>1. "Stmt" \in Calm
    BY DEF Calm
  <2> QED BY <1>1, <2>1, CalmTop, AtTypes, TaskFields DEF Ready
<1>3. CASE If
  <2> DEFINE t == [k |-> "IfBranch", st |-> SaveRegs(code), body |-> Top.s.body,
                   orelse |-> Top.s.orelse]
  <2>1. t.k \in Calm
    BY DEF Calm
  <2>2. TasksOK(code.bc, <<Expr(Top.s.c), t>>)
    BY <2>1, TasksTwo, CalmCalls, CalmOK
  <2> QED BY <1>2, <1>3, <2>2, DoQuiet, ReadyCode DEF If
<1>4. CASE While
  BY <1>2, <1>4, LabelsOfLoop DEF While
<1>5. CASE For
  <2> DEFINE t == [k |-> "ForTop", s |-> Top.s]
  <2>1. t.k \in Calm
    BY DEF Calm
  <2>2. TasksOK(code.bc, Simple(Top.s.init) \o <<t>>)
    BY <2>1, TasksOne, TasksConcat, TasksSimple, CalmOK
  <2> QED BY <1>2, <1>5, <2>2, DoQuiet, ReadyCode DEF For
<1>6. CASE DoWhile
  <2> DEFINE t == [k |-> "DoBranch", top |-> FollowingInstr(code, 0)]
  <2>1. PatchesOf(t) = {}
    BY DEF PatchesOf
  <2>2. TaskOK(code.bc, t)
    BY <2>1, HereIsLabel DEF TaskOK
  <2>3. TasksOK(code.bc, <<Expr(Top.s.c), t>>)
    BY <2>2, TasksTwo, CalmCalls, CalmOK
  <2>4. Top.s.body \in Seq(Stmts)
    BY <1>2, <1>6, StmtFields DEF DoWhile, AtStmt
  <2>5. TasksOK(code.bc, Body(Top.s.body) \o <<Expr(Top.s.c), t>>)
    BY <2>3, <2>4, TasksBody, TasksConcat
  <2> QED BY <1>2, <1>6, <2>5, DoQuiet, ReadyCode DEF DoWhile
<1>7. CASE ExprStmt
  <2>1. TasksOK(code.bc, <<Expr(Top.s.e), Free>>)
    BY TasksTwo, CalmCalls, CalmOK
  <2> QED BY <1>2, <1>7, <2>1, DoQuiet, ReadyCode DEF ExprStmt
<1> QED BY <1>3, <1>4, <1>5, <1>6, <1>7

LEMMA LabelsOfForTop == ASSUME Ready, ForTop PROVE Kept
<1> DEFINE s == Top.s
           t == [k |-> "LoopEnd", top |-> FollowingInstr(code, 0), branch |-> <<>>]
           new == Body(s.body) \o Simple(s.update) \o <<t>>
<1>1. At("ForTop")
  BY DEF ForTop
<1>2. control # <<>> /\ PatchesOf(Top) = {} /\ s \in Stmts /\ s.k = "for"
  <2>1. "ForTop" \in Calm
    BY DEF Calm
  <2> QED BY <1>1, <2>1, CalmTop, AtTypes, TaskFields DEF Ready
<1>3. CASE s.cond # <<>>
  BY <1>2, <1>3, LabelsOfLoop DEF ForTop
<1>4. CASE s.cond = <<>>
  <2>1. PatchesOf(t) = {}
    <3>1. \A i : i \notin 1 .. Len(<<>>)
      BY EmptySeq
    <3> QED BY <3>1 DEF PatchesOf
  <2>2. TaskOK(code.bc, t)
    BY <2>1, HereIsLabel DEF TaskOK
  <2>3. s.body \in Seq(Stmts)
    BY <1>2, StmtFields
  <2>4. TasksOK(code.bc, new)
    BY <2>2, <2>3, TasksBody, TasksSimple, TasksOne, TasksConcat
  <2>5. Do(code, locals, new)
    BY <1>4 DEF ForTop
  <2> QED BY <1>2, <2>4, <2>5, DoQuiet, ReadyCode
<1> QED BY <1>3, <1>4

(* Opening and closing the window of a call.                               *)
LEMMA LabelsOfCall == ASSUME Ready, Command \/ CallEnd \/ Redirection PROVE Kept
<1>1. CASE Command
  <2> DEFINE s == Top.s
             extra == IF s.redir = <<>> THEN <<>> ELSE <<[k |-> "Redirection", e |-> s.redir[1]]>>
             instr == Output(s.name, s.redir # <<>>)
             c == [code EXCEPT !.reg_pointer = code.reg_pointer + Len(s.args)]
  <2>1. At("Stmt") /\ s.k = "command"
    BY <1>1 DEF Command, AtStmt
  <2>2. "Stmt" \in Calm /\ "Redirection" \in Calm
    BY DEF Calm
  <2>3. control # <<>> /\ PatchesOf(Top) = {} /\ s \in Stmts
    BY <2>1, <2>2, CalmTop, AtTypes, TaskFields DEF Ready
  <2>4. s.args \in Seq(Exprs)
    BY <2>1, <2>3, StmtFields
  <2>5. "op" \in DOMAIN instr /\ instr.op \notin Patchable
    BY Opcode DEF Patchable
  <2>6. Quiet(code, c)
    BY ReadyCode, QuietRegs
  <2>7. TasksOK(c.bc, extra)
    BY <2>2, TasksNone, TasksOne, CalmOK
  <2>8. TasksOK(c.bc, Window(s.args, extra, instr))
    <3> HIDE DEF extra, instr, c, s
    <3> QED BY <2>4, <2>5, <2>7, TasksWindow
  <2>9. Do(c, locals, Window(s.args, extra, instr))
    BY <1>1 DEF Command
  <2> HIDE DEF extra, instr, c, s
  <2> QED BY <2>3, <2>6, <2>8, <2>9, DoQuiet
<1>2. CASE CallEnd
  <2> DEFINE c == ScopeEnd(Top.st, code)
             d == Emit(c, Top.instr)
             l == IF Top.instr.op \in ArrayLoads THEN Push(Plain(Reg(Top.instr.dest))) ELSE locals
  <2>1. At("CallEnd") /\ control # <<>> /\ Top.k = "CallEnd"
    BY <1>2 DEF CallEnd, At, Top
  <2>2. PatchesOf(Top) = {}
    BY <2>1 DEF PatchesOf
  <2>3. Top.instr.op \notin Patchable
    BY <2>1, TopOK DEF TaskOK
  <2>4. Quiet(code, c)
    BY ReadyCode, QuietRegs
  <2> HIDE DEF c
  <2>5. Quiet(c, d)
    BY <2>3, <2>4, QuietEmit DEF Quiet
  <2>6. Do(d, l, <<>>)
    BY <1>2 DEF CallEnd, c
  <2> HIDE DEF d, l
  <2>7. Quiet(code, d)
    BY <2>4, <2>5, ReadyCode, QuietTrans
  <2> QED BY <2>1, <2>2, <2>6, <2>7, TasksNone, DoQuiet
<1>3. CASE Redirection
  <2> DEFINE r == NextReg(code)
  <2>1. "Redirection" \in Calm /\ At("Redirection")
    BY <1>3 DEF Calm, Redirection
  <2>2. control # <<>> /\ PatchesOf(Top) = {}
    BY <2>1, CalmTop
  <2>3. TasksOK(AllocReg(code).bc, <<Into(Top.e, r), Free>>)
    BY TasksTwo, CalmCalls, CalmOK
  <2>4. Quiet(code, AllocReg(code))
    BY ReadyCode, QuietRegs
  <2> QED BY <1>3, <2>2, <2>3, <2>4, DoQuiet DEF Redirection
<1> QED BY <1>1, <1>2, <1>3

(* Steps that call for an operand, or take or give back a register.        *)
LEMMA LabelsOfOperand ==
    ASSUME Ready,
           \/ FreeTop \/ LowerNode \/ UnaryInto \/ BinaryInto \/ TernaryInto
           \/ AssignInto \/ AssignVal \/ IncrInto \/ StoreRecord
    PROVE  Kept
<1>1. {"Free", "Expr", "Into", "AssignVal", "StorePlace", "UnaryEmit", "BinaryEmit",
       "TernaryBranch", "AssignEmit", "Incr", "RecordEmit"} \subseteq Calm
  BY DEF Calm
<1>2. \E k \in Calm : At(k)
  BY <1>1 DEF FreeTop, LowerNode, UnaryInto, BinaryInto, TernaryInto, AssignInto, AssignVal,
     IncrInto, StoreRecord, AtInto, AtPlace
<1>3. control # <<>> /\ PatchesOf(Top) = {}
  BY <1>2, CalmTop
<1>4. Quiet(code, code) /\ Quiet(code, AllocReg(code)) /\ \A x : Quiet(code, FreeLocal(code, x))
  BY ReadyCode, QuietRegs
<1>5. \A b, t : t.k \in Calm => TaskOK(b, t)
  BY CalmOK
<1>6. CASE FreeTop
  BY <1>3, <1>4, <1>6, TasksNone, DoQuiet DEF FreeTop
<1>7. CASE LowerNode
  <2>1. TasksOK(AllocReg(code).bc, <<Into(Top.e, NextReg(code))>>)
    BY <1>5, TasksOne, CalmCalls
  <2> QED BY <1>3, <1>4, <1>7, <2>1, DoQuiet DEF LowerNode
<1>8. CASE UnaryInto
  <2> DEFINE t == [k |-> "UnaryEmit", op |-> Top.e.op, dest |-> Top.dest]
  <2>1. TasksOK(code.bc, <<Expr(Top.e.e), t>>)
    BY <1>1, <1>5, TasksTwo, CalmCalls
  <2> QED BY <1>3, <1>4, <1>8, <2>1, DoQuiet DEF UnaryInto
<1>9. CASE BinaryInto
  <2> DEFINE t == [k |-> "BinaryEmit", op |-> Top.e.op, dest |-> Top.dest]
  <2>1. TasksOK(code.bc, <<Expr(Top.e.l), Expr(Top.e.r), t>>)
    BY <1>1, <1>5, TasksThree, CalmCalls
  <2> QED BY <1>3, <1>4, <1>9, <2>1, DoQuiet DEF BinaryInto
<1>10. CASE TernaryInto
  <2> DEFINE t == [k |-> "TernaryBranch", t |-> Top.e.t, f |-> Top.e.f, dest |-> Top.dest]
  <2>1. TasksOK(code.bc, <<Expr(Top.e.c), t>>)
    BY <1>1, <1>5, TasksTwo, CalmCalls
  <2> QED BY <1>3, <1>4, <1>10, <2>1, DoQuiet DEF TernaryInto
<1>11. CASE AssignInto
  <2> DEFINE t == [k |-> "AssignVal", op |-> Top.e.op, p |-> Top.e.p, dest |-> Top.dest]
  <2>1. TasksOK(code.bc, <<Expr(Top.e.e), t>>)
    BY <1>1, <1>5, TasksTwo, CalmCalls
  <2> QED BY <1>3, <1>4, <1>11, <2>1, DoQuiet DEF AssignInto
<1>12. CASE AssignVal
  <2> DEFINE r == NextReg(code)
             t == [k |-> "AssignEmit", op |-> Top.op, p |-> Top.p, dest |-> Top.dest]
  <2>1. TasksOK(code.bc, <<StorePlace(Top.p, Top.dest, Local(0).mi), Free>>)
    BY <1>5, TasksTwo, CalmCalls
  <2>2. TasksOK(AllocReg(code).bc, <<LoadPlace(Top.p, r), t>>)
    BY <1>1, <1>5, TasksTwo, CalmCalls
  <2> QED BY <1>3, <1>4, <1>12, <2>1, <2>2, DoQuiet DEF AssignVal
<1>13. CASE IncrInto
  <2> DEFINE t == [k |-> "Incr", op |-> Top.e.op, post |-> Top.e.post, p |-> Top.e.p,
                   dest |-> Top.dest]
  <2>1. TasksOK(code.bc, <<LoadPlace(Top.e.p, Top.dest), t>>)
    BY <1>1, <1>5, TasksTwo, CalmCalls
  <2> QED BY <1>3, <1>4, <1>13, <2>1, DoQuiet DEF IncrInto
<1>14. CASE StoreRecord
  <2> DEFINE t == [k |-> "RecordEmit", dest |-> Top.dest, src |-> Top.src]
  <2>1. TasksOK(code.bc, <<Expr(Top.p.e), t>>)
    BY <1>1, <1>5, TasksTwo, CalmCalls
  <2> QED BY <1>3, <1>4, <1>14, <2>1, DoQuiet DEF StoreRecord
<1> QED BY <1>6, <1>7, <1>8, <1>9, <1>10, <1>11, <1>12, <1>13, <1>14

(* Emitting an instruction that is no jump, then freeing its operand.      *)
LEMMA QuietEmitFree ==
    ASSUME NEW c, HasBc(c), NEW i, i.op \notin Patchable, NEW x
    PROVE  Quiet(c, FreeLocal(Emit(c, i), x))
<1> DEFINE d == Emit(c, i)
<1>1. Quiet(c, d)
  BY QuietEmit
<1> HIDE DEF d
<1>2. Quiet(d, FreeLocal(d, x))
  BY <1>1, QuietRegs DEF Quiet
<1>3. Quiet(c, FreeLocal(d, x))
  BY <1>1, <1>2, QuietTrans
<1> QED BY <1>3 DEF d

LEMMA NoJumps == (UnaryOps \cup BinaryOps \cup {"StoreRecord", "Copy"}) \cap Patchable = {}
  BY DEF UnaryOps, BinaryOps, ArithOps, Patchable

(* Steps that emit the instruction of an operator.                         *)
LEMMA LabelsOfOperator ==
    ASSUME Ready, UnaryEmit \/ BinaryEmit \/ AssignEmit \/ RecordEmit
    PROVE  Kept
<1>1. /\ UnaryEmit => At("UnaryEmit")
      /\ BinaryEmit => At("BinaryEmit")
      /\ AssignEmit => At("AssignEmit")
      /\ RecordEmit => At("RecordEmit")
  BY DEF UnaryEmit, BinaryEmit, AssignEmit, RecordEmit
<1>2. {"UnaryEmit", "BinaryEmit", "AssignEmit", "RecordEmit"} \subseteq Calm
  BY DEF Calm
<1>3. control # <<>> /\ PatchesOf(Top) = {}
  BY <1>1, <1>2, CalmTop
<1>4. /\ UnaryEmit => Top.op \in UnaryOps
      /\ BinaryEmit \/ AssignEmit => Top.op \in BinaryOps
  BY <1>1, AtTypes, TaskFields DEF Ready, BinaryOps
<1>5. HasBc(code)
  BY ReadyCode
<1>6. CASE UnaryEmit
  <2> DEFINE i == Unary(Top.op, Top.dest, Local(0).mi)
  <2>1. i.op \notin Patchable
    BY <1>4, <1>6, Opcode, NoJumps
  <2>2. Quiet(code, FreeLocal(Emit(code, i), Local(0)))
    BY <1>5, <2>1, QuietEmitFree
  <2> QED BY <1>3, <1>6, <2>2, TasksNone, DoQuiet DEF UnaryEmit
<1>7. CASE RecordEmit
  <2> DEFINE i == Binary("StoreRecord", Top.dest, Local(0).mi, Top.src)
  <2>1. i.op \notin Patchable
    BY Opcode, NoJumps
  <2>2. Quiet(code, FreeLocal(Emit(code, i), Local(0)))
    BY <1>5, <2>1, QuietEmitFree
  <2> QED BY <1>3, <1>7, <2>2, TasksNone, DoQuiet DEF RecordEmit
<1>8. CASE BinaryEmit
  <2> DEFINE i == Binary(Top.op, Top.dest, Local(1).mi, Local(0).mi)
             c == FreeLocal(Emit(code, i), Local(1))
             d == FreeLocal(c, Local(0))
  <2>1. i.op \notin Patchable
    BY <1>4, <1>8, Opcode, NoJumps
  <2>2. Quiet(code, c)
    BY <1>5, <2>1, QuietEmitFree
  <2>3. Do(d, Pop(2), <<>>)
    BY <1>8 DEF BinaryEmit
  <2> HIDE DEF c
  <2>4. Quiet(c, d)
    BY <2>2, QuietRegs DEF Quiet
  <2> HIDE DEF d
  <2>5. Quiet(code, d)
    BY <1>5, <2>2, <2>4, QuietTrans
  <2> QED BY <1>3, <2>3, <2>5, TasksNone, DoQuiet
<1>9. CASE AssignEmit
  <2> DEFINE i == Binary(Top.op, Top.dest, Local(0).mi, Local(2).mi)
             new == <<StorePlace(Top.p, Top.dest, Reg(Top.dest)), Free, Free>>
  <2>1. i.op \notin Patchable
    BY <1>4, <1>9, Opcode, NoJumps
  <2>2. Quiet(code, Emit(code, i))
    BY <1>5, <2>1, QuietEmit
  <2>3. TasksOK(Emit(code, i).bc, new)
    BY TasksThree, CalmCalls, CalmOK
  <2> QED BY <1>3, <1>9, <2>2, <2>3, DoQuiet DEF AssignEmit
<1> QED BY <1>6, <1>7, <1>8, <1>9

(* An increment, before or after.                                          *)
LEMMA LabelsOfIncr == ASSUME Ready, Incr PROVE Kept
<1>1. At("Incr") /\ "Incr" \in Calm
  BY DEF Incr, Calm
<1>2. control # <<>> /\ PatchesOf(Top) = {}
  BY <1>1, CalmTop
<1>3. Top.op \in BinaryOps
  BY <1>1, AtTypes, TaskFields DEF Ready, BinaryOps, ArithOps
<1>4. HasBc(code)
  BY ReadyCode
<1>5. CASE ~Top.post
  <2> DEFINE i == Binary(Top.op, Top.dest, Local(0).mi, Imm(1))
             new == <<StorePlace(Top.p, Top.dest, Reg(Top.dest))>>
  <2>1. Quiet(code, Emit(code, i))
    BY <1>3, <1>4, Opcode, NoJumps, QuietEmit
  <2>2. TasksOK(Emit(code, i).bc, new)
    BY TasksOne, CalmCalls, CalmOK
  <2> QED BY <1>2, <1>5, <2>1, <2>2, DoQuiet DEF Incr
<1>6. CASE Top.post
  <2> DEFINE i == Binary("Add", Top.dest, Local(0).mi, Imm(0))
             c == Emit(code, i)
             d == AllocReg(c)
             tmp == NextReg(c)
             j == Binary(Top.op, tmp, Local(0).mi, Imm(1))
             e == Emit(d, j)
             new == <<StorePlace(Top.p, tmp, Reg(tmp)), Free>>
  <2>1. i.op \notin Patchable /\ j.op \notin Patchable
    BY <1>3, Opcode, NoJumps DEF BinaryOps, ArithOps
  <2>2. TasksOK(e.bc, new)
    BY TasksTwo, CalmCalls, CalmOK
  <2>3. Do(e, Append(Pop(1), Own(tmp)), new)
    BY <1>6 DEF Incr
  <2>4. Quiet(code, c)
    BY <1>4, <2>1, QuietEmit
  <2> HIDE DEF c, j, i
  <2>5. Quiet(c, d)
    BY <2>4, QuietRegs DEF Quiet
  <2> HIDE DEF d
  <2>6. Quiet(d, e)
    BY <2>1, <2>5, QuietEmit DEF Quiet
  <2> HIDE DEF e, new, tmp
  <2>7. Quiet(code, e)
    BY <1>4, <2>4, <2>5, <2>6, QuietTrans
  <2> QED BY <1>2, <2>2, <2>3, <2>7, DoQuiet
<1> QED BY <1>5, <1>6

(* lower_atom and lower_atom_into.                                         *)
LEMMA LabelsOfAtom == ASSUME Ready, LowerAtom \/ AtomInto PROVE Kept
<1>1. "Expr" \in Calm /\ "Into" \in Calm
  BY DEF Calm
<1>2. \E k \in {"Expr", "Into"} : At(k)
  BY DEF LowerAtom, AtomInto, AtInto
<1>3. control # <<>> /\ PatchesOf(Top) = {} /\ Top \in Tasks /\ Top.k \in {"Expr", "Into"}
  BY <1>1, <1>2, CalmTop, AtTypes DEF Ready
<1>4. Top.e \in Exprs /\ Top.e.k = "atom" /\ ~Panics(Top)
  BY <1>3, TaskFields DEF LowerAtom, AtomInto, AtInto, Do
<1>5. Top.e.a \in Atoms /\ Top.e.a.k # "todo"
  BY <1>3, <1>4, ExprFields DEF Panics
<1>6. HasBc(code)
  BY ReadyCode
<1>7. CASE LowerAtom
  <2> DEFINE r == NextReg(code)
             b == AllocReg(code)
             x(slot) == AtomMi(b, Top.e.a, r, slot)
  <2>1. PICK slot : \/ Do(x(slot).code, Push(Own(r)), <<>>)
                    \/ Do(FreeReg(x(slot).code, r), Push(Plain(x(slot).mi)), <<>>)
    BY <1>7 DEF LowerAtom
  <2> DEFINE c == x(slot).code
             d == FreeReg(c, r)
             l == Push(Own(r))
             m == Push(Plain(x(slot).mi))
  <2>2. Do(c, l, <<>>) \/ Do(d, m, <<>>)
    BY <2>1
  <2>3. Quiet(code, b)
    BY <1>6, QuietRegs
  <2>4. Quiet(b, c)
    <3> HIDE DEF b
    <3> QED BY <1>5, <2>3, QuietAtom DEF Quiet
  <2> HIDE DEF b, c, l, m
  <2>5. Quiet(code, c)
    BY <1>6, <2>3, <2>4, QuietTrans
  <2>6. Quiet(c, d)
    BY <2>5, QuietRegs DEF Quiet
  <2> HIDE DEF d
  <2>7. Quiet(code, d)
    BY <1>6, <2>5, <2>6, QuietTrans
  <2> QED BY <1>3, <2>2, <2>5, <2>7, TasksNone, DoQuiet
<1>8. CASE AtomInto
  <2> DEFINE x(slot) == AtomMi(code, Top.e.a, Top.dest, slot)
             i(slot) == Unary("Copy", Top.dest, x(slot).mi)
  <2>1. PICK slot : \/ Do(x(slot).code, locals, <<>>)
                    \/ Do(Emit(x(slot).code, i(slot)), locals, <<>>)
    BY <1>8 DEF AtomInto
  <2> DEFINE c == x(slot).code
             j == i(slot)
             d == Emit(c, j)
  <2>2. Do(c, locals, <<>>) \/ Do(d, locals, <<>>)
    BY <2>1
  <2>3. Quiet(code, c)
    BY <1>5, <1>6, QuietAtom
  <2>4. j.op \notin Patchable
    BY Opcode, NoJumps
  <2> HIDE DEF c, j
  <2>5. Quiet(c, d)
    BY <2>3, <2>4, QuietEmit DEF Quiet
  <2> HIDE DEF d
  <2>6. Quiet(code, d)
    BY <1>6, <2>3, <2>5, QuietTrans
  <2> QED BY <1>3, <2>2, <2>3, <2>6, TasksNone, DoQuiet
<1> QED BY <1>7, <1>8

(* Loading and storing variables and array elements.                       *)
LEMMA LabelsOfScalar == ASSUME Ready, LoadScalar \/ StoreScalar PROVE Kept
<1>1. {"LoadPlace", "StorePlace"} \subseteq Calm /\ \E k \in {"LoadPlace", "StorePlace"} : At(k)
  BY DEF Calm, LoadScalar, StoreScalar, AtPlace
<1>2. control # <<>> /\ PatchesOf(Top) = {}
  BY <1>1, CalmTop
<1>3. HasBc(code)
  BY ReadyCode
<1>4. {"StoreUserScalar", "StoreBuiltinScalar"} \cap Patchable = {}
  BY DEF Patchable
<1>5. CASE LoadScalar
  <2> DEFINE x == ScalarMi(code, Top.p, Top.dest)
  <2>1. Quiet(code, x.code)
    BY <1>3, QuietScalar
  <2>2. Do(x.code, Push(Plain(x.mi)), <<>>)
    BY <1>5 DEF LoadScalar
  <2> HIDE DEF x
  <2> QED BY <1>2, <2>1, <2>2, TasksNone, DoQuiet
<1>6. CASE StoreScalar
  <2> DEFINE c == RegisterUserVar(code, Top.p.id)
             i == Store("StoreUserScalar", Top.dest, Top.src, UserIndex(c, Top.p.id))
             j == Store("StoreBuiltinScalar", Top.dest, Top.src, Top.p.n)
  <2>1. i.op \notin Patchable /\ j.op \notin Patchable
    BY <1>4, Opcode
  <2>2. Do(Emit(c, i), locals, <<>>) \/ Do(Emit(code, j), locals, <<>>)
    BY <1>6 DEF StoreScalar
  <2>3. Quiet(code, c)
    BY <1>3, QuietInterned
  <2> HIDE DEF c, i, j
  <2>4. Quiet(c, Emit(c, i))
    BY <2>1, <2>3, QuietEmit DEF Quiet
  <2>5. Quiet(code, Emit(c, i))
    BY <1>3, <2>3, <2>4, QuietTrans
  <2>6. Quiet(code, Emit(code, j))
    BY <1>3, <2>1, QuietEmit
  <2> QED BY <1>2, <2>2, <2>5, <2>6, TasksNone, DoQuiet
<1> QED BY <1>5, <1>6

LEMMA LabelsOfElement == ASSUME Ready, LoadIndex \/ StoreIndex PROVE Kept
<1>1. PICK user, builtin : /\ ArrayAccess(user, builtin)
                           /\ user \notin Patchable /\ builtin \notin Patchable
  BY DEF LoadIndex, StoreIndex, Patchable
<1>2. "LoadPlace" \in Calm /\ "StorePlace" \in Calm
  BY DEF Calm
<1>3. \E k \in {"LoadPlace", "StorePlace"} : At(k)
  BY DEF LoadIndex, StoreIndex, AtPlace
<1>4. /\ control # <<>> /\ PatchesOf(Top) = {}
      /\ Top \in Tasks /\ Top.k \in {"LoadPlace", "StorePlace"}
  BY <1>2, <1>3, CalmTop, AtTypes DEF Ready
<1>5. Top.p.args \in Seq(Exprs)
  <2>1. Top.p \in Places /\ Top.p.k \in {"userindex", "builtinindex"}
    BY <1>4, TaskFields DEF LoadIndex, StoreIndex, AtPlace, Indexed
  <2> QED BY <2>1, PlaceFields
<1> DEFINE p == Top.p
           c == IF p.k = "userindex" THEN RegisterUserVar(code, p.id) ELSE code
           ins == IF p.k = "userindex" THEN Load(user, Top.dest, UserIndex(c, p.id))
                                       ELSE Load(builtin, Top.dest, p.n)
           d == [c EXCEPT !.reg_pointer = c.reg_pointer + Len(p.args)]
<1>6. Do(d, locals, Window(p.args, <<>>, ins))
  BY <1>1 DEF ArrayAccess
<1>7. "op" \in DOMAIN ins /\ ins.op \notin Patchable
  BY <1>1, Opcode
<1>8. HasBc(code) /\ Quiet(code, c)
  BY ReadyCode, QuietInterned
<1> HIDE DEF c, ins
<1>9. Quiet(c, d)
  BY <1>8, QuietRegs DEF Quiet
<1> HIDE DEF d
<1>10. Quiet(code, d)
  BY <1>8, <1>9, QuietTrans
<1>11. TasksOK(d.bc, Window(p.args, <<>>, ins))
  BY <1>5, <1>7, TasksNone, TasksWindow
<1> QED BY <1>4, <1>6, <1>10, <1>11, DoQuiet

-----------------------------------------------------------------------------
(* The steps that emit or patch jumps.                                     *)

(* A step keeps the opcodes of what was emitted.                           *)
LEMMA StepOps ==
    ASSUME TypeOK, TypeOK', [Next]_vars
    PROVE  SameOps(code.bc, code'.bc)
<1>1. code.bc \in Seq(Instruction) /\ code'.bc \in Seq(Instruction)
  BY DEF TypeOK, CodeType
<1>2. Len(code.bc) \in Nat
  BY <1>1
<1>3. CASE code' = code
  BY <1>2, <1>3 DEF SameOps
<1>4. CASE GrowsInto(code, code')
  <2>1. ASSUME NEW i \in 1 .. Len(code.bc) PROVE code'.bc[i].op = code.bc[i].op
    <3>1. i \in 1 .. Len(code'.bc)
      BY <1>1, <1>4 DEF GrowsInto
    <3>2. code.bc[i] \in Instruction /\ code'.bc[i] \in Instruction
      BY <1>1, <3>1, ElementOfSeq
    <3>3. Unlabelled(code'.bc[i]) = Unlabelled(code.bc[i])
      BY <1>4 DEF GrowsInto
    <3>4. \A x \in Instruction : Unlabelled(x).op = x.op
      BY DEF Unlabelled, Instruction
    <3> QED BY <3>2, <3>3, <3>4
  <2> QED BY <1>4, <2>1 DEF SameOps, GrowsInto
<1> QED BY <1>3, <1>4, StepGrows

(* A step of the program, before and after.                                *)
Step == Ready /\ TypeOK' /\ NoWrap' /\ [Next]_vars

LEMMA DoStep ==
    ASSUME Step, control # <<>>, NEW c, NEW l, NEW new, Do(c, l, new),
           TasksOK(c.bc, new), InstrsOK(c.bc),
           \A i \in 1 .. Len(c.bc) : c.bc[i].op = "Branch" =>
               \/ c.bc[i].to >= i
               \/ i <= Len(code.bc) /\ c.bc[i].to = code.bc[i].to /\ i - 1 \notin PatchesOf(Top)
               \/ Patched(control, i) /\ i - 1 \notin PatchesOf(Top)
               \/ Patched(new, i)
    PROVE  Kept
<1>1. code' = c /\ control' = new \o Tail(control)
  BY DEF Do
<1>2. SameOps(code.bc, c.bc)
  BY <1>1, StepOps DEF Step, Ready
<1>3. Stream(code.bc) /\ Stream(c.bc)
  BY <1>1, CodeHasBc DEF HasBc, Step, Ready, TypeOK
<1>4. Labelled(code.bc, control) /\ Top = control[1]
  BY DEF Step, Ready, Top
<1>5. Labelled(c.bc, new \o Tail(control))
  BY <1>2, <1>3, <1>4, StepLabelled
<1> QED BY <1>1, <1>5 DEF Kept

(* The step emits one instruction and does nothing else to the bytecode.   *)
LEMMA DoAppend ==
    ASSUME Step, control # <<>>, NEW x \in Instruction,
           x.on \in 0 .. Len(code.bc) + 1, x.to \in 0 .. Len(code.bc) + 1,
           NEW c, NEW l, NEW new, Do(c, l, new), c.bc = Append(code.bc, x),
           TasksOK(c.bc, new),
           \A y \in PatchesOf(Top) : Patched(new, y + 1),
           x.op = "Branch" => x.to >= Len(code.bc) + 1 \/ Patched(new, Len(code.bc) + 1)
    PROVE  Kept
<1> DEFINE b == code.bc
           n == Len(b)
           d == c.bc
<1>1. b \in Seq(Instruction) /\ n \in Nat
  BY DEF Step, Ready, TypeOK, CodeType
<1>2. Len(d) = n + 1 /\ d[n + 1] = x /\ \A i \in 1 .. n : d[i] = b[i]
  BY <1>1, AppendElements
<1>4. InstrsOK(b)
  BY DEF Step, Ready, Labelled
<1> HIDE DEF d, n, b
<1>5. InstrsOK(d)
  <2>1. ASSUME NEW i \in 1 .. Len(d) PROVE InstrOK(d, i)
    <3>1. CASE i = n + 1
      BY <1>2, <3>1 DEF InstrOK, b, n
    <3>2. CASE i \in 1 .. n
      <4>1. InstrOK(b, i)
        BY <1>4, <3>2 DEF InstrsOK, n
      <4>2. \A y : y \in 0 .. n => y \in 0 .. n + 1
        BY <1>1
      <4> QED BY <1>2, <3>2, <4>1, <4>2 DEF InstrOK, n
    <3> QED BY <1>1, <1>2, <3>1, <3>2
  <2> QED BY <2>1 DEF InstrsOK
<1>6. ASSUME NEW i \in 1 .. Len(d), d[i].op = "Branch"
      PROVE  \/ d[i].to >= i
             \/ i <= n /\ d[i].to = b[i].to /\ i - 1 \notin PatchesOf(Top)
             \/ Patched(new, i)
  <2>1. CASE i = n + 1
    BY <1>2, <1>6, <2>1 DEF n, b
  <2>2. CASE i \in 1 .. n
    <3>1. (i - 1) + 1 = i
      BY <2>2
    <3> QED BY <1>2, <2>2, <3>1
  <2> QED BY <1>1, <1>2, <2>1, <2>2
<1> QED BY <1>5, <1>6, DoStep DEF d, n, b

(* The bytecode and the labels of a step that emits one instruction.       *)
LEMMA AppendLabels ==
    ASSUME Step, NEW x, NEW c, NEW l, NEW new, Do(c, l, new), c.bc = Append(code.bc, x)
    PROVE  /\ Len(code.bc) \in Nat
           /\ FollowingInstr(code, 1) = Len(code.bc) + 1 /\ EmitLabel(code) = Len(code.bc)
           /\ Len(c.bc) = Len(code.bc) + 1 /\ c.bc[Len(code.bc) + 1] = x
           /\ c \in CodeType /\ Len(c.bc) < U16
<1>1. code' = c /\ c \in CodeType /\ Len(c.bc) < U16
  BY DEF Do, Step, TypeOK, NoWrap
<1>2. code \in CodeType /\ Len(code.bc) \in Nat
  BY ReadyCode DEF Step
<1>3. Len(c.bc) = Len(code.bc) + 1
  BY <1>2 DEF CodeType
<1>4. c.bc[Len(code.bc) + 1] = x
  <2>1. c.bc \in Seq(Instruction) /\ Len(code.bc) + 1 \in 1 .. Len(c.bc)
    BY <1>1, <1>2, <1>3 DEF CodeType
  <2>2. code.bc \in Seq(Instruction)
    BY <1>2 DEF CodeType
  <2> QED BY <1>2, <1>3, <2>1, <2>2
<1>5. FollowingInstr(code, 1) = Len(code.bc) + 1 /\ EmitLabel(code) = Len(code.bc)
  BY <1>1, <1>2, <1>3, LabelValues
<1> QED BY <1>1, <1>2, <1>3, <1>4, <1>5

(* Freeing an operand and closing a scope leave the bytecode alone.        *)
LEMMA BcKept ==
    ASSUME NEW c, "bc" \in DOMAIN c
    PROVE  /\ \A x : FreeLocal(c, x).bc = c.bc
           /\ \A st : ScopeEnd(st, c).bc = c.bc /\ ScopeHwmEnd(st, c).bc = c.bc
           /\ \A i : "bc" \in DOMAIN Emit(c, i) /\ Emit(c, i).bc = Append(c.bc, i)
<1>1. \A x : FreeLocal(c, x).bc = c.bc
  BY DEF FreeLocal, FreeReg
<1>2. \A st : ScopeEnd(st, c).bc = c.bc /\ ScopeHwmEnd(st, c).bc = c.bc
  BY DEF ScopeEnd, ScopeHwmEnd
<1>3. \A i : "bc" \in DOMAIN Emit(c, i) /\ Emit(c, i).bc = Append(c.bc, i)
  BY DEF Emit
<1> QED BY <1>1, <1>2, <1>3

LEMMA BranchBc ==
    ASSUME Step, NEW on, NEW to, NEW c,
           c = FreeLocal(Emit(code, Branch(Local(0).mi, on, to)), Local(0))
    PROVE  c.bc = Append(code.bc, Branch(Local(0).mi, on, to))
<1>1. "bc" \in DOMAIN code
  BY ReadyCode DEF Step, HasBc
<1> DEFINE d == Emit(code, Branch(Local(0).mi, on, to))
<1>2. "bc" \in DOMAIN d /\ d.bc = Append(code.bc, Branch(Local(0).mi, on, to))
  BY <1>1, BcKept
<1>3. c = FreeLocal(d, Local(0))
  OBVIOUS
<1> HIDE DEF d
<1> QED BY <1>2, <1>3, BcKept

(* A branch behind which a pending task t is to set the exit.              *)
LEMMA ExitTask ==
    ASSUME Step, NEW c, NEW l, NEW new, NEW on, NEW to, NEW t,
           c = FreeLocal(Emit(code, Branch(Local(0).mi, on, to)), Local(0)), Do(c, l, new),
           PatchesOf(t) = {EmitLabel(code)}, t.k \in {"ThenEnd", "LoopEnd", "TernaryThen"},
           t.k = "LoopEnd" => t.top \in 0 .. Len(code.bc) /\ Len(t.branch) <= 1
    PROVE  TaskOK(c.bc, t)
<1> DEFINE x == Branch(Local(0).mi, on, to)
           n == Len(code.bc)
<1>1. c.bc = Append(code.bc, x)
  BY BranchBc
<1>2. n \in Nat /\ EmitLabel(code) = n /\ Len(c.bc) = n + 1 /\ c.bc[n + 1] = x
  BY <1>1, AppendLabels
<1>3. x.op = "Branch"
  BY Opcode
<1> HIDE DEF x, n
<1>4. PatchesOf(t) = {n} /\ n \in 0 .. Len(c.bc) - 1
  BY <1>2
<1>5. c.bc[n + 1].op = "Branch" /\ "Branch" \in Patchable
  BY <1>2, <1>3 DEF Patchable
<1>6. t.k = "LoopEnd" => t.top \in 0 .. Len(c.bc) /\ Len(t.branch) <= 1
  BY <1>2 DEF n
<1> QED BY <1>4, <1>5, <1>6 DEF TaskOK

LEMMA DoExit ==
    ASSUME Step, control # <<>>, PatchesOf(Top) = {}, NEW c, NEW l, NEW new,
           c = FreeLocal(Emit(code, Branch(Local(0).mi, FollowingInstr(code, 1), 0)), Local(0)),
           Do(c, l, new), TasksOK(c.bc, new),
           \E n \in 1 .. Len(new) : EmitLabel(code) \in PatchesOf(new[n])
    PROVE  Kept
<1> DEFINE x == Branch(Local(0).mi, FollowingInstr(code, 1), 0)
           n == Len(code.bc)
<1>1. c.bc = Append(code.bc, x)
  BY BranchBc
<1>2. /\ n \in Nat /\ FollowingInstr(code, 1) = n + 1 /\ EmitLabel(code) = n
      /\ Len(c.bc) = n + 1 /\ c.bc[n + 1] = x /\ c \in CodeType
  BY <1>1, AppendLabels
<1>3. x.op = "Branch" /\ x.on = n + 1 /\ x.to = 0
  BY <1>2, Opcode
<1>4. x \in Instruction
  <2>1. n + 1 \in 1 .. Len(c.bc) /\ c.bc \in Seq(Instruction)
    BY <1>2 DEF CodeType
  <2> QED BY <1>2, <2>1, ElementOfSeq
<1> HIDE DEF x, n
<1>5. x.on \in 0 .. n + 1 /\ x.to \in 0 .. n + 1
  BY <1>2, <1>3
<1>6. Patched(new, n + 1)
  <2>1. (n + 1) - 1 = EmitLabel(code)
    BY <1>2
  <2> QED BY <2>1 DEF Patched
<1> QED BY <1>1, <1>4, <1>5, <1>6, DoAppend DEF n

LEMMA LastTask ==
    ASSUME NEW s, Stream(s), NEW t
    PROVE  \E n \in 1 .. Len(s \o <<t>>) : (s \o <<t>>)[n] = t
<1>1. Stream(<<t>>) /\ Len(<<t>>) = 1 /\ <<t>>[1] = t /\ 1 \in 1 .. 1
  <2>1. <<t>> \in Seq({t}) /\ Len(<<t>>) = 1 /\ <<t>>[1] = t
    OBVIOUS
  <2>2. Stream(<<t>>)
    BY <2>1 DEF Stream
  <2>3. 1 \in 1 .. 1
    OBVIOUS
  <2> QED BY <2>1, <2>2, <2>3
<1>2. /\ Len(s) \in Nat /\ Len(s \o <<t>>) = Len(s) + 1
      /\ (s \o <<t>>)[Len(s) + 1] = t
  BY <1>1, StreamConcat
<1>3. Len(s) + 1 \in 1 .. Len(s \o <<t>>)
  BY <1>2
<1> QED BY <1>2, <1>3

LEMMA LabelsOfIf == ASSUME Step, IfBranch PROVE Kept
<1> DEFINE c == FreeLocal(Emit(code, Branch(Local(0).mi, FollowingInstr(code, 1), 0)), Local(0))
           t == [k |-> "ThenEnd", st |-> Top.st, orelse |-> Top.orelse, branch |-> EmitLabel(code)]
           pre == Body(Top.body)
<1>1. At("IfBranch") /\ "IfBranch" \in Calm
  BY DEF IfBranch, Calm
<1>2. control # <<>> /\ PatchesOf(Top) = {} /\ Top.body \in Seq(Stmts)
  BY <1>1, CalmTop, AtTypes, TaskFields DEF Step, Ready
<1>3. Do(c, Pop(1), pre \o <<t>>)
  BY DEF IfBranch
<1>4. PatchesOf(t) = {EmitLabel(code)} /\ t.k = "ThenEnd"
  BY DEF PatchesOf
<1>5. TasksOK(c.bc, pre)
  BY <1>2, TasksBody
<1> HIDE DEF t, pre
<1>6. TaskOK(c.bc, t)
  BY <1>3, <1>4, ExitTask
<1>7. TasksOK(c.bc, pre \o <<t>>)
  BY <1>5, <1>6, TasksOne, TasksConcat
<1>8. \E n \in 1 .. Len(pre \o <<t>>) : EmitLabel(code) \in PatchesOf((pre \o <<t>>)[n])
  BY <1>4, <1>5, LastTask DEF TasksOK
<1> HIDE DEF c
<1> QED BY <1>2, <1>3, <1>7, <1>8, DoExit DEF c

LEMMA LabelsOfTernary == ASSUME Step, TernaryBranch PROVE Kept
<1> DEFINE c == FreeLocal(Emit(code, Branch(Local(0).mi, FollowingInstr(code, 1), 0)), Local(0))
           t == [k |-> "TernaryThen", st |-> SaveRegs(c), f |-> Top.f, dest |-> Top.dest,
                 branch |-> EmitLabel(code)]
           new == <<Into(Top.t, Top.dest), t>>
<1>1. At("TernaryBranch") /\ "TernaryBranch" \in Calm
  BY DEF TernaryBranch, Calm
<1>2. control # <<>> /\ PatchesOf(Top) = {}
  BY <1>1, CalmTop
<1>3. Do(c, Pop(1), new)
  BY DEF TernaryBranch
<1>4. PatchesOf(t) = {EmitLabel(code)} /\ t.k = "TernaryThen"
  BY DEF PatchesOf
<1>5. Len(new) = 2 /\ new[2] = t
  OBVIOUS
<1>6. TaskOK(c.bc, t)
  <2> HIDE DEF t, new
  <2> QED BY <1>3, <1>4, ExitTask
<1>7. TasksOK(c.bc, new)
  BY <1>6, TasksTwo, CalmCalls, CalmOK
<1> HIDE DEF t, new
<1>8. \E n \in 1 .. Len(new) : EmitLabel(code) \in PatchesOf(new[n])
  BY <1>4, <1>5
<1> HIDE DEF c
<1> QED BY <1>2, <1>3, <1>7, <1>8, DoExit DEF c

LEMMA LabelsOfLoopBranch == ASSUME Step, LoopBranch PROVE Kept
<1> DEFINE c == FreeLocal(Emit(code, Branch(Local(0).mi, FollowingInstr(code, 1), 0)), Local(0))
           t == [k |-> "LoopEnd", top |-> Top.top, branch |-> <<EmitLabel(code)>>]
           pre == Body(Top.body) \o Simple(Top.update)
<1>1. At("LoopBranch") /\ control # <<>> /\ Top.k = "LoopBranch"
  BY DEF LoopBranch, At, Top
<1>2. PatchesOf(Top) = {} /\ Top.body \in Seq(Stmts)
  BY <1>1, AtTypes, TaskFields DEF Step, Ready, PatchesOf
<1>3. Do(c, Pop(1), pre \o <<t>>)
  BY DEF LoopBranch
<1>4. /\ PatchesOf(t) = {EmitLabel(code)} /\ t.k = "LoopEnd" /\ t.top = Top.top
      /\ Len(t.branch) <= 1
  <2>1. Len(<<EmitLabel(code)>>) = 1 /\ <<EmitLabel(code)>>[1] = EmitLabel(code)
    OBVIOUS
  <2>2. \A i \in 1 .. 1 : i = 1
    OBVIOUS
  <2>3. PatchesOf(t) = {<<EmitLabel(code)>>[i] : i \in 1 .. Len(<<EmitLabel(code)>>)}
    BY DEF PatchesOf
  <2> QED BY <2>1, <2>2, <2>3
<1>5. TasksOK(c.bc, pre)
  BY <1>2, TasksBody, TasksSimple, TasksConcat
<1>6. Top.top \in 0 .. Len(code.bc)
  BY <1>1, TopOK DEF Step, TaskOK
<1> HIDE DEF t, pre
<1>7. TaskOK(c.bc, t)
  BY <1>3, <1>4, <1>6, ExitTask
<1>8. TasksOK(c.bc, pre \o <<t>>)
  BY <1>5, <1>7, TasksOne, TasksConcat
<1>9. \E n \in 1 .. Len(pre \o <<t>>) : EmitLabel(code) \in PatchesOf((pre \o <<t>>)[n])
  BY <1>4, <1>5, LastTask DEF TasksOK
<1> HIDE DEF c
<1> QED BY <1>1, <1>2, <1>3, <1>8, <1>9, DoExit DEF c

(* The branch back of a do-while leads on behind itself.                   *)
LEMMA LabelsOfDoBranch == ASSUME Step, DoBranch PROVE Kept
<1> DEFINE x == Branch(Local(0).mi, Top.top, FollowingInstr(code, 1))
           c == FreeLocal(Emit(code, x), Local(0))
           n == Len(code.bc)
<1>1. At("DoBranch") /\ control # <<>> /\ Top.k = "DoBranch"
  BY DEF DoBranch, At, Top
<1>2. PatchesOf(Top) = {}
  BY <1>1 DEF PatchesOf
<1>3. Top.top \in 0 .. n
  BY <1>1, TopOK DEF Step, TaskOK
<1>4. Do(c, Pop(1), <<>>)
  BY DEF DoBranch
<1>5. c.bc = Append(code.bc, x)
  BY BranchBc
<1>6. /\ n \in Nat /\ FollowingInstr(code, 1) = n + 1
      /\ Len(c.bc) = n + 1 /\ c.bc[n + 1] = x /\ c \in CodeType
  BY <1>4, <1>5, AppendLabels
<1>7. x.op = "Branch" /\ x.on = Top.top /\ x.to = n + 1
  BY <1>6, Opcode
<1>8. x \in Instruction
  <2>1. n + 1 \in 1 .. Len(c.bc) /\ c.bc \in Seq(Instruction)
    BY <1>6 DEF CodeType
  <2> QED BY <1>6, <2>1, ElementOfSeq
<1> HIDE DEF x, c, n
<1>9. x.on \in 0 .. n + 1 /\ x.to \in 0 .. n + 1 /\ x.to >= n + 1
  BY <1>3, <1>6, <1>7
<1> QED BY <1>1, <1>2, <1>4, <1>5, <1>8, <1>9, TasksNone, DoAppend DEF n

(* The end of a ternary's first arm: the jump over the second is left to   *)
(* the task that also has the branch to set.                               *)
LEMMA LabelsOfThenArm == ASSUME Step, TernaryThen PROVE Kept
<1> DEFINE x == Jump(0)
           c == Emit(ScopeEnd(Top.st, code), x)
           n == Len(code.bc)
           t == [k |-> "TernaryElse", st |-> AfterScope(Top.st, code), branch |-> Top.branch,
                 jump |-> EmitLabel(code), label |-> FollowingInstr(c, 0)]
           new == <<Into(Top.f, Top.dest), t>>
<1>1. control # <<>> /\ Top.k = "TernaryThen"
  BY DEF TernaryThen, At, Top
<1>2. PatchesOf(Top) = {Top.branch}
  BY <1>1 DEF PatchesOf
<1>3. Top.branch \in 0 .. n - 1 /\ code.bc[Top.branch + 1].op \in Patchable
  BY <1>1, <1>2, TopOK DEF Step, TaskOK
<1>4. Do(c, locals, new)
  BY DEF TernaryThen
<1>5. c.bc = Append(code.bc, x)
  <2>1. "bc" \in DOMAIN code
    BY ReadyCode DEF Step, HasBc
  <2> DEFINE d == ScopeEnd(Top.st, code)
  <2>2. "bc" \in DOMAIN d /\ d.bc = code.bc
    BY <2>1, BcKept DEF ScopeEnd
  <2>3. c = Emit(d, x)
    OBVIOUS
  <2> HIDE DEF d, c
  <2> QED BY <2>2, <2>3, BcKept
<1>6. /\ n \in Nat /\ EmitLabel(code) = n
      /\ Len(c.bc) = n + 1 /\ c.bc[n + 1] = x /\ c \in CodeType /\ Len(c.bc) < U16
  <2> HIDE DEF c, x, new
  <2> QED BY <1>4, <1>5, AppendLabels
<1>7. FollowingInstr(c, 0) = n + 1
  <2> HIDE DEF c
  <2> QED BY <1>6, LabelValues
<1>8. x.op = "Jump" /\ x.on = 0 /\ x.to = 0 /\ x.op \in Patchable /\ x.op # "Branch"
  BY Opcode DEF Patchable
<1>9. x \in Instruction
  <2>1. n + 1 \in 1 .. Len(c.bc) /\ c.bc \in Seq(Instruction)
    BY <1>6 DEF CodeType
  <2> QED BY <1>6, <2>1, ElementOfSeq
<1>10. PatchesOf(t) = {Top.branch, n} /\ t.k = "TernaryElse" /\ t.label = n + 1 /\ t.branch = Top.branch
  BY <1>6, <1>7 DEF PatchesOf
<1>11. Len(new) = 2 /\ new[2] = t
  OBVIOUS
<1> HIDE DEF x, c, n, t
<1>12. TaskOK(c.bc, t)
  <2>1. c.bc[Top.branch + 1] = code.bc[Top.branch + 1]
    <3>1. code.bc \in Seq(Instruction) /\ Top.branch + 1 \in 1 .. Len(code.bc)
      BY <1>3 DEF n, Step, Ready, TypeOK, CodeType
    <3> QED BY <1>5, <1>9, <3>1, AppendElements
  <2>2. Top.branch \in 0 .. Len(c.bc) - 1 /\ n \in 0 .. Len(c.bc) - 1
        /\ n + 1 \in 0 .. Len(c.bc) /\ Top.branch < n + 1
    BY <1>3, <1>6
  <2> QED BY <1>3, <1>6, <1>8, <1>10, <2>1, <2>2 DEF TaskOK
<1>13. TasksOK(c.bc, new)
  BY <1>12, TasksTwo, CalmCalls, CalmOK
<1>14. \A y \in PatchesOf(Top) : Patched(new, y + 1)
  <2>1. (Top.branch + 1) - 1 = Top.branch
    BY <1>3
  <2> HIDE DEF new
  <2> QED BY <1>2, <1>10, <1>11, <2>1 DEF Patched
<1>15. x.on \in 0 .. n + 1 /\ x.to \in 0 .. n + 1
  BY <1>6, <1>8
<1> HIDE DEF new
<1> QED BY <1>1, <1>4, <1>5, <1>8, <1>9, <1>13, <1>14, <1>15, DoAppend DEF n

(* Bytecode b has labels up to m, and the exits of its branches lie behind *)
(* them but for those of P.                                                *)
Owes(b, m, P) ==
    \A i \in 1 .. Len(b) :
        /\ b[i].op \in Patchable => b[i].to \in 0 .. m /\ b[i].on \in 0 .. m
        /\ b[i].op = "Branch" => b[i].to >= i \/ i - 1 \in P

Pending == UNION {PatchesOf(control[n]) : n \in 1 .. Len(control)}

LEMMA OwesStart == ASSUME Ready PROVE Owes(code.bc, Len(code.bc), Pending)
<1>1. InstrsOK(code.bc) /\ \A i \in 1 .. Len(code.bc) : Forward(code.bc, control, i)
  BY DEF Ready, Labelled
<1>2. \A i : Patched(control, i) => i - 1 \in Pending
  BY DEF Patched, Pending
<1> QED BY <1>1, <1>2 DEF Owes, InstrsOK, InstrOK, Forward

LEMMA OwesLater ==
    ASSUME NEW b, NEW m \in Nat, NEW k \in Nat, m <= k, NEW P, Owes(b, m, P)
    PROVE  Owes(b, k, P)
<1>1. \A x : x \in 0 .. m => x \in 0 .. k
  OBVIOUS
<1> QED BY <1>1 DEF Owes

(* Setting a label pays for it.                                            *)
Due(c, l, to, m, P) ==
    /\ c \in CodeType /\ m \in Nat /\ Owes(c.bc, m, P)
    /\ l \in Nat /\ l < Len(c.bc) /\ c.bc[l+1].op \in Patchable
    /\ to \in Nat /\ l < to /\ to <= m

Paid(c, d, l, m, P) ==
    /\ d \in CodeType /\ Len(d.bc) = Len(c.bc)
    /\ \A i \in 1 .. Len(c.bc) : d.bc[i].op = c.bc[i].op
    /\ Owes(d.bc, m, P \ {l})

LEMMA OwesSet ==
    ASSUME NEW c, NEW l, NEW to, NEW m, NEW P, Due(c, l, to, m, P)
    PROVE  Paid(c, SetLabel(c, l, to), l, m, P)
<1> DEFINE d == SetLabel(c, l, to).bc
           b == c.bc
<1>0. /\ c \in CodeType /\ m \in Nat /\ Owes(c.bc, m, P)
      /\ l \in Nat /\ l < Len(c.bc) /\ c.bc[l+1].op \in Patchable
      /\ to \in Nat /\ l < to /\ to <= m
  BY DEF Due
<1>1. b \in Seq(Instruction) /\ Len(b) \in Nat
  BY <1>0 DEF CodeType
<1>2. l \in Nat /\ to \in Nat /\ l + 1 \in 1 .. Len(b) /\ to \in 0 .. m /\ to >= l + 1
  BY <1>0, <1>1
<1>3. /\ SetLabel(c, l, to) \in CodeType /\ Len(d) = Len(b)
      /\ \A i \in 1 .. Len(b) :
            d[i] = IF i = l+1 /\ b[i].op \in Patchable THEN [b[i] EXCEPT !.to = to] ELSE b[i]
  BY <1>0, <1>2, SetLabelProperties
<1>4. \A i \in 1 .. Len(b) : b[i] \in Instruction
  BY <1>1, ElementOfSeq
<1> HIDE DEF d, b
<1>5. b[l+1].op \in Patchable /\ d[l+1].to = to /\ d[l+1].on = b[l+1].on /\ d[l+1].op = b[l+1].op
  <2>1. d[l+1] = [b[l+1] EXCEPT !.to = to] /\ b[l+1] \in Instruction
    BY <1>0, <1>2, <1>3, <1>4 DEF b
  <2> QED BY <1>0, <2>1 DEF b, Instruction
<1>6. \A i \in 1 .. Len(b) : i # l + 1 => d[i] = b[i]
  BY <1>3
<1>7. Owes(b, m, P)
  BY <1>0 DEF b
<1>8. Owes(d, m, P \ {l})
  <2>1. ASSUME NEW i \in 1 .. Len(d)
        PROVE  /\ d[i].op \in Patchable => d[i].to \in 0 .. m /\ d[i].on \in 0 .. m
               /\ d[i].op = "Branch" => d[i].to >= i \/ i - 1 \in P \ {l}
    <3>1. CASE i = l + 1
      BY <1>2, <1>3, <1>5, <1>7, <3>1 DEF Owes
    <3>2. CASE i # l + 1
      <4>1. d[i] = b[i] /\ i - 1 # l /\ i \in 1 .. Len(b)
        BY <1>2, <1>3, <1>6, <3>2
      <4> QED BY <1>7, <4>1 DEF Owes
    <3> QED BY <3>1, <3>2
  <2> QED BY <2>1 DEF Owes
<1>9. \A i \in 1 .. Len(b) : d[i].op = b[i].op
  BY <1>5, <1>6
<1> QED BY <1>3, <1>8, <1>9 DEF d, b, Paid

(* push_start_label moves the start of a branch by one.                    *)
LEMMA OwesPush ==
    ASSUME NEW c \in CodeType, NEW m \in Nat, NEW P, Owes(c.bc, m, P), m + 1 < U16,
           NEW l \in Nat, l < Len(c.bc), c.bc[l+1].op = "Branch"
    PROVE  /\ PushStartLabel(c, l) \in CodeType
           /\ Len(PushStartLabel(c, l).bc) = Len(c.bc)
           /\ Owes(PushStartLabel(c, l).bc, m + 1, P)
<1> DEFINE b == c.bc
           on == b[l+1].on
           x == [b[l+1] EXCEPT !.on = (on + 1) % U16]
           d == [b EXCEPT ![l+1] = x]
<1>1. b \in Seq(Instruction) /\ Len(b) \in Nat /\ l \in Nat /\ l + 1 \in 1 .. Len(b)
  BY DEF CodeType
<1>2. b[l+1] \in Instruction /\ on \in 0 .. m
  <2>1. b[l+1] \in Instruction
    BY <1>1, ElementOfSeq
  <2> QED BY <1>1, <2>1 DEF Owes, Patchable
<1>3. (on + 1) % U16 = on + 1
  <2>1. on + 1 \in Nat /\ U16 \in Nat /\ on + 1 < U16
    BY <1>2, WidthAssumption
  <2> QED BY <2>1, ModuloSmall
<1>4. PushStartLabel(c, l) = [c EXCEPT !.bc = d]
  BY DEF PushStartLabel, CodeType
<1>5. PushStartLabel(c, l).bc = d
  BY <1>4 DEF CodeType
<1>6. PushStartLabel(c, l) \in CodeType /\ Len(d) = Len(b)
  BY <1>1, <1>5, PushStartLabelProperties
<1>7. x.on = on + 1 /\ x.to = b[l+1].to /\ x.op = b[l+1].op
  BY <1>2, <1>3 DEF Instruction
<1>8. \A i \in 1 .. Len(b) : d[i] = IF i = l + 1 THEN x ELSE b[i]
  BY <1>1
<1>9. Owes(b, m, P)
  OBVIOUS
<1>10. \A y : y \in 0 .. m => y \in 0 .. m + 1 /\ y + 1 \in 0 .. m + 1
  OBVIOUS
<1> HIDE DEF d, x, b, on
<1>11. Owes(d, m + 1, P)
  <2>1. ASSUME NEW i \in 1 .. Len(d)
        PROVE  /\ d[i].op \in Patchable => d[i].to \in 0 .. m + 1 /\ d[i].on \in 0 .. m + 1
               /\ d[i].op = "Branch" => d[i].to >= i \/ i - 1 \in P
    <3>1. CASE i = l + 1
      BY <1>1, <1>2, <1>6, <1>7, <1>8, <1>9, <1>10, <3>1 DEF Owes
    <3>2. CASE i # l + 1
      BY <1>6, <1>8, <1>9, <1>10, <3>2 DEF Owes
    <3> QED BY <3>1, <3>2
  <2> QED BY <2>1 DEF Owes
<1> QED BY <1>5, <1>6, <1>11 DEF b

LEMMA OwesEmit ==
    ASSUME NEW c \in CodeType, NEW m \in Nat, NEW P, Owes(c.bc, m, P), NEW to \in 0 .. m
    PROVE  /\ Emit(c, Jump(to)) \in CodeType
           /\ Len(Emit(c, Jump(to)).bc) = Len(c.bc) + 1
           /\ \A i \in 1 .. Len(c.bc) : Emit(c, Jump(to)).bc[i] = c.bc[i]
           /\ Emit(c, Jump(to)).bc[Len(c.bc) + 1].op = "Jump"
           /\ Owes(Emit(c, Jump(to)).bc, m, P)
<1> DEFINE x == Jump(to)
           b == c.bc
           d == Emit(c, x).bc
<1>1. x \in Instruction /\ x.op = "Jump" /\ x.to \in 0 .. m /\ x.on \in 0 .. m
  <2>1. to \in Nat /\ 0 \in 0 .. m
    OBVIOUS
  <2> QED BY <2>1, JumpType, Opcode
<1> HIDE DEF x
<1>2. Emit(c, x) \in CodeType /\ d = Append(b, x)
  BY <1>1, EmitProperties
<1>3. b \in Seq(Instruction) /\ Len(b) \in Nat
  BY DEF CodeType
<1>4. Len(d) = Len(b) + 1 /\ d[Len(b) + 1] = x /\ \A i \in 1 .. Len(b) : d[i] = b[i]
  BY <1>1, <1>2, <1>3, AppendElements
<1>5. Owes(b, m, P)
  OBVIOUS
<1> HIDE DEF b, d
<1>6. Owes(d, m, P)
  <2>1. \A i \in 1 .. Len(d) : i \in 1 .. Len(b) \/ i = Len(b) + 1
    BY <1>3, <1>4
  <2> QED BY <1>1, <1>4, <1>5, <2>1 DEF Owes
<1> QED BY <1>1, <1>2, <1>4, <1>6 DEF x, b, d

(* The step has set every label the top task had to set.                   *)
LEMMA DoPatch ==
    ASSUME Step, control # <<>>, NEW c, NEW l, NEW new, Do(c, l, new), TasksOK(c.bc, new),
           NEW P, P \subseteq Pending, P \cap PatchesOf(Top) = {}, Owes(c.bc, Len(c.bc), P)
    PROVE  Kept
<1>1. InstrsOK(c.bc)
  BY DEF Owes, InstrsOK, InstrOK
<1>2. \A i : i - 1 \in P => Patched(control, i) /\ i - 1 \notin PatchesOf(Top)
  BY DEF Pending, Patched
<1>3. \A i \in 1 .. Len(c.bc) : c.bc[i].op = "Branch" =>
          c.bc[i].to >= i \/ (Patched(control, i) /\ i - 1 \notin PatchesOf(Top))
  BY <1>2 DEF Owes
<1> QED BY <1>1, <1>3, DoStep

LEMMA LabelsOfThenEnd == ASSUME Step, ThenEnd PROVE Kept
<1> DEFINE n == Len(code.bc)
           at == Top.branch
           P == Pending \ {at}
           patched == SetLabel(code, at, FollowingInstr(code, 0))
           pushed == PushStartLabel(patched, at)
           c == Emit(pushed, Jump(0))
           t == [k |-> "ElseEnd", st |-> [Top.st EXCEPT !.reg_pointer = @ + 1],
                 jump |-> EmitLabel(code)]
           new == Body(Top.orelse[1]) \o <<t>>
<1>1. control # <<>> /\ Top.k = "ThenEnd" /\ Ready
  BY DEF ThenEnd, At, Top, Step
<1>2. PatchesOf(Top) = {at}
  BY <1>1 DEF PatchesOf
<1>3. at \in 0 .. n - 1 /\ code.bc[at + 1].op = "Branch" /\ "Branch" \in Patchable
  BY <1>1, <1>2, TopOK DEF TaskOK, Patchable
<1>4. /\ n \in Nat /\ code \in CodeType /\ FollowingInstr(code, 0) = n
      /\ n \in at + 1 .. n /\ at + 1 \in 1 .. n
  BY <1>1, <1>3, ReadyCode, HereIsLabel
<1>5. /\ patched \in CodeType /\ Len(patched.bc) = n /\ patched.bc[at + 1].op = "Branch"
      /\ Owes(patched.bc, n, P)
  <2> DEFINE c1 == SetLabel(code, at, n)
  <2>1. Owes(code.bc, n, Pending) /\ at \in Nat /\ at < Len(code.bc) /\ at < n /\ n <= n
    BY <1>1, <1>3, <1>4, OwesStart
  <2> HIDE DEF n, at
  <2>2. /\ c1 \in CodeType /\ Len(c1.bc) = Len(code.bc)
        /\ \A i \in 1 .. Len(code.bc) : c1.bc[i].op = code.bc[i].op
        /\ Owes(c1.bc, n, P)
    <3>1. Due(code, at, n, n, Pending)
      BY <1>3, <1>4, <2>1 DEF Due, n
    <3> HIDE DEF c1
    <3>2. Paid(code, SetLabel(code, at, n), at, n, Pending)
      BY <3>1, OwesSet
    <3> QED BY <3>2 DEF Paid, c1
  <2>3. patched = c1
    BY <1>4
  <2>4. code.bc[at + 1].op = "Branch" /\ at + 1 \in 1 .. Len(code.bc) /\ n = Len(code.bc)
    BY <1>3, <1>4 DEF n
  <2> HIDE DEF patched, c1, P
  <2> QED BY <2>2, <2>3, <2>4
<1>6. P \subseteq Pending /\ P \cap PatchesOf(Top) = {}
  BY <1>2
<1>7. CASE Top.orelse = <<>>
  <2>1. Do(patched, locals, <<>>)
    BY <1>7 DEF ThenEnd
  <2> HIDE DEF patched, P
  <2> QED BY <1>1, <1>5, <1>6, <2>1, TasksNone, DoPatch
<1>8. CASE Top.orelse # <<>>
  <2>1. Do(c, locals, new)
    BY <1>8 DEF ThenEnd
  <2>2. code' = c /\ Len(c.bc) < U16
    BY <2>1 DEF Do, Step, NoWrap
  <2>3. Len(pushed.bc) = n /\ pushed \in CodeType
    <3>1. at \in Nat
      BY <1>3
    <3> HIDE DEF patched
    <3> QED BY <1>5, <3>1, PushStartLabelProperties
  <2>4. Len(c.bc) = n + 1
    <3> HIDE DEF pushed
    <3>1. pushed.bc \in Seq(Instruction) /\ "bc" \in DOMAIN pushed
      BY <2>3 DEF CodeType
    <3>2. c.bc = Append(pushed.bc, Jump(0))
      BY <3>1, BcKept
    <3> QED BY <2>3, <3>1, <3>2
  <2>5. Owes(pushed.bc, n + 1, P)
    <3>1. at \in Nat /\ at < Len(patched.bc)
      BY <1>3, <1>4, <1>5
    <3>2. n + 1 < U16
      BY <2>2, <2>4
    <3> HIDE DEF patched, P, n, at
    <3> QED BY <1>4, <1>5, <3>1, <3>2, OwesPush
  <2>6. /\ Owes(c.bc, n + 1, P) /\ c.bc[n + 1].op = "Jump"
    <3>1. 0 \in 0 .. n + 1 /\ n + 1 \in Nat
      BY <1>4
    <3>2. c = Emit(pushed, Jump(0))
      OBVIOUS
    <3> HIDE DEF pushed, P, c
    <3>3. /\ Owes(Emit(pushed, Jump(0)).bc, n + 1, P)
          /\ Emit(pushed, Jump(0)).bc[Len(pushed.bc) + 1].op = "Jump"
      BY <2>3, <2>5, <3>1, OwesEmit
    <3> QED BY <2>3, <3>2, <3>3
  <2>7. EmitLabel(code) = n
    <3>1. n + 0 < U16 /\ 0 \in Nat
      BY <1>4, <2>2, <2>4, WidthAssumption
    <3> QED BY <1>4, <3>1, LabelValues
  <2>8. PatchesOf(t) = {n} /\ t.k = "ElseEnd"
    BY <2>7 DEF PatchesOf
  <2> HIDE DEF c, t
  <2>9. TaskOK(c.bc, t)
    <3>1. n \in 0 .. Len(c.bc) - 1 /\ "Jump" \in Patchable
      BY <1>4, <2>4 DEF Patchable
    <3> QED BY <2>6, <2>8, <3>1 DEF TaskOK
  <2>10. Top.orelse[1] \in Seq(Stmts)
    <3>1. Top.orelse \in Seq(Seq(Stmts))
      BY <1>1, TopOK, TaskFields
    <3>2. 1 \in 1 .. Len(Top.orelse)
      BY <1>8, <3>1, EmptySeq
    <3> QED BY <3>1, <3>2, ElementOfSeq
  <2>11. TasksOK(c.bc, new)
    BY <2>9, <2>10, TasksBody, TasksOne, TasksConcat
  <2> HIDE DEF new, P
  <2> QED BY <1>1, <1>6, <2>1, <2>4, <2>6, <2>11, DoPatch
<1> QED BY <1>7, <1>8

LEMMA LabelsOfElseEnd == ASSUME Step, ElseEnd PROVE Kept
<1> DEFINE n == Len(code.bc)
           at == Top.jump
           P == Pending \ {at}
           c == ScopeHwmEnd(Top.st, code)
           d == SetLabel(c, at, FollowingInstr(c, 0))
<1>1. control # <<>> /\ Top.k = "ElseEnd" /\ Ready
  BY DEF ElseEnd, At, Top, Step
<1>2. PatchesOf(Top) = {at} /\ Top \in Tasks
  BY <1>1, TopOK DEF PatchesOf
<1>3. at \in 0 .. n - 1 /\ code.bc[at + 1].op \in Patchable
  BY <1>1, <1>2, TopOK DEF TaskOK
<1>4. c \in CodeType /\ c.bc = code.bc
  BY <1>1, <1>2, ReadyCode, TaskFields, ScopeTypes, BcKept DEF HasBc
<1>5. n \in Nat /\ n \in at + 1 .. n
  BY <1>1, <1>3, ReadyCode
<1>6. FollowingInstr(c, 0) = n
  BY <1>1, <1>4, HereIsLabel DEF FollowingInstr
<1>7. P \subseteq Pending /\ P \cap PatchesOf(Top) = {}
  BY <1>2
<1>8. Do(d, locals, <<>>)
  BY DEF ElseEnd
<1>9. Owes(c.bc, n, Pending)
  BY <1>1, <1>4, OwesStart
<1>10. Len(d.bc) = n /\ Owes(d.bc, n, P)
  <2> DEFINE e == SetLabel(c, at, n)
  <2>1. d = e
    BY <1>6
  <2> HIDE DEF c, d
  <2>2. Len(e.bc) = Len(c.bc) /\ Owes(e.bc, n, Pending \ {at})
    <3>1. Due(c, at, n, n, Pending)
      BY <1>3, <1>4, <1>5, <1>9 DEF Due
    <3> HIDE DEF n, at, e
    <3>2. Paid(c, SetLabel(c, at, n), at, n, Pending)
      BY <3>1, OwesSet
    <3> QED BY <3>2 DEF Paid, e
  <2> QED BY <1>4, <2>1, <2>2
<1> HIDE DEF d, P
<1> QED BY <1>1, <1>7, <1>8, <1>10, TasksNone, DoPatch

LEMMA LabelsOfLoopEnd == ASSUME Step, LoopEnd PROVE Kept
<1> DEFINE n == Len(code.bc)
           c == Emit(code, Jump(Top.top))
           at == Top.branch[1]
           d == SetLabel(c, at, FollowingInstr(c, 0))
<1>1. control # <<>> /\ Top.k = "LoopEnd" /\ Ready
  BY DEF LoopEnd, At, Top, Step
<1>2. /\ TaskOK(code.bc, Top) /\ Top.branch \in Seq(Labels) /\ Len(Top.branch) <= 1
      /\ Top.top \in 0 .. n
  BY <1>1, TopOK, TaskFields DEF TaskOK
<1>3. n \in Nat /\ code \in CodeType /\ Owes(code.bc, n, Pending)
  BY <1>1, ReadyCode, OwesStart
<1>4. /\ c \in CodeType /\ Len(c.bc) = n + 1 /\ \A i \in 1 .. n : c.bc[i] = code.bc[i]
      /\ Owes(c.bc, n, Pending)
  <2> HIDE DEF n
  <2> QED BY <1>2, <1>3, OwesEmit DEF n
<1> HIDE DEF c, d
<1>5. CASE Top.branch = <<>>
  <2>1. Do(c, locals, <<>>)
    BY <1>5 DEF LoopEnd, c
  <2>2. Owes(c.bc, n + 1, Pending)
    BY <1>3, <1>4, OwesLater
  <2>3. PatchesOf(Top) = {}
    <3>1. \A i : i \notin 1 .. Len(<<>>)
      BY EmptySeq
    <3> QED BY <1>1, <1>5, <3>1 DEF PatchesOf
  <2> QED BY <1>1, <1>4, <2>1, <2>2, <2>3, TasksNone, DoPatch
<1>6. CASE Top.branch # <<>>
  <2>1. Len(Top.branch) = 1
    <3>1. Len(Top.branch) \in Nat \ {0}
      BY <1>2, <1>6, EmptySeq
    <3>2. Len(Top.branch) <= 1
      BY <1>2
    <3>3. \A k \in Nat \ {0} : k <= 1 => k = 1
      OBVIOUS
    <3> QED BY <3>1, <3>2, <3>3
  <2>2. PatchesOf(Top) = {at}
    <3>1. PatchesOf(Top) = {Top.branch[i] : i \in 1 .. 1}
      BY <1>1, <2>1 DEF PatchesOf
    <3> QED BY <3>1
  <2>3. at \in 0 .. n - 1 /\ code.bc[at + 1].op \in Patchable
    BY <1>2, <2>2 DEF TaskOK
  <2>4. Do(d, locals, <<>>)
    BY <1>6 DEF LoopEnd, c, d
  <2>5. Len(d.bc) = n + 1 /\ FollowingInstr(c, 0) = n + 1
    <3>1. at \in Nat
      BY <2>3
    <3>2. Len(d.bc) = n + 1
      <4>1. FollowingInstr(c, 0) \in Nat
        BY <1>4, LabelTypes
      <4> HIDE DEF at
      <4> QED BY <1>4, <3>1, <4>1, SetLabelProperties DEF d
    <3>3. n + 1 < U16
      BY <2>4, <3>2 DEF Do, Step, NoWrap
    <3> QED BY <1>3, <1>4, <3>2, <3>3, LabelValues
  <2>6. Owes(c.bc, n + 1, Pending)
    BY <1>3, <1>4, OwesLater
  <2>7. Owes(d.bc, n + 1, Pending \ {at})
    <3>1. Due(c, at, n + 1, n + 1, Pending)
      <4>1. /\ at \in Nat /\ at < Len(c.bc) /\ at < n + 1 /\ n + 1 <= n + 1
            /\ n + 1 \in Nat /\ at + 1 \in 1 .. n
        BY <1>3, <1>4, <2>3
      <4> HIDE DEF at, n
      <4> QED BY <1>4, <2>3, <2>6, <4>1 DEF Due
    <3> HIDE DEF at
    <3>2. Paid(c, SetLabel(c, at, n + 1), at, n + 1, Pending)
      BY <3>1, OwesSet
    <3> QED BY <2>5, <3>2 DEF Paid, d
  <2> DEFINE P == Pending \ {at}
  <2>8. P \subseteq Pending /\ P \cap PatchesOf(Top) = {}
    BY <2>2
  <2> QED BY <1>1, <2>4, <2>5, <2>7, <2>8, TasksNone, DoPatch
<1> QED BY <1>5, <1>6

(* The branch of a ternary goes to its second arm, the jump of its first   *)
(* arm behind both.                                                        *)
LEMMA LabelsOfElseArm == ASSUME Step, TernaryElse PROVE Kept
<1> DEFINE n == Len(code.bc)
           a == Top.branch
           j == Top.jump
           P == (Pending \ {a}) \ {j}
           b == ScopeHwmEnd(Top.st, code)
           c == SetLabel(b, a, Top.label)
           d == SetLabel(c, j, FollowingInstr(c, 0))
<1>1. control # <<>> /\ Top.k = "TernaryElse" /\ Ready
  BY DEF TernaryElse, At, Top, Step
<1>2. PatchesOf(Top) = {a, j} /\ Top \in Tasks
  BY <1>1, TopOK DEF PatchesOf
<1>3. /\ a \in 0 .. n - 1 /\ code.bc[a + 1].op \in Patchable
      /\ j \in 0 .. n - 1 /\ code.bc[j + 1].op \in Patchable
      /\ Top.label \in 0 .. n /\ a < Top.label
  BY <1>1, <1>2, TopOK DEF TaskOK
<1>4. b \in CodeType /\ b.bc = code.bc
  BY <1>1, <1>2, ReadyCode, TaskFields, ScopeTypes, BcKept DEF HasBc
<1>5. n \in Nat /\ Owes(b.bc, n, Pending) /\ n < U16
  BY <1>1, <1>4, ReadyCode, OwesStart DEF Ready, NoWrap
<1>6. P \subseteq Pending /\ P \cap PatchesOf(Top) = {}
  BY <1>2
<1>7. Do(d, locals, <<>>)
  BY DEF TernaryElse
<1> HIDE DEF b
<1>8. Paid(b, c, a, n, Pending)
  <2>1. Due(b, a, Top.label, n, Pending)
    BY <1>3, <1>4, <1>5 DEF Due
  <2> QED BY <2>1, OwesSet
<1> HIDE DEF a, c
<1>9. /\ c \in CodeType /\ Len(c.bc) = n /\ Owes(c.bc, n, Pending \ {a})
      /\ c.bc[j + 1].op \in Patchable
  <2>1. j + 1 \in 1 .. Len(b.bc) /\ Len(b.bc) = n /\ b.bc[j + 1].op \in Patchable
    BY <1>3, <1>4
  <2> HIDE DEF j, n
  <2> QED BY <1>8, <2>1 DEF Paid
<1>10. FollowingInstr(c, 0) = n
  BY <1>5, <1>9, LabelValues
<1>11. Paid(c, d, j, n, Pending \ {a})
  <2> DEFINE Q == Pending \ {a}
  <2> HIDE DEF Q
  <2>1. Due(c, j, n, n, Q)
    BY <1>3, <1>5, <1>9 DEF Due, Q
  <2>2. Paid(c, SetLabel(c, j, n), j, n, Q)
    BY <2>1, OwesSet
  <2> QED BY <1>10, <2>2 DEF Q
<1> HIDE DEF d, n, j
<1>12. Len(d.bc) = n /\ Owes(d.bc, n, P)
  BY <1>9, <1>11 DEF Paid
<1> HIDE DEF P
<1> QED BY <1>1, <1>6, <1>7, <1>12, TasksNone, DoPatch

-----------------------------------------------------------------------------
(* The specification.                                                       *)

LabelInv == NoWrap => Labelled(code.bc, control)

LEMMA LabelInit == ASSUME Init, TypeOK PROVE LabelInv
<1>1. code.bc = <<>> /\ Len(<<>>) = 0
  BY DEF Init, EmptyCode
<1>2. TasksOK(code.bc, control)
  <2>1. program \in Seq(Stmts)
    BY ProgramsAssumption DEF TypeOK
  <2> QED BY <2>1, TasksBody DEF Init
<1>3. \A i : i \notin 1 .. Len(code.bc)
  BY <1>1
<1> QED BY <1>2, <1>3 DEF LabelInv, Labelled, InstrsOK, Forward

(* Labels are narrow for the bytecode before a step if they are after it.  *)
LEMMA WrapsOnce == ASSUME TypeOK, TypeOK', [Next]_vars, NoWrap' PROVE NoWrap
<1>1. Len(code.bc) <= Len(code'.bc)
  BY StepOps DEF SameOps
<1>2. Len(code.bc) \in Nat /\ Len(code'.bc) \in Nat /\ U16 \in Nat
  BY WidthAssumption DEF TypeOK, CodeType
<1> QED BY <1>1, <1>2 DEF NoWrap

LEMMA LabelsOfStep == ASSUME Step PROVE Kept
<1>1. Ready
  BY DEF Step
<1>2. CASE LowerStatement
  BY <1>1, <1>2, LabelsOfStatement, LabelsOfForTop, LabelsOfCall, LabelsOfIf, LabelsOfThenEnd,
     LabelsOfElseEnd, LabelsOfLoopBranch, LabelsOfLoopEnd, LabelsOfDoBranch
     DEF LowerStatement
<1>3. CASE LowerExpr
  BY <1>1, <1>3, LabelsOfOperand, LabelsOfAtom, LabelsOfOperator, LabelsOfTernary,
     LabelsOfThenArm, LabelsOfElseArm, LabelsOfIncr DEF LowerExpr
<1>4. CASE LowerPlace
  BY <1>1, <1>4, LabelsOfScalar, LabelsOfElement, LabelsOfOperand, LabelsOfOperator
     DEF LowerPlace
<1>5. CASE Panic \/ Finish \/ UNCHANGED vars
  <2>1. code' = code /\ control' = control
    BY <1>5 DEF Panic, Finish, vars
  <2> QED BY <1>1, <2>1 DEF Ready, Kept
<1> QED BY <1>2, <1>3, <1>4, <1>5 DEF Step, Next

LEMMA LabelStep == ASSUME TypeOK, TypeOK', LabelInv, [Next]_vars PROVE LabelInv'
<1> SUFFICES ASSUME NoWrap' PROVE Kept
  BY DEF LabelInv, Kept
<1>1. Step
  BY WrapsOnce DEF Step, Ready, LabelInv
<1> QED BY <1>1, LabelsOfStep

LEMMA LabelsAlways == Spec => [](TypeOK /\ LabelInv)
<1>1. Init /\ TypeOK => LabelInv
  BY LabelInit
<1>2. TypeOK /\ TypeOK' /\ LabelInv /\ [Next]_vars => LabelInv'
  BY LabelStep
<1> QED BY <1>1, <1>2, TypeCorrect, PTL DEF Spec

(* For every program and every width of labels: as long as a position fits *)
(* a label, each task that has still to set one names an instruction that  *)
(* has labels, so set_label never meets its unreachable arm.               *)
THEOREM PatchesHitJumps == Spec => []PatchesAreJumps
<1>1. TypeOK /\ LabelInv => PatchesAreJumps
  <2> SUFFICES ASSUME TypeOK, LabelInv, NoWrap PROVE LabelsSetOnJumps
    BY DEF PatchesAreJumps
  <2>1. TasksOK(code.bc, control)
    BY DEF LabelInv, Labelled
  <2>2. Len(code.bc) \in Nat
    BY DEF TypeOK, CodeType
  <2>3. ASSUME NEW n \in 1 .. Len(control), NEW l \in PatchesOf(control[n])
        PROVE  /\ l < Len(code.bc) /\ code.bc[l+1].op \in Patchable
               /\ control[n].k = "ThenEnd" => code.bc[l+1].op = "Branch"
    <3>1. TaskOK(code.bc, control[n])
      BY <2>1 DEF TasksOK
    <3>2. /\ l \in 0 .. Len(code.bc) - 1 /\ code.bc[l+1].op \in Patchable
          /\ control[n].k = "ThenEnd" => code.bc[l+1].op = "Branch"
      BY <3>1 DEF TaskOK
    <3> QED BY <2>2, <3>2
  <2> QED BY <2>3 DEF LabelsSetOnJumps
<1> QED BY <1>1, LabelsAlways, PTL

(* For every program and every width of labels: the exit of a branch leads *)
(* on behind it from the step that lowers the end of its statement, and    *)
(* until then a task on the stack is bound to set it.                      *)
THEOREM ExitsLeadForward == Spec => []BranchesExitForward
<1>1. TypeOK /\ LabelInv => BranchesExitForward
  BY DEF LabelInv, Labelled, Forward, Patched, BranchesExitForward
<1> QED BY <1>1, LabelsAlways, PTL

(* For every program and every width of labels: control never leaves       *)
(* lowered bytecode but at its end.                                        *)
THEOREM LabelsStayInCode == Spec => []LabelsInCode
<1>1. TypeOK /\ LabelInv => LabelsInCode
  <2> SUFFICES ASSUME TypeOK, LabelInv, NoWrap, NEW i \in 1 .. Len(code.bc),
                      code.bc[i].op \in Patchable
               PROVE  code.bc[i].to <= Len(code.bc) /\ code.bc[i].on <= Len(code.bc)
    BY DEF LabelsInCode
  <2>1. Len(code.bc) \in Nat
    BY DEF TypeOK, CodeType
  <2> QED BY <2>1 DEF LabelInv, Labelled, InstrsOK, InstrOK
<1> QED BY <1>1, LabelsAlways, PTL
=============================================================================
