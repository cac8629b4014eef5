------------------------------- MODULE MCAwk --------------------------------
(***************************************************************************)
(* Instances of Awk for TLC, and the reference the executed programs are   *)
(* compared with: an evaluator of the AST itself.                           *)
(***************************************************************************)
EXTENDS Awk, MCLowering, SequencesExt

V == INSTANCE Values

MCValueOf(c) == CASE c = "zero" -> V!Float(0)
                  [] c = "two"  -> V!Float(2)
                  [] c = "ten"  -> V!Float(10)
                  [] c = "str2" -> V!String_(V!Decimal(2))
                  [] c = "empty" -> V!String_(<<>>)

-----------------------------------------------------------------------------
(* The reference.  A state has the values of the variables, by name, and   *)
(* the values printed; an evaluation gives a value and a state.            *)
Get(s, id) == IF id \in DOMAIN s.vars THEN s.vars[id] ELSE V!Unassigned
Set(s, id, v) == [s EXCEPT !.vars = [x \in DOMAIN @ \cup {id} |-> IF x = id THEN v ELSE @[x]]]

(* The sub-expressions that are always evaluated, in order. *)
Strict(e) == CASE e.k \in {"unary", "assign"} -> <<e.e>>
               [] e.k = "binary" -> <<e.l, e.r>>
               [] e.k = "ternary" -> <<e.c>>
               [] OTHER -> <<>>

Collect(r, x) == [s |-> x.s, vs |-> Append(r.vs, x.v)]
Assigned(id, new, v, s) == [s |-> Set(s, id, new), v |-> v]
Incremented(e, old, s) ==
    LET new == V!BinaryValue(e.op, old, V!Int_(1))
    IN  Assigned(e.p.id, new, IF e.post THEN old ELSE new, s)

RECURSIVE Eval(_, _)
EvalAll(es, s) == FoldLeft(LAMBDA r, e : Collect(r, Eval(e, r.s)), [s |-> s, vs |-> <<>>], es)

(* The value of e and the state after it, from those of its operands. *)
Result(e, s, v) ==
    CASE e.k = "atom" ->
            [s |-> s, v |-> CASE e.a.k = "user" -> Get(s, e.a.id)
                              [] e.a.k = "int" -> V!Int_(e.a.n)
                              [] e.a.k = "cnt" -> MCValueOf(e.a.v)]
      [] e.k = "unary" -> [s |-> s, v |-> V!UnaryValue(e.op, v[1])]
      [] e.k = "binary" -> [s |-> s, v |-> V!BinaryValue(e.op, v[1], v[2])]
      [] e.k = "ternary" -> Eval(IF V!ToBool(v[1]) THEN e.t ELSE e.f, s)
      [] e.k = "assign" /\ e.op = "Set" -> Assigned(e.p.id, v[1], v[1], s)
      [] e.k = "assign" /\ e.op # "Set" ->
            LET new == V!BinaryValue(e.op, Get(s, e.p.id), v[1])
            IN  Assigned(e.p.id, new, new, s)
      [] e.k = "incr" -> Incremented(e, V!Float(V!ToNum(Get(s, e.p.id))), s)

ResultOf(e, r) == Result(e, r.s, r.vs)
Eval(e, s) == ResultOf(e, EvalAll(Strict(e), s))

(* What a print writes: the record, or the arguments between separators.   *)
Line(vs) == IF vs = <<>> THEN <<VM!Piece(V!Unassigned)>>
            ELSE [n \in 1 .. 2 * Len(vs) - 1 |->
                    IF n % 2 = 0 THEN VM!OFS ELSE VM!Piece(vs[(n + 1) \div 2])]

(* Statements run by rewriting the list of those that are left. *)
Evaluated(t) == CASE t.k = "expr" -> <<t.e>>
                 [] t.k = "command" -> t.args
                 [] t.k \in {"if", "while"} -> <<t.c>>
                 [] OTHER -> <<>>

Orelse(t) == IF t.orelse = <<>> THEN <<>> ELSE t.orelse[1]

Rewritten(t, left, vs) ==
    CASE t.k \in {"expr", "command"} -> left
      [] t.k = "if" -> (IF V!ToBool(vs[1]) THEN t.body ELSE Orelse(t)) \o left
      [] t.k = "while" -> IF V!ToBool(vs[1]) THEN t.body \o <<t>> \o left ELSE left
      [] t.k = "dowhile" -> t.body \o <<While_(t.c, t.body)>> \o left
      [] t.k = "for" -> t.init \o <<While_(t.cond[1], t.body \o t.update)>> \o left

Wrote(t, s, vs) == IF t.k = "command" THEN [s EXCEPT !.out = @ \o Line(vs) \o <<VM!RFS>>] ELSE s

After(ss, r) == [ss |-> Rewritten(ss[1], Tail(ss), r.vs), s |-> Wrote(ss[1], r.s, r.vs)]

RECURSIVE Exec(_)
Exec(c) == IF c.ss = <<>> THEN c.s
           ELSE Exec(After(c.ss, EvalAll(Evaluated(c.ss[1]), c.s)))

Reference == Exec([ss |-> program, s |-> [vars |-> [x \in {} |-> 0], out |-> <<>>]])

-----------------------------------------------------------------------------
(* When a program has halted, its variables have the values the program    *)
(* text gives them: registers were not clobbered, branches went the right  *)
(* way, every operand was read from the right place.                       *)
ScalarOf(i) == V!ScalarContext(user[i])
VariablesMatch ==
    run = "halted" =>
        \A i \in 1 .. Len(code.user) : ScalarOf(i) = Get(Reference, code.user[i])

(* What is printed is what the program text gives: the values in their     *)
(* order, a separator between two of them, each line's end.  The separator *)
(* at the beginning of a line (intrinsic_print writes one before every     *)
(* argument, vm.rs:251-253) is exempt.                                     *)
LeadsLine(o, n) == o[n] = VM!OFS /\ (n = 1 \/ o[n - 1] = VM!RFS)
Unled(o) == LET kept == SelectSeq([n \in DOMAIN o |-> n], LAMBDA n : ~LeadsLine(o, n))
            IN  [m \in DOMAIN kept |-> o[kept[m]]]
PrintsTheValues == run = "halted" => Unled(out) = Unled(Reference.out)

-----------------------------------------------------------------------------
(* Families of programs.  Pad is a last statement whose operands are all   *)
(* alive at once: it takes the register pointer, and so the register file, *)
(* past the windows of the calls before it.                                *)
Y == Leaf(User("y"))
Num(n) == Leaf([k |-> "int", n |-> n])
Op(op, l, r) == [k |-> "binary", op |-> op, l |-> l, r |-> r]
Not(e) == [k |-> "unary", op |-> "Negation", e |-> e]
Let_(id, e) == ES(Asg("Set", User(id), e))
Deep == Un(Un(Un(Un(Un(Un(X))))))
Pad  == Let_("pad", Bin(Deep, Bin(Deep, Deep)))

Operators == {"Add", "Subtract", "Multiply", "Concat", "Eq", "NEq", "Gt", "Lt", "LtE", "GtE"}
Simple1 == {X, Y, Un(X), Cnt("str2"), Bin(X, Un(Y))}
Computed ==
    {Op(op, l, r) : op \in Operators, l \in Simple1, r \in {Un(X), Cnt("ten")}}
    \cup {Tern(c, t, f) : c \in {X, Not(Y)}, t, f \in {Un(X), Tern(Y, Bin(X, Un(X)), Num(5)), Cnt("ten")}}
    \cup {Asg("Add", User("y"), e) : e \in {Un(X), Asg("Multiply", User("x"), Num(3))}}
    \cup {Op("Concat", Inc(post, User("x")), Un(Y)) : post \in BOOLEAN}
    \cup {Op("Subtract", Bin(Un(X), Un(Y)), Bin(Bin(X, Un(X)), Inc(TRUE, User("y")))),
          Asg("Raise", User("x"), Un(Num(-3))), Op("Divide", Cnt("ten"), Un(Num(-2))),
          Op("Modulo", Cnt("ten"), Un(Num(3))), Not(Cnt("empty"))}

Less2 == Op("Lt", X, Num(2))
Loops ==
    {While_(Less2, <<ES(Inc(FALSE, User("x"))), Let_("y", Op("Concat", Y, Un(X)))>>),
     Do_(Less2, <<ES(Inc(TRUE, User("x"))), Let_("y", Bin(Y, Un(X)))>>),
     For_(<<Let_("x", Num(-1))>>, <<Less2>>, <<ES(Inc(TRUE, User("x")))>>, <<ES(Asg("Add", User("y"), X))>>),
     For_(<<>>, <<Tern(X, Less2, Not(Un(Y)))>>, <<ES(Inc(TRUE, User("x")))>>,
          <<If_(Op("Gt", X, Un(Y)), <<Let_("y", Num(7))>>)>>),
     While_(Less2, <<ES(Inc(FALSE, User("x"))), If_(X, <<Let_("z", Un(X)), If_(Y, <<Let_("z", Y)>>)>>)>>)}

PrintBodies(es) == {Prints(<<e>>) : e \in es} \cup {Prints(<<>>)}
              \cup {Prints(<<e, f, X>>) : e, f \in {Un(X), Bin(Un(X), Y), Tern(X, Un(Y), Y)}}

Bodies == {Let_("z", e) : e \in Computed} \cup Loops \cup PrintBodies(Computed)
          \cup {If_(c, <<s>>) : c \in {X, Not(X)}, s \in {Let_("y", Un(X)), Prints(<<Un(X)>>)}}

Executed ==
    {<<s, Pad>> : s \in Bodies}
    \cup {<<Let_("x", Num(a)), Let_("y", b), s, Pad>> :
            a \in {0, 1}, b \in {Num(2), Cnt("zero")}, s \in Bodies}
ExecutedStmts == StmtsOf(Executed)
ExecutedExprs == ExprsOf(Executed)

(* Programs whose process ends in every way: quietly, by a panic of the    *)
(* lowering (with and without a register held) or of the interpreter.      *)
ProcessPrograms ==
    {<<s>> : s \in {Prints(<<Num(1)>>), PrintsTo(<<X>>, Cnt("str2")), Next_, ES(Getline),
                    ES(Bin(Un(X), Getline)), Let_("x", Op("Divide", Num(1), Y)),
                    Let_("x", Regex("str2")), Let_("x", Op("Modulo", Num(0), Y)),
                    ES(Bin(Un(X), Bin(Un(X), Bin(Un(X), Bin(Un(X), Bin(Un(X), Un(X))))))),
                    ES(Asg("Set", Builtin, X)), ES(Inc(TRUE, Index(<<X>>))), Let_("x", Leaf(Builtin)),
                    While_(Less2, <<ES(Inc(FALSE, User("x")))>>)}}
ProcessStmts == StmtsOf(ProcessPrograms)
ProcessExprs == ExprsOf(ProcessPrograms)

(* One program for each disagreement.                                      *)
ElsePrograms == {<<Let_("x", Num(0)), IfElse(X, <<Let_("z", Num(1))>>, <<Let_("z", Num(2))>>)>>}
ElseStmts_ == StmtsOf(ElsePrograms)
ElseExprs_ == ExprsOf(ElsePrograms)

PrintPrograms == {<<Let_("x", Num(1)), Prints(<<X>>)>>, <<Prints(<<Num(1)>>)>>}
PrintStmts == StmtsOf(PrintPrograms)
PrintExprs == ExprsOf(PrintPrograms)

(* x = 1; y = 5; w = -x; print (-x + -x) + (-x + -x); z = -x - -(-(-y))    *)
ScopePrograms ==
    {<<Let_("x", Num(1)), Let_("y", Num(5)), Let_("z", Un(X)),
       Prints(<<Bin(Bin(Un(X), Un(X)), Bin(Un(X), Un(X)))>>),
       Let_("z", Op("Subtract", Un(X), Un(Un(Un(Y))))), Pad>>}
ScopeStmts == StmtsOf(ScopePrograms)
ScopeExprs == ExprsOf(ScopePrograms)

=============================================================================
