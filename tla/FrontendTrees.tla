--------------------------- MODULE FrontendTrees ----------------------------
(***************************************************************************)
(* What the trees of the front end say of their source: properties that    *)
(* recurse over the AST, and the printer the program has.                  *)
(***************************************************************************)
EXTENDS Frontend, Printer

(* The tokens of a tree in order, without grouping. *)
Separated(es, Y(_)) == FoldLeft(LAMBDA ts, e : ts \o (IF ts = <<>> THEN <<>> ELSE <<<<",">>>>) \o Y(e), <<>>, es)

RECURSIVE Yield(_)
Yield(e) ==
    CASE e.k = "atom" -> <<e.s>>
      [] e.k = "unary" -> <<<<e.op>>>> \o Yield(e.e)
      [] e.k = "binary" -> Yield(e.l) \o (IF e.op = Concat THEN <<>> ELSE <<Spelled(e.op)>>) \o Yield(e.r)
      [] e.k = "incr" -> IF e.post THEN Yield(e.p) \o <<Spelled(e.op)>> ELSE <<Spelled(e.op)>> \o Yield(e.p)
      [] e.k = "assign" -> Yield(e.p) \o <<Spelled(e.op)>> \o Yield(e.e)
      [] e.k = "index" -> Yield(e.v) \o <<<<"[">>>> \o Separated(e.es, Yield) \o <<<<"]">>>>
      [] e.k = "nested" -> Yield(e.arr) \o <<<<"[">>>> \o Separated(e.es, Yield) \o <<<<"]">>>>
      [] e.k = "in" -> Separated(e.es, Yield) \o <<<<"in">>>> \o Yield(e.v)
      [] e.k = "ternary" -> Yield(e.c) \o <<<<"?">>>> \o Yield(e.t) \o <<<<":">>>> \o Yield(e.f)
      [] e.k = "call" -> <<e.name>> \o Separated(e.es, Yield)
      [] e.k = "getline" ->
            (IF e.from \in WriteKinds THEN Yield(e.e[1]) \o <<Spelled(e.from)>> ELSE <<>>)
            \o <<<<"getline">>>> \o Separated(e.p, Yield)
            \o (IF e.from = "file" THEN <<<<"<">>>> \o Yield(e.e[1]) ELSE <<>>)

(* No token of an accepted source is lost, doubled, invented or moved on   *)
(* the way into the tree (the parser takes operands out of its own hands,  *)
(* leaving 0 behind, and has to put them back: Expr::take).                *)
SimpleYield(s) ==
    CASE s.k = "expr" -> Yield(s.e)
      [] s.k = "command" -> <<<<s.name>>>> \o Separated(s.es, Yield)
                            \o (IF s.rx = <<>> THEN <<>> ELSE <<Spelled(s.rx[1])>> \o Yield(s.rx[2]))
RuleYield(r) == Separated(r.pattern, Yield) \o Texts(LAMBDA b : Texts(SimpleYield, b), r.actions)

Actions == UNION {ToSet(b) : b \in UNION {ToSet(r.actions) : r \in ToSet(ast.rules)}}
OnlySimpleRules == ast = [EmptyAst EXCEPT !.rules = ast.rules] /\ \A s \in Actions : s.k \in {"expr", "command"}

Text(t) == CASE t.t \in DOMAIN Operators -> Operators[t.t]
             [] t.t = "Identifier" -> Qualify(<<"awk">>, t.s)
             [] t.t = "IndirectCall" -> Qualify(<<"awk">>, Tail(t.s))
             [] OTHER -> t.s
Words == SelectSeq(tokens, LAMBDA t : t.t \notin {"(", ")", "{", "}", ";", "Newline"})
YieldIsSource ==
    Accepted /\ OnlySimpleRules /\ namespace = <<"awk">> /\ ~concurrent => Texts(RuleYield, ast.rules) = [i \in 1 .. Len(Words) |-> Text(Words[i])]

(* The operators that the comments of ast.rs:491-498 write behind the      *)
(* binding powers.                                                         *)
DocumentedBp(op) == CASE op \in {"*", "/", "%"} -> BP_MULTI
                      [] op \in {"+", "-"} -> BP_ADDITION
                      [] op = Concat -> BP_CONCAT
                      [] op \in CmpOps -> BP_CMP
                      [] op \in MatchOps -> BP_MATCH
                      [] op = "&&" -> BP_AND
                      [] op = "||" -> BP_OR

(* Every operator on the left spine of e binds at least as n does, every   *)
(* one on its right spine more than n does.  Assignments are exempt on the *)
(* left, and on the right when a typed regex ends them (pratt.rs:100-102,  *)
(* 345-349).                                                               *)
RECURSIVE LeftBinds(_, _), RightBinds(_, _)
LeftBinds(e, n) ==
    CASE e.k = "binary" -> DocumentedBp(e.op).l >= n /\ LeftBinds(e.l, n)
      [] e.k = "ternary" -> BP_TERNARY.l >= n /\ LeftBinds(e.c, n)
      [] e.k = "in" -> BP_IN.l >= n /\ LeftBinds(e.es[1], n)
      [] e.k = "incr" /\ e.post -> BP_INC_DEC >= n
      [] OTHER -> TRUE
RightBinds(e, n) ==
    CASE e.k = "binary" -> DocumentedBp(e.op).r > n /\ RightBinds(e.r, n)
      [] e.k = "unary" -> UnaryBp(e.op) > n /\ RightBinds(e.e, n)
      [] e.k = "ternary" -> BP_TERNARY.r > n /\ RightBinds(e.f, n)
      [] e.k = "assign" -> IsTypedRegex(e.e) \/ (BP_ASSIGN.r > n /\ RightBinds(e.e, n))
      [] OTHER -> TRUE

RECURSIVE Respects(_)
Respects(e) ==
    CASE e.k = "binary" ->
            /\ RightBinds(e.l, DocumentedBp(e.op).l) /\ LeftBinds(e.r, DocumentedBp(e.op).r)
            /\ ~(e.op \in CmpOps /\ NonAssociative(e.l))
            /\ Respects(e.l) /\ Respects(e.r)
      [] e.k = "unary" -> LeftBinds(e.e, UnaryBp(e.op)) /\ Respects(e.e)
      [] e.k = "assign" -> Respects(e.e)
      [] e.k = "ternary" -> /\ RightBinds(e.c, BP_TERNARY.l) /\ LeftBinds(e.f, BP_TERNARY.r)
                            /\ \A x \in {e.c, e.t, e.f} : Respects(x)
      [] e.k = "in" /\ Len(e.es) = 1 -> RightBinds(e.es[1], BP_IN.l) /\ Respects(e.es[1])
      [] OTHER -> TRUE

(* Without parentheses a tree is the one the documented binding powers   *)
(* give: no operand is taken by the weaker of the operators around it, and *)
(* comparisons do not chain.                                               *)
Wholes == UNION {ToSet(r.pattern) : r \in ToSet(ast.rules)}
          \cup {s.e : s \in {a \in Actions : a.k = "expr"}}
          \cup UNION {ToSet(s.es) : s \in {a \in Actions : a.k = "command"}}
PrecedenceRespected ==
    Accepted /\ ~printed /\ ~Contains(source, "(") => \A e \in Wholes : Respects(e)
=============================================================================
