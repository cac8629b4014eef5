------------------------------ MODULE Printer -------------------------------
(***************************************************************************)
(* The pretty printer: Display in parser/src/idempotency.rs and the        *)
(* leaves' Debug in parser/src/sexpr.rs.  A text is a sequence of the      *)
(* symbols of Lexer; the tabs of the indentation are left out, the lexer   *)
(* skips them.  bp is the binding power of the position: what binds less   *)
(* is put in parentheses.                                                  *)
(***************************************************************************)
EXTENDS Lexer

Space == <<" ">>
Spelled(op) == CASE op \in DOMAIN Operators -> Operators[op]
                 [] op = "/=" -> <<"/", "=">>
                 [] OTHER -> <<op>>

Spaced(op) == IF op = Concat THEN Space ELSE Space \o Spelled(op) \o Space
Parenthesized(text, yes) == IF yes THEN <<"(">> \o text \o <<")">> ELSE text

AtomText(e) == CASE e.a = "String" -> <<"\"">> \o e.s \o <<"\"">>
                 [] e.a = "Regex" -> <<"/">> \o e.s \o <<"/">>
                 [] e.a = "TypedRegex" -> <<"@", "/">> \o e.s \o <<"/">>
                 [] OTHER -> e.s

(* A function is printed without its namespace, a variable with it. *)
Called(e) == IF e.how = "Identifier" THEN Literal(e.name) ELSE <<"@">> \o e.name

RECURSIVE Print_(_, _)

(* write_args *)
Args(es) == FoldLeft(LAMBDA text, e : text \o (IF text = <<>> THEN <<>> ELSE <<",", " ">>) \o Print_(e, 0),
                     <<>>, es)
Bracketed(head, es) == head \o <<"[">> \o Args(es) \o <<"]">>

(* Display for Place. *)
Place_(p) == CASE p.k = "atom" -> AtomText(p)
              [] p.k = "unary" /\ p.e.k = "atom" -> <<"$">> \o AtomText(p.e)
              [] p.k = "unary" /\ p.e.k # "atom" -> <<"$", "(">> \o Print_(p.e, 0) \o <<")">>
              [] p.k = "index" -> Bracketed(AtomText(p.v), p.es)
              [] p.k = "nested" -> Bracketed(Print_(p.arr, 0), p.es)

OptionalPlace(p) == IF p = <<>> THEN <<>> ELSE Space \o Place_(p[1])

GetlineText(e) ==
    LET getline == <<"getline">> \o OptionalPlace(e.p)
    IN  CASE e.from = "input" -> getline
          [] e.from = "file" -> getline \o Spaced("<") \o Print_(e.e[1], 0)
          [] OTHER -> Print_(e.e[1], 0) \o Spaced(e.from) \o getline

BinaryText(e, bp) ==
    LET b == BinaryBp(e.op)
    IN  Parenthesized(Print_(e.l, b.l) \o Spaced(e.op) \o Print_(e.r, b.r), b.l < bp)

(* Display for ExprNode. *)
Print_(e, bp) ==
    CASE e.k = "atom" -> AtomText(e)
      [] e.k = "call" -> Called(e) \o <<"(">> \o Args(e.es) \o <<")">>
      [] e.k = "unary" -> Parenthesized(Spelled(e.op) \o Print_(e.e, UnaryBp(e.op) + 1), UnaryBp(e.op) < bp)
      [] e.k = "binary" -> BinaryText(e, bp)
      [] e.k = "incr" -> IF e.post THEN Place_(e.p) \o Spelled(e.op) ELSE Spelled(e.op) \o Place_(e.p)
      [] e.k = "assign" ->
            Parenthesized(Place_(e.p) \o Spaced(e.op) \o Print_(e.e, BP_ASSIGN.r), BP_ASSIGN.l < bp)
      [] e.k = "index" -> Parenthesized(Bracketed(AtomText(e.v), e.es), BP_GROUPING < bp)
      [] e.k = "nested" -> Parenthesized(Bracketed(Print_(e.arr, 0), e.es), BP_GROUPING < bp)
      [] e.k = "in" ->
            Parenthesized((IF Len(e.es) > 1 THEN <<"(">> \o Args(e.es) \o <<")">>
                           ELSE Print_(e.es[1], BP_IN.r)) \o Spaced("in") \o AtomText(e.v), BP_IN.l < bp)
      [] e.k = "ternary" ->
            Parenthesized(Print_(e.c, 0) \o Spaced("?") \o Print_(e.t, 0) \o Spaced(":") \o Print_(e.f, 0),
                          BP_TERNARY.l < bp)
      [] e.k = "getline" -> GetlineText(e)

-----------------------------------------------------------------------------
(* Statements and rules.  Texts joins what F writes of each element. *)

Line == <<"\n">>
Texts(F(_), es) == FoldLeft(LAMBDA text, e : text \o F(e), <<>>, es)
Expr(e) == Print_(e, 0)
Option(before, F(_), o) == Texts(LAMBDA x : before \o F(x), o)

(* Without a redirection the arguments of a command have no parentheses. *)
SimpleText(s) ==
    CASE s.k = "expr" -> Expr(s.e)
      [] s.k = "command" /\ s.rx = <<>> -> <<s.name, " ">> \o Args(s.es)
      [] s.k = "command" /\ s.rx # <<>> ->
            <<s.name, "(">> \o Args(s.es) \o <<")">> \o Spaced(s.rx[1]) \o Expr(s.rx[2])
      [] s.k = "delete" -> <<"delete", " ">> \o
            (IF s.es = <<>> THEN AtomText(s.v) ELSE Bracketed(AtomText(s.v), s.es[1]))

RECURSIVE StatementText(_)

(* write_stmnts, write_body *)
Stmts(b) == Texts(LAMBDA s : StatementText(s) \o Line, b)
BodyText(b) == <<"{", "\n">> \o Stmts(b) \o <<"}">>
Headed(word, e) == <<word, " ", "(">> \o Expr(e) \o <<")", " ">>

CaseText(branch) == <<"case", " ">> \o AtomText(branch[1]) \o <<":", "\n">> \o Stmts(branch[2])
Cases(branches, from, to) == Texts(CaseText, SubSeq(branches, from, to))

(* Mutant: the default is printed behind all branches. *)
SwitchTextLast(s) ==
    Headed("switch", s.e) \o <<"{", "\n">> \o Cases(s.branches, 1, Len(s.branches))
    \o Texts(LAMBDA d : <<"default", ":", "\n">> \o Stmts(d.b), s.default) \o <<"}">>

SwitchText(s) ==
    LET n == IF s.default = <<>> THEN Len(s.branches) ELSE s.default[1].before
    IN  Headed("switch", s.e) \o <<"{", "\n">> \o Cases(s.branches, 1, n)
        \o Texts(LAMBDA d : <<"default", ":", "\n">> \o Stmts(d.b), s.default)
        \o Cases(s.branches, n + 1, Len(s.branches)) \o <<"}">>

(* Display for Statement. *)
StatementText(s) ==
    CASE s.k \in {"expr", "command", "delete"} -> SimpleText(s)
      [] s.k = "if" -> Headed("if", s.c) \o BodyText(s.b) \o Option(<<" ", "else", " ">>, BodyText, s.orelse)
      [] s.k = "while" -> Headed("while", s.c) \o BodyText(s.b)
      [] s.k = "do" -> <<"do", " ">> \o BodyText(s.b) \o <<" ", "while", " ", "(">> \o Expr(s.c) \o <<")">>
      [] s.k = "for" -> <<"for", " ", "(">> \o Option(<<>>, SimpleText, s.init) \o <<";">>
                        \o Option(Space, Expr, s.c) \o <<";">> \o Option(Space, SimpleText, s.update)
                        \o <<")", " ">> \o BodyText(s.b)
      [] s.k = "foreach" -> <<"for", " ", "(">> \o AtomText(s.v) \o Spaced("in") \o AtomText(s.arr)
                            \o <<")", " ">> \o BodyText(s.b)
      [] s.k = "switch" -> SwitchText(s)
      [] OTHER -> <<s.k>> \o Option(Space, Expr, s.es)

(* Display for Rule. *)
RuleText(r) ==
    (IF Len(r.pattern) = 2 THEN Expr(r.pattern[1]) \o <<",", " ">> \o Expr(r.pattern[2])
     ELSE Texts(Expr, r.pattern))
    \o (IF r.actions = <<>> THEN <<";", "\n">>
        ELSE (IF r.pattern = <<>> THEN <<>> ELSE Space) \o BodyText(r.actions[1]) \o Line) \o Line

FunctionText(name, f) ==
    <<"function", " ">> \o Literal(name) \o <<"(">>
    \o FoldLeft(LAMBDA text, a : text \o (IF text = <<>> THEN <<>> ELSE <<",", " ">>) \o Literal(a), <<>>, f.args)
    \o <<")", "\n">> \o BodyText(f.b)

(* Display for Ast, with the functions in the order names: that of a hash  *)
(* map.  The concurrent rules are not printed.                             *)
AstText(a, names) ==
    LET Special(part) == Texts(LAMBDA b : <<part, " ">> \o BodyText(b) \o <<"\n", "\n">>, a[part])
    IN  Texts(LAMBDA l : <<"@", "load", " ", "\"">> \o l \o <<"\"", "\n">>, a.loads)
        \o Special("BEGIN") \o Special("BEGINFILE") \o Texts(RuleText, a.rules)
        \o Special("ENDFILE") \o Special("END")
        \o FoldLeft(LAMBDA text, f : text \o (IF text = <<>> THEN <<>> ELSE <<"\n", "\n">>)
                                     \o FunctionText(f, a.functions[f]), <<>>, names)
=============================================================================
