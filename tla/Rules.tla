------------------------------- MODULE Rules --------------------------------
(***************************************************************************)
(* The parser of statements, rules and directives: parser/src/lib.rs.  It  *)
(* shares the call stack of Pratt: a frame here is the rest of a function  *)
(* that waits for an expression, a simple statement, a statement or a      *)
(* body.                                                                   *)
(***************************************************************************)
EXTENDS Pratt

VARIABLES ast,        \* parser.ast
          concurrent  \* an @concurrent waits for its rule

rulevars == <<ast, concurrent>>

EmptyAst == [loads |-> <<>>, BEGIN |-> <<>>, BEGINFILE |-> <<>>, rules |-> <<>>, ENDFILE |-> <<>>,
             END |-> <<>>, concurrent |-> <<>>, functions |-> <<>>]

RulesInit ==
    /\ pos = 1 /\ frames = <<>> /\ ctl = Enter("top") /\ typed = FALSE
    /\ namespace = <<"awk">> /\ ast = EmptyAst /\ concurrent = FALSE

Simple(s) == [go |-> "simple", s |-> s]
Done_(s)  == [go |-> "done", s |-> s]
GiveBody(b) == [go |-> "body!", b |-> b]
Panicked  == [go |-> "panicked"]

GivenSimple(k) == At("simple") /\ Top.k = k
GivenDone(k) == At("done") /\ Top.k = k
GivenBody(k) == At("body!") /\ Top.k = k

Next_ == TokenAt(pos + 1)
Count(n, S) == IF TokenAt(pos + n) \in S THEN n + 1 ELSE n

Call(f, frame, n) == Go(Enter(f), <<frame>> \o frames, n, FALSE)
Become(f, frame, n) == Go(Enter(f), <<frame>> \o Tail(frames), n, FALSE)
Expression(frame, n, ty) == Parse(0, <<frame>> \o frames, n, ty)

(* A statement ends, and takes one newline or semicolon behind it. *)
Complete(s, fs, n) == Go(Done_(s), fs, Count(n, StmtEnd), FALSE)

-----------------------------------------------------------------------------
(* parse_simple_statement.  Its callers have seen a token of SimpleStart.  *)

SimpleExpression == At("start") /\ T \in ExprStart /\ Expression([k |-> "Expr"], 0, FALSE)
ExpressionDone == Given("Expr") /\ Go(Simple(ExprStmt(ctl.e)), Tail(frames), 0, FALSE)

Argument(frame, fs, n, ty) == Go(Lhs(0), <<Folding(0, "redirection"), frame>> \o fs, n, ty)
Command(name, es) == [k |-> "Command", name |-> name, es |-> es]

(* parse_command, parse_command_args *)
ParseCommand ==
    At("start") /\ T \in Commands /\
    CASE Next_ = "(" -> Call("args", Command(T, <<>>), 2)
      [] Next_ \in ExprStart \ {"("} -> Argument(Command(T, <<>>), frames, 1, FALSE)
      [] OTHER -> Call("redirect", Command(T, <<>>), 1)

CommandArg ==
    Given("Command") /\
    LET c == Command(Top.name, Append(Top.es, ctl.e))
    IN  IF T = "," THEN Argument(c, Tail(frames), 1, typed) ELSE Become("redirect", c, 0)

CommandArgs ==
    GivenList("Command") /\
    IF T = ")" THEN Become("redirect", Command(Top.name, ctl.es), 1) ELSE Fail_

(* parse_command_redirection: what binds less than a concatenation is no   *)
(* part of the destination.                                                *)
Redirect ==
    At("redirect") /\
    IF T \in RedirectionTokens
    THEN Parse(BP_CONCAT.r - 1, <<[k |-> "Redirect", op |-> T]>> \o frames, 1, FALSE)
    ELSE Go(Simple(CommandOf(Top.name, Top.es, <<>>)), Tail(frames), 0, FALSE)

RedirectDone ==
    Given("Redirect") /\
    LET c == frames[2]
    IN  Go(Simple(CommandOf(c.name, c.es, <<Top.op, ctl.e>>)), Tail(Tail(frames)), 0, FALSE)

(* parse_delete *)
ParseDelete ==
    At("start") /\ T = "delete" /\
    CASE Next_ \in PlaceTokens \ {"$"} /\ ~(Next_ = "Identifier" /\ CallAt(pos + 1)) ->
            LET v == VariableOf(tokens[pos + 1])
            IN  IF TokenAt(pos + 2) = "["
                THEN Parse(0, <<Items(<<>>, FALSE), [k |-> "Delete", v |-> v]>> \o frames, 3, FALSE)
                ELSE Go(Simple(DeleteOf(v, <<>>)), frames, 2, FALSE)
      [] OTHER -> Fail_

DeleteDone ==
    GivenList("Delete") /\
    IF T = "]" THEN Go(Simple(DeleteOf(Top.v, <<ctl.es>>)), Tail(frames), 1, FALSE) ELSE Fail_

SimpleStatement == \/ SimpleExpression \/ ExpressionDone \/ ParseCommand \/ CommandArg \/ CommandArgs
                   \/ Redirect \/ RedirectDone \/ ParseDelete \/ DeleteDone

-----------------------------------------------------------------------------
(* parse_body: inner braces are counted, and leave no trace in the body. *)

Block(depth, b) == [k |-> "Block", depth |-> depth, b |-> b]
InBlock(S) == At("block") /\ T \in S

ParseBody == At("body") /\ IF T = "{" THEN Call("block", Block(0, <<>>), 1) ELSE Fail_

BlockSeparator == InBlock(StmtEnd) /\ Go(ctl, frames, 1, FALSE)

(* Mutant: the brace is counted and stays. *)
BlockOpenStays == InBlock({"{"}) /\ Become("block", Block(Top.depth + 1, Top.b), 0)

BlockOpen == InBlock({"{"}) /\ Become("block", Block(Top.depth + 1, Top.b), 1)

BlockClose ==
    InBlock({"}"}) /\
    IF Top.depth = 0 THEN Go(GiveBody(Top.b), Tail(frames), 1, FALSE)
                     ELSE Become("block", Block(Top.depth - 1, Top.b), 1)

(* Mutant: the end of the source is one more separator. *)
BlockUnclosedWaits == InBlock({Eof}) /\ Go(ctl, frames, 0, FALSE)

BlockUnclosed == InBlock({Eof}) /\ Fail_

BlockStatement ==
    At("block") /\ T \notin StmtEnd \cup {"{", "}", Eof} /\ Go(Enter("statement"), frames, 0, FALSE)

BlockAppend == GivenDone("Block") /\ Become("block", Block(Top.depth, Append(Top.b, ctl.s)), 0)

(* parse_statement_body *)
StatementBody ==
    At("stmtbody") /\ IF T = "{" THEN Go(Enter("body"), frames, 0, FALSE)
                                 ELSE Call("statement", [k |-> "Single"], 0)
SingleDone == GivenDone("Single") /\ Go(GiveBody(<<ctl.s>>), Tail(frames), 0, FALSE)

Body == \/ ParseBody \/ BlockSeparator \/ BlockOpen \/ BlockClose \/ BlockUnclosed \/ BlockStatement
        \/ BlockAppend \/ StatementBody \/ SingleDone

-----------------------------------------------------------------------------
(* parse_statement *)

Statement(S) == At("statement") /\ T \in S

StartSimple == Statement(SimpleStart) /\ Call("start", [k |-> "Simple"], 0)
SimpleDone == GivenSimple("Simple") /\ Complete(ctl.s, Tail(frames), 0)

(* parse_parenthesized_expr *)
Condition(of, b, n) ==
    IF TokenAt(pos + n) = "(" THEN Expression([k |-> "Condition", of |-> of, b |-> b], n + 1, FALSE) ELSE Fail_

StartConditional == Statement({"if", "while", "switch"}) /\ Condition(T, <<>>, 1)

ConditionDone ==
    Given("Condition") /\
    CASE T # ")" -> Fail_
      [] T = ")" /\ Top.of = "do" -> Complete(DoOf(Top.b, ctl.e), Tail(frames), 1)
      [] T = ")" /\ Top.of \in {"if", "while"} -> Become("stmtbody", [k |-> Top.of, c |-> ctl.e], 1)
      [] T = ")" /\ Top.of = "switch" ->
            IF Next_ = "{"
            THEN Become("switch", [k |-> "switch", e |-> ctl.e, branches |-> <<>>, default |-> <<>>,
                                   case |-> <<>>, b |-> <<>>], 2)
            ELSE Fail_

ThenBody ==
    GivenBody("if") /\
    IF T = "else" THEN Become("stmtbody", [k |-> "else", c |-> Top.c, b |-> ctl.b], 1)
                  ELSE Complete(IfOf(Top.c, ctl.b, <<>>), Tail(frames), 0)

(* Mutant: the branches are swapped. *)
ElseBodySwapped == GivenBody("else") /\ Complete(IfOf(Top.c, ctl.b, <<Top.b>>), Tail(frames), 0)

ElseBody == GivenBody("else") /\ Complete(IfOf(Top.c, Top.b, <<ctl.b>>), Tail(frames), 0)

WhileBody == GivenBody("while") /\ Complete(WhileOf(Top.c, ctl.b), Tail(frames), 0)

StartDo == Statement({"do"}) /\ Call("body", [k |-> "do"], 1)
DoBody ==
    GivenBody("do") /\
    IF T = "while" /\ Next_ = "("
    THEN Parse(0, <<[k |-> "Condition", of |-> "do", b |-> ctl.b]>> \o Tail(frames), 2, FALSE)
    ELSE Fail_

Leave ==
    Statement({"break", "continue", "next", "nextfile", "return", "exit"}) /\
    IF T \notin {"return", "exit"} \/ Next_ \in StmtOrBlockEnd
    THEN Complete(LeaveOf(T, <<>>), frames, 1)
    ELSE Expression([k |-> "Leave", t |-> T], 1, T = "return")
LeaveDone == Given("Leave") /\ Complete(LeaveOf(Top.t, <<ctl.e>>), Tail(frames), 0)

StatementMissing ==
    At("statement") /\ Fail_
    /\ T \notin SimpleStart \cup {"if", "while", "switch", "do", "for", "break", "continue", "next",
                                  "nextfile", "return", "exit"}

-----------------------------------------------------------------------------
(* for: parse_for_ambiguous and parse_for_loop. *)

For(init, c) == [k |-> "for", init |-> init, c |-> c]
Looping(init, c, update) == [k |-> "loop", init |-> init, c |-> c, update |-> update]

StartFor ==
    Statement({"for"}) /\
    LET enclosed == TokenAt(pos + 2) = "("
        n == IF enclosed THEN 3 ELSE 2
    IN  CASE Next_ # "(" -> Fail_
          [] Next_ = "(" /\ TokenAt(pos + 2) = ";" -> Call("forloop", For(<<>>, <<>>), 2)
          [] Next_ = "(" /\ TokenAt(pos + n) \in SimpleStart ->
                Call("start", [k |-> "ForInit", enclosed |-> enclosed], n)
          [] OTHER -> Fail_

ForInit ==
    GivenSimple("ForInit") /\
    LET s == ctl.s
    IN  CASE Top.enclosed -> IF T = ")" THEN Become("forloop", For(<<s>>, <<>>), 1) ELSE Fail_
          [] ~Top.enclosed /\ s.k = "expr" /\ s.e.k = "in" ->
                IF Len(s.e.es) = 1 /\ IsVariable(s.e.es[1]) /\ T = ")"
                THEN Become("stmtbody", [k |-> "foreach", v |-> s.e.es[1], arr |-> s.e.v], 1) ELSE Fail_
          [] OTHER -> Become("forloop", For(<<s>>, <<>>), 0)

(* Neither the semicolon nor the newline behind the init is required. *)
ForCondition ==
    At("forloop") /\
    LET n == Count(Count(0, {";"}), {"Newline"})
    IN  IF TokenAt(pos + n) = ";" THEN Go(Enter("forupdate"), frames, n, FALSE)
                                  ELSE Parse(0, frames, n, FALSE)

ForConditionDone == Given("for") /\ Become("forupdate", For(Top.init, <<ctl.e>>), 0)

ForUpdate ==
    At("forupdate") /\
    LET n == Count(1, {"Newline"})
    IN  CASE T # ";" -> Fail_
          [] T = ";" /\ TokenAt(pos + n) = ")" -> Become("stmtbody", Looping(Top.init, Top.c, <<>>), n + 1)
          [] T = ";" /\ TokenAt(pos + n) \in SimpleStart -> Go(Enter("start"), frames, n, FALSE)
          [] OTHER -> Fail_

ForUpdateDone ==
    GivenSimple("for") /\
    IF T = ")" THEN Become("stmtbody", Looping(Top.init, Top.c, <<ctl.s>>), 1) ELSE Fail_

ForBody == GivenBody("loop") /\ Complete(ForOf(Top.init, Top.c, Top.update, ctl.b), Tail(frames), 0)
ForEachBody == GivenBody("foreach") /\ Complete(ForEachOf(Top.v, Top.arr, ctl.b), Tail(frames), 0)

ForStatement == \/ StartFor \/ ForInit \/ ForCondition \/ ForConditionDone \/ ForUpdate \/ ForUpdateDone
                \/ ForBody \/ ForEachBody

-----------------------------------------------------------------------------
(* switch.  case is the label whose body is being read: none, "default" or *)
(* a value.                                                                *)

DefaultCase == [a |-> "default"]

(* The body read so far goes to its label; the default remembers how many  *)
(* branches stand before it.                                               *)
Flushed ==
    CASE Top.case = <<>> -> Top
      [] Top.case = <<DefaultCase>> -> [Top EXCEPT !.default = <<Default(Top.b, Len(Top.branches))>>, !.b = <<>>]
      [] OTHER -> [Top EXCEPT !.branches = Append(@, <<Top.case[1], Top.b>>), !.b = <<>>]

SwitchClose ==
    At("switch") /\ T = "}" /\ Complete(SwitchOf(Flushed.e, Flushed.branches, Flushed.default), Tail(frames), 1)

(* parse_case: any atom but a variable. *)
SwitchCase ==
    At("switch") /\ T = "case" /\
    IF Next_ \in {"Number", "String", "Regex", "TypedRegex"} /\ TokenAt(pos + 2) = ":"
    THEN Become("switch", [Flushed EXCEPT !.case = <<Atom(Next_, tokens[pos + 1].s)>>], 3)
    ELSE Fail_

SwitchDefault ==
    At("switch") /\ T = "default" /\
    IF Next_ = ":" /\ Top.default = <<>> /\ Top.case # <<DefaultCase>>
    THEN Become("switch", [Flushed EXCEPT !.case = <<DefaultCase>>], 2)
    ELSE Fail_

SwitchStatement ==
    At("switch") /\ T \notin {"}", "case", "default"} /\
    IF Top.case = <<>> THEN Fail_ ELSE Go(Enter("statement"), frames, 0, FALSE)

SwitchAppend == GivenDone("switch") /\ Become("switch", [Top EXCEPT !.b = Append(@, ctl.s)], 0)

Switch == SwitchClose \/ SwitchCase \/ SwitchDefault \/ SwitchStatement \/ SwitchAppend

ParseStatement == \/ StartSimple \/ SimpleDone \/ StartConditional \/ ConditionDone \/ ThenBody \/ ElseBody
                  \/ WhileBody \/ StartDo \/ DoBody \/ Leave \/ LeaveDone \/ StatementMissing

-----------------------------------------------------------------------------
(* parse_top, parse_pattern, and the entries they add to the AST. *)

AtTop(S) == At("top") /\ T \in S
Again(n) == Go(Enter("top"), <<>>, n, FALSE)
KeepAst == UNCHANGED rulevars

Push(part, x) == ast' = [ast EXCEPT ![part] = Append(@, x)] /\ UNCHANGED concurrent

(* Mutant: the flag is not taken down. *)
AddRuleFlagged(rule) ==
    /\ ast' = [ast EXCEPT ![IF concurrent THEN "concurrent" ELSE "rules"] = Append(@, rule)]
    /\ UNCHANGED concurrent

AddRule(rule) ==
    /\ ast' = [ast EXCEPT ![IF concurrent THEN "concurrent" ELSE "rules"] = Append(@, rule)]
    /\ concurrent' = FALSE

TopPattern == AtTop(ExprStart) /\ Expression([k |-> "Pattern", from |-> <<>>], 0, FALSE) /\ KeepAst

PatternDone ==
    Given("Pattern") /\
    LET p == Append(Top.from, ctl.e)
    IN  CASE T = "," /\ Len(p) = 1 ->
                Parse(0, <<[k |-> "Pattern", from |-> p]>> \o Tail(frames), 1, FALSE) /\ KeepAst
          [] T = "{" -> Become("body", [k |-> "Rule", pattern |-> p], 0) /\ KeepAst
          [] OTHER -> Again(0) /\ AddRule(RuleOf(p, <<>>))

TopBody == AtTop({"{"}) /\ Call("body", [k |-> "Rule", pattern |-> <<>>], 0) /\ KeepAst
RuleDone == GivenBody("Rule") /\ Again(0) /\ AddRule(RuleOf(Top.pattern, <<ctl.b>>))

TopSpecial == AtTop(SpecialPatterns) /\ Call("body", [k |-> "Special", part |-> T], 1) /\ KeepAst
SpecialDone == GivenBody("Special") /\ Again(0) /\ Push(Top.part, ctl.b)

Load ==
    AtTop({"@load"}) /\
    IF Next_ = "String" /\ TokenAt(pos + 2) \in StmtEnd
    THEN Again(3) /\ Push("loads", tokens[pos + 1].s)
    ELSE Fail_ /\ KeepAst

(* Preprocessor::include_in is todo!(). *)
Include ==
    AtTop({"@include", "@nsinclude"}) /\ KeepAst /\
    IF Next_ = "String" THEN Go(Panicked, frames, 2, FALSE) ELSE Fail_

(* lex_ident: the first token of the text, read in posix mode, is an       *)
(* identifier without a namespace; what stands behind it is not read.      *)
PosixKeywords == Keywords \ {"func", "BEGINFILE", "ENDFILE"}
Leading(s, S) == LET n == SelectInSeq(s, LAMBDA c : c \notin S) IN IF n = 0 THEN s ELSE SubSeq(s, 1, n - 1)
Trimmed(s) == SubSeq(s, Len(Leading(s, Blanks)) + 1, Len(s))
FirstWord(s) == Leading(Trimmed(s), Letters \cup Digits)
IsNamespace(s) == LET w == FirstWord(s)
                  IN  /\ w # <<>> /\ Head(w) \in Letters \ {"::"} /\ ~Contains(w, "::")
                      /\ ~(Len(w) = 1 /\ Head(w) \in PosixKeywords)

Namespace ==
    AtTop({"@namespace"}) /\ KeepAst /\
    IF Next_ = "String" /\ IsNamespace(tokens[pos + 1].s) /\ TokenAt(pos + 2) \in StmtEnd
    THEN /\ namespace' = FirstWord(tokens[pos + 1].s)
         /\ pos' = pos + 3 /\ UNCHANGED <<lexvars, frames, ctl, typed>>
    ELSE Fail_

Concurrent ==
    AtTop({"@concurrent"}) /\ UNCHANGED ast /\
    IF concurrent \/ Next_ \in SpecialPatterns THEN Fail_ /\ UNCHANGED concurrent
    ELSE Again(1) /\ concurrent' = TRUE

TopSeparator == AtTop(StmtEnd) /\ KeepAst /\ IF concurrent THEN Fail_ ELSE Again(1)

TopMissing ==
    At("top") /\ KeepAst /\ Fail_
    /\ T \notin ExprStart \cup SpecialPatterns \cup StmtEnd
                \cup {"{", Eof, "@load", "@include", "@nsinclude", "@namespace", "@concurrent", "function"}

TopEnd == AtTop({Eof}) /\ Go(Enter("parsed"), frames, 0, FALSE) /\ KeepAst

(* parse_function, parse_signature *)
Function(name, args) == [k |-> "Function", name |-> name, args |-> args]

StartFunction ==
    AtTop({"function"}) /\ KeepAst /\
    IF Next_ = "Identifier" /\ TokenAt(pos + 2) = "("
    THEN LET f == Function(NameOf(tokens[pos + 1]), <<>>)
         IN  IF TokenAt(pos + 3) = ")" THEN Call("body", f, Count(4, {"Newline"})) ELSE Call("param", f, 3)
    ELSE Fail_

Parameter ==
    At("param") /\ KeepAst /\
    LET f == Function(Top.name, Append(Top.args, NameOf(tokens[pos])))
    IN  CASE T # "Identifier" -> Fail_
          [] T = "Identifier" /\ Contains(Top.args, NameOf(tokens[pos])) -> Fail_
          [] T = "Identifier" /\ ~Contains(Top.args, NameOf(tokens[pos])) /\ Next_ = "," -> Become("param", f, 2)
          [] T = "Identifier" /\ ~Contains(Top.args, NameOf(tokens[pos])) /\ Next_ = ")" ->
                Become("body", f, Count(2, {"Newline"}))
          [] OTHER -> Fail_

(* A second definition replaces the first one. *)
FunctionDone ==
    GivenBody("Function") /\ Again(0) /\ UNCHANGED concurrent /\
    ast' = [ast EXCEPT !.functions = (Top.name :> [args |-> Top.args, b |-> ctl.b]) @@ ast.functions]

ParseTop == \/ TopPattern \/ PatternDone \/ TopBody \/ RuleDone \/ TopSpecial \/ SpecialDone \/ Load \/ Include
            \/ Namespace \/ Concurrent \/ TopSeparator \/ TopMissing \/ TopEnd \/ StartFunction \/ Parameter
            \/ FunctionDone

RulesNext == \/ ParseTop
             \/ (PrattNext \/ SimpleStatement \/ Body \/ ParseStatement \/ ForStatement \/ Switch) /\ KeepAst
=============================================================================
