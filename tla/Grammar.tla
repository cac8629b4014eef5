------------------------------ MODULE Grammar -------------------------------
(***************************************************************************)
(* What the lexer, the expression parser and the pretty printer share: the *)
(* nodes, the operators the tokens stand for and their binding powers      *)
(* (parser/src/ast.rs), and the classes of tokens (parser/src/lex.rs).     *)
(*                                                                         *)
(* A Place is a subset of the expressions: lower_from takes a node apart   *)
(* and puts the same fields in the Place, so a place is its expression.    *)
(* A name is a sequence of symbols; "::" is one of them.                   *)
(***************************************************************************)
EXTENDS Integers, Sequences, SequencesExt

Atom(a, s)       == [k |-> "atom", a |-> a, s |-> s]
UnaryOf(op, e)   == [k |-> "unary", op |-> op, e |-> e]
BinaryOf(op, l, r) == [k |-> "binary", op |-> op, l |-> l, r |-> r]
IncrOf(op, post, p) == [k |-> "incr", op |-> op, post |-> post, p |-> p]
AssignOf(op, p, e) == [k |-> "assign", op |-> op, p |-> p, e |-> e]
IndexOf(v, es)   == [k |-> "index", v |-> v, es |-> es]
NestedOf(arr, es) == [k |-> "nested", arr |-> arr, es |-> es]
InOf(v, es)      == [k |-> "in", v |-> v, es |-> es]
TernaryOf(c, t, f) == [k |-> "ternary", c |-> c, t |-> t, f |-> f]
CallOf(how, name, es) == [k |-> "call", how |-> how, name |-> name, es |-> es]

(* from: "input", "file", "|" or "|&"; the place and the command or file   *)
(* are sequences of at most one element.                                   *)
GetlineOf(from, p, e) == [k |-> "getline", from |-> from, p |-> p, e |-> e]

IsVariable(e) == e.k = "atom" /\ e.a = "Variable"
IsTypedRegex(e) == e.k = "atom" /\ e.a = "TypedRegex"

(* Place::lower_from succeeds. *)
IsPlace(e) == IsVariable(e) \/ (e.k = "unary" /\ e.op = "$") \/ e.k \in {"index", "nested"}

(* Identifier::qualify, and what Display for Identifier leaves of it. *)
Qualify(ns, name) == IF Contains(name, "::") THEN name ELSE ns \o <<"::">> \o name
Literal(name) == SubSeq(name, SelectInSeq(name, LAMBDA s : s = "::") + 1, Len(name))

(* Statements and rules: an Option is a sequence of at most one element, a *)
(* body a sequence of statements.  A pattern of two expressions is a range.*)
ExprStmt(e)           == [k |-> "expr", e |-> e]
CommandOf(name, es, rx) == [k |-> "command", name |-> name, es |-> es, rx |-> rx]
DeleteOf(v, es)       == [k |-> "delete", v |-> v, es |-> es]
IfOf(c, b, orelse)    == [k |-> "if", c |-> c, b |-> b, orelse |-> orelse]
WhileOf(c, b)         == [k |-> "while", c |-> c, b |-> b]
DoOf(b, c)            == [k |-> "do", b |-> b, c |-> c]
ForOf(init, c, update, b) == [k |-> "for", init |-> init, c |-> c, update |-> update, b |-> b]
ForEachOf(v, arr, b)  == [k |-> "foreach", v |-> v, arr |-> arr, b |-> b]
SwitchOf(e, branches, default) == [k |-> "switch", e |-> e, branches |-> branches, default |-> default]
Default(b, before)    == [b |-> b, before |-> before]   \* of a switch: how many branches precede it
LeaveOf(t, es)        == [k |-> t, es |-> es]   \* return, exit, break, continue, next, nextfile
RuleOf(pattern, actions) == [pattern |-> pattern, actions |-> actions]

-----------------------------------------------------------------------------
(* The tokens.  An operator is named by its token. *)

Specials == {"NR", "NF", "FS", "RS", "OFS", "ORS", "FILENAME", "ARGC", "ARGV", "SUBSEP",
             "FNR", "OFMT", "RSTART", "RLENGTH", "ENVIRON"}

PlaceTokens == Specials \cup {"Identifier", "$"}
PrefixTokens == {"++", "--", "$", "!", "-", "+"}
AtomTokens == {"Number", "String", "Regex"} \cup (PlaceTokens \ {"$"})
ExprStart == AtomTokens \cup PrefixTokens \cup {"IndirectCall", "getline", "("}

UnaryTokens == {"$", "!", "+", "-"}
SuffixTokens == {"++", "--"}
AssignTokens == {"=", "+=", "-=", "*=", "/=", "^=", "%="}
CmpOps == {"==", "!=", ">", "<", "<=", ">="}
MatchOps == {"~", "!~"}
InfixTokens == CmpOps \cup MatchOps \cup {"+", "-", "*", "/", "%", "&&", "||"}
WriteKinds == {"|", "|&"}
RedirectionTokens == {">", ">>", "|", "|&"}
Commands == {"print", "printf"}
SimpleStart == ExprStart \cup Commands \cup {"delete"}
SpecialPatterns == {"BEGIN", "END", "BEGINFILE", "ENDFILE"}
StmtEnd == {"Newline", ";"}
StmtOrBlockEnd == StmtEnd \cup {"}"}

Concat == "concat"

(* BinaryOperator::parse *)
BinaryTokens == InfixTokens \cup ExprStart
BinaryOperator(t) == IF t \in InfixTokens THEN t ELSE Concat

-----------------------------------------------------------------------------
(* Binding powers, left and right; one number for a prefix or a suffix.    *)
BP(l, r) == [l |-> l, r |-> r]

BP_GROUPING == 32
BP_RECORD   == 30
BP_INC_DEC  == 28
BP_RAISE    == BP(27, 26)
BP_UNARY    == 24
BP_MULTI    == BP(20, 21)
BP_ADDITION == BP(18, 19)
BP_CONCAT   == BP(16, 17)
BP_CMP      == BP(14, 15)
BP_MATCH    == BP(12, 13)
BP_IN       == BP(10, 11)
BP_AND      == BP(8, 9)
BP_OR       == BP(6, 7)
BP_TERNARY  == BP(4, 3)
BP_ASSIGN   == BP(2, 1)

UnaryBp(op) == IF op = "$" THEN BP_RECORD ELSE BP_UNARY

(* Mutant: the additive operators associate to the right. *)
BinaryBpRight(op) == IF op \in {"+", "-"} THEN BP(18, 17) ELSE
                     IF op \in {"*", "/"} THEN BP_MULTI ELSE IF op = "%" THEN BP_RAISE ELSE
                     IF op = Concat THEN BP_CONCAT ELSE IF op \in CmpOps THEN BP_CMP ELSE
                     IF op \in MatchOps THEN BP_MATCH ELSE IF op = "&&" THEN BP_AND ELSE BP_OR

(* BinaryOperator::binding_power *)
BinaryBp(op) == CASE op = Concat -> BP_CONCAT
                  [] op \in CmpOps -> BP_CMP
                  [] op = "&&" -> BP_AND
                  [] op = "||" -> BP_OR
                  [] op \in MatchOps -> BP_MATCH
                  [] op \in {"+", "-"} -> BP_ADDITION
                  [] op \in {"*", "/"} -> BP_MULTI
                  [] op = "%" -> BP_RAISE
=============================================================================
