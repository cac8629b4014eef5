------------------------------- MODULE Lexer --------------------------------
(***************************************************************************)
(* The lexer: lexer/src/lib.rs, with neither posix_strict nor gnu_strict,  *)
(* as parser/src/lex.rs constructs it.                                     *)
(*                                                                         *)
(* A source is a sequence of symbols: a character, or one symbol for what  *)
(* no rule takes apart - a piece of a word, of a number, an escape of a    *)
(* string or regex, a backslash and its newline, the "::" of a qualified   *)
(* name, which is a piece of a word.  The value of a number is its text.   *)
(***************************************************************************)
EXTENDS Grammar

CONSTANTS Letters,   \* pieces of words
          Digits     \* pieces of numbers

VARIABLES source,
          at,        \* the next symbol to read
          ctx,       \* extras.ctx: what a "/" would be
          tokens,    \* the tokens read: t the kind, s the text, [from, to) the span
          lexed      \* "lexing", "done", "error"

lexvars == <<source, at, ctx, tokens, lexed>>

Blanks    == {" ", "\t", "\\\n"}
BlanksNl  == Blanks \cup {"\n"}

OneSymbol == {"+", "-", "*", "%", "^", "=", "<", ">", "!", "~", "|", "}", "(", ")",
              "[", "]", "$", ";", "?", ":", "{", ","}
Operators ==
    [op \in OneSymbol \cup {"++", "--", "**", "+=", "-=", "*=", "%=", "^=", "**=", "==", "!=", "<=", ">=",
                           "!~", "|&", ">>", "&&", "||"} |->
        CASE op = "++" -> <<"+", "+">> [] op = "--" -> <<"-", "-">> [] op = "**" -> <<"*", "*">>
          [] op = "+=" -> <<"+", "=">> [] op = "-=" -> <<"-", "=">> [] op = "*=" -> <<"*", "=">>
          [] op = "%=" -> <<"%", "=">> [] op = "^=" -> <<"^", "=">> [] op = "**=" -> <<"*", "*", "=">>
          [] op = "==" -> <<"=", "=">> [] op = "!=" -> <<"!", "=">> [] op = "<=" -> <<"<", "=">>
          [] op = ">=" -> <<">", "=">> [] op = "!~" -> <<"!", "~">> [] op = "|&" -> <<"|", "&">>
          [] op = ">>" -> <<">", ">">> [] op = "&&" -> <<"&", "&">> [] op = "||" -> <<"|", "|">>
          [] OTHER -> <<op>>]

(* Two spellings of one token. *)
Kind(op) == CASE op = "**" -> "^" [] op = "**=" -> "^=" [] OTHER -> op

Keywords == Specials \cup
    {"ARGIND", "BEGIN", "END", "BEGINFILE", "ENDFILE", "if", "else", "switch", "case",
     "default", "do", "while", "for", "in", "print", "printf", "getline", "next", "nextfile",
     "exit", "break", "continue", "return", "delete", "function", "func"}

Directives == [d \in {"load", "include", "nsinclude", "namespace", "concurrent"} |->
                  CASE d = "load" -> "@load" [] d = "include" -> "@include" [] d = "nsinclude" -> "@nsinclude"
                    [] d = "namespace" -> "@namespace" [] d = "concurrent" -> "@concurrent"]

(* Tokens whose rule takes the blanks and newlines behind them. *)
Absorbing == {"&&", "||", "?", ":", "{", ",", "else", "do"}

(* Tokens whose callback is accept_operator, those that have no callback;  *)
(* any other accepts an expression.                                        *)
EndsOperand == {"Identifier", "IndirectCall", "Number", "String", "Regex", "TypedRegex", ")", "]"}
NoCallback  == {"ARGIND", "@load", "@include"}

LexInit(text) ==
    /\ source = text
    /\ at = 1 /\ ctx = "AcceptExpression" /\ tokens = <<>> /\ lexed = "lexing"

-----------------------------------------------------------------------------
Eof == "eof"

(* The end of the source is no symbol of it. *)
ASSUME SymbolsAssumption == Eof \notin Letters \cup Digits

Sym(i) == IF i <= Len(source) THEN source[i] ELSE Eof

(* The end of the run of symbols of S that starts at i, and the first      *)
(* symbol of S at i or behind it.                                          *)
RunOf(i, S) == CHOOSE j \in i .. Len(source) + 1 :
                   Sym(j) \notin S /\ \A k \in i .. j - 1 : source[k] \in S
Until(i, S) == CHOOSE j \in i .. Len(source) + 1 :
                   Sym(j) \in S \cup {Eof} /\ \A k \in i .. j - 1 : source[k] \notin S

Rest(i) == SubSeq(source, i, Len(source))
Word(i) == RunOf(i, Letters \cup Digits)
Single(i, S) == Word(i) = i + 1 /\ Sym(i) \in S

(* What the rules match at i: a kind and the end of the text. *)
OperatorAt(i) == {[t |-> Kind(op), to |-> i + Len(Operators[op])] :
                     op \in {o \in DOMAIN Operators : IsPrefix(Operators[o], Rest(i))}}
WordAt(i) == {[t |-> IF ~Single(i, Keywords) THEN "Identifier"
                     ELSE IF Sym(i) = "func" THEN "function" ELSE Sym(i),
               to |-> Word(i)] : x \in {Sym(i)} \cap Letters}
NumberAt(i) ==
    LET j == IF Sym(i) = "-" THEN i + 1 ELSE i
    IN  {[t |-> "Number", to |-> RunOf(j, Digits)] : x \in {Sym(j)} \cap Digits}
DirectiveAt(i) ==
    {[t |-> IF Single(i + 1, DOMAIN Directives) THEN Directives[Sym(i + 1)] ELSE "IndirectCall",
      to |-> Word(i + 1)] : x \in {y \in {Sym(i + 1)} \cap Letters : Sym(i) = "@"}}

Matches(i) == OperatorAt(i) \cup WordAt(i) \cup NumberAt(i) \cup DirectiveAt(i)

(* Logos takes the longest match. *)
Munch(i) == CHOOSE m \in Matches(i) : \A n \in Matches(i) : n.to <= m.to

-----------------------------------------------------------------------------
Reading(S) == lexed = "lexing" /\ Sym(at) \in S

(* Mutant: a closing bracket accepts an expression. *)
ContextAfterBracket(t) ==
    IF t \in EndsOperand \ {"]"} THEN "AcceptOperator"
    ELSE IF t \in NoCallback THEN ctx ELSE "AcceptExpression"

ContextAfter(t) ==
    IF t \in EndsOperand THEN "AcceptOperator"
    ELSE IF t \in NoCallback THEN ctx ELSE "AcceptExpression"

Found(t, s, to) ==
    LET end == IF t \in Absorbing THEN RunOf(to, BlanksNl) ELSE to
    IN  /\ tokens' = Append(tokens, [t |-> t, s |-> s, from |-> at, to |-> end])
        /\ at' = end
        /\ ctx' = ContextAfter(t)
        /\ UNCHANGED <<source, lexed>>

Fail == lexed' = "error" /\ UNCHANGED <<source, at, ctx, tokens>>

(* parse_content: up to the delimiter, which a newline may not precede. *)
Content(t, start, delimiter) ==
    LET end == Until(start, {delimiter, "\n"})
    IN  IF Sym(end) = delimiter THEN Found(t, SubSeq(source, start, end - 1), end + 1) ELSE Fail

SkipBlanks ==
    /\ Reading(Blanks \cup {"#"})
    /\ at' = IF Sym(at) = "#" THEN Until(at, {"\n"}) ELSE RunOf(at, Blanks)
    /\ UNCHANGED <<source, ctx, tokens, lexed>>

Newline == Reading({"\n"}) /\ Found("Newline", <<>>, RunOf(at, {"\n"}))

TokenRule ==
    /\ lexed = "lexing" /\ Matches(at) # {}
    /\ Found(Munch(at).t, SubSeq(source, at, Munch(at).to - 1), Munch(at).to)

ParseString == Reading({"\""}) /\ Content("String", at + 1, "\"")

ParseTypedRegex == Reading({"@"}) /\ Sym(at + 1) = "/" /\ Content("TypedRegex", at + 2, "/")

ParseRegexOrOp ==
    /\ Reading({"/"})
    /\ CASE ctx = "AcceptExpression" -> Content("Regex", at + 1, "/")
         [] ctx = "AcceptOperator" /\ Sym(at + 1) = "=" -> Found("/=", <<"/", "=">>, at + 2)
         [] OTHER -> Found("/", <<"/">>, at + 1)

Unexpected ==
    /\ lexed = "lexing" /\ at <= Len(source)
    /\ Matches(at) = {} /\ Sym(at) \notin BlanksNl \cup {"#", "\"", "/"}
    /\ ~(Sym(at) = "@" /\ Sym(at + 1) = "/")
    /\ Fail

LexEnd ==
    /\ Reading({Eof})
    /\ lexed' = "done" /\ UNCHANGED <<source, at, ctx, tokens>>

LexNext == \/ SkipBlanks \/ Newline \/ TokenRule \/ ParseString \/ ParseTypedRegex
           \/ ParseRegexOrOp \/ Unexpected \/ LexEnd
=============================================================================
