------------------------------- MODULE Pratt --------------------------------
(***************************************************************************)
(* The expression parser: parser/src/pratt.rs, and what it calls in        *)
(* parser/src/lib.rs.                                                      *)
(*                                                                         *)
(* The code is a recursive descent.  Its call stack is frames, innermost   *)
(* first: a frame is the rest of a function that waits for an expression   *)
(* or a list of them.  ctl is what runs: a function entered, or a value    *)
(* given back to the first frame.                                          *)
(*                                                                         *)
(* The parser asks for tokens one ahead, but the mode of the lexer depends *)
(* on the tokens alone: parsing starts here when the source has been lexed.*)
(***************************************************************************)
EXTENDS Lexer

VARIABLES pos,      \* the next token
          frames,   \* the callers
          ctl,      \* what runs
          typed,    \* typed_regex: an @/regex/ is accepted
          namespace \* the parser's namespace

prattvars == <<pos, frames, ctl, typed, namespace>>

Lhs(bp)           == [go |-> "lhs", bp |-> bp]                        \* parse_lhs
Fold(bp, stop, e) == [go |-> "fold", bp |-> bp, stop |-> stop, e |-> e] \* fold_rhs
Enter(f)          == [go |-> f]    \* parse_prefix, parse_place, parse_function_args
File(p)           == [go |-> "file", p |-> p]
Give(e)           == [go |-> "give", e |-> e]
GiveList(es)      == [go |-> "list", es |-> es]
Failed            == [go |-> "failed"]

Folding(bp, stop) == [k |-> "Fold", bp |-> bp, stop |-> stop]
Items(es, arg)    == [k |-> "Items", es |-> es, arg |-> arg]
Indexing(v, place) == [k |-> "Index", v |-> v, place |-> place]

-----------------------------------------------------------------------------
TokenAt(n) == IF n <= Len(tokens) THEN tokens[n].t ELSE IF lexed = "error" THEN "Error" ELSE Eof
T == TokenAt(pos)

(* The parenthesis is next to the token before it: is_yuxtaposed. *)
CallAt(n) == TokenAt(n + 1) = "(" /\ tokens[n + 1].from = tokens[n].to

Parsing == lexed # "lexing"
At(f) == Parsing /\ ctl.go = f
Top == frames[1]
Given(k) == At("give") /\ Top.k = k
GivenList(k) == At("list") /\ Top.k = k

Go(c, fs, n, ty) ==
    /\ ctl' = c /\ frames' = fs /\ pos' = pos + n /\ typed' = ty
    /\ UNCHANGED <<lexvars, namespace>>

(* A step that calls parse_expression(bp) and goes on with fs. *)
Parse(bp, fs, n, ty) == Go(Lhs(bp), <<Folding(bp, "none")>> \o fs, n, ty)

Return(e, n) == Go(Give(e), Tail(frames), n, typed)
Fail_ == Go(Failed, frames, 0, typed)

-----------------------------------------------------------------------------
(* parse_lhs *)

Parenthesis == At("lhs") /\ T = "(" /\ Parse(0, <<[k |-> "Paren", bp |-> ctl.bp]>> \o frames, 1, FALSE)

PrefixOperator == At("lhs") /\ T \in PrefixTokens /\ Go(Enter("prefix"), frames, 0, typed)

(* parse_prefix *)
ParsePrefix ==
    At("prefix") /\
    IF T \in SuffixTokens
    THEN Go(Enter("place"), <<[k |-> "Incr", op |-> T]>> \o frames, 1, FALSE)
    ELSE Parse(UnaryBp(T), <<[k |-> "Unary", op |-> T]>> \o frames, 1, FALSE)

(* parse_prefix_getline *)
GetlinePrefix ==
    At("lhs") /\ T = "getline" /\
    IF TokenAt(pos + 1) \in PlaceTokens
    THEN Parse(BP_CONCAT.r - 1, <<[k |-> "GetlinePlace"]>> \o frames, 1, FALSE)
    ELSE Go(File(<<>>), frames, 1, FALSE)

GetlineFile ==
    At("file") /\
    IF T = "<" THEN Parse(BP_CMP.r, <<[k |-> "GetlineFile", p |-> ctl.p]>> \o frames, 1, typed)
               ELSE Go(Give(GetlineOf("input", ctl.p, <<>>)), frames, 0, typed)

(* The name an identifier or an indirect call stands for. *)
NameOf(token) == Qualify(namespace, IF token.t = "IndirectCall" THEN Tail(token.s) ELSE token.s)
VariableOf(token) == Atom("Variable", IF token.t = "Identifier" THEN NameOf(token) ELSE token.s)

(* parse_atom_or_call.  A special variable may not be called: not behind   *)
(* an @, and not by its name in the namespace awk.                         *)
SpecialCall(token) ==
    \E v \in Specials \cup {"ARGIND"} :
        token.s = IF token.t = "IndirectCall" THEN <<"@", v>> ELSE <<"awk", "::", v>>

AtomOrCall ==
    At("lhs") /\ T \notin PrefixTokens \cup {"(", "getline", Eof, "Error"} /\
    CASE T \in {"Identifier", "IndirectCall"} /\ CallAt(pos) /\ ~SpecialCall(tokens[pos]) ->
            Go(Enter("args"), <<[k |-> "Call", how |-> T, name |-> NameOf(tokens[pos]), typed |-> typed]>> \o frames,
               2, typed)
      [] T \in PlaceTokens /\ ~CallAt(pos) -> Go(Give(VariableOf(tokens[pos])), frames, 1, typed)
      [] T \in {"Number", "String", "Regex"} \/ (T = "TypedRegex" /\ typed) ->
            Go(Give(Atom(T, tokens[pos].s)), frames, 1, typed)
      [] OTHER -> Fail_

LhsMissing == At("lhs") /\ T \in {Eof, "Error"} /\ Fail_

(* parse_function_args: each argument has a parser of its own. *)
ParseArgs ==
    At("args") /\
    IF T = ")" THEN Go(GiveList(<<>>), frames, 0, typed)
               ELSE Parse(0, <<Items(<<>>, TRUE)>> \o frames, 0, TRUE)

(* parse_place.  "(" is an error, as is a call. *)
ParsePlace ==
    At("place") /\
    CASE T = "$" -> Parse(BP_RECORD, <<[k |-> "Unary", op |-> "$"]>> \o frames, 1, typed)
      [] T \in PlaceTokens \ {"$"} /\ ~CallAt(pos) ->
            LET v == VariableOf(tokens[pos])
            IN  IF TokenAt(pos + 1) = "["
                THEN Parse(0, <<Items(<<>>, FALSE), Indexing(v, TRUE)>> \o frames, 2, typed)
                ELSE Go(Give(v), frames, 1, typed)
      [] OTHER -> Fail_

-----------------------------------------------------------------------------
(* The rest of each function, when it has what it waited for. *)

FoldOn == Given("Fold") /\ Go(Fold(Top.bp, Top.stop, ctl.e), Tail(frames), 0, typed)

UnaryDone == Given("Unary") /\ Return(UnaryOf(Top.op, ctl.e), 0)

IncrDone == Given("Incr") /\ Return(IncrOf(Top.op, FALSE, ctl.e), 0)

(* parse_parenthesized *)
ParenDone ==
    Given("Paren") /\
    CASE T = "," /\ Top.bp < BP_RECORD ->
            Go(ctl, <<Items(<<>>, FALSE), [k |-> "InList"]>> \o Tail(frames), 0, typed)
      [] T = ")" -> Return(ctl.e, 1)
      [] OTHER -> Fail_

InListDone ==
    GivenList("InList") /\
    IF T = ")" /\ TokenAt(pos + 1) = "in"
    THEN Go(Enter("place"), <<[k |-> "In", es |-> ctl.es]>> \o Tail(frames), 2, typed)
    ELSE Fail_

InDone == Given("In") /\ IF IsVariable(ctl.e) THEN Return(InOf(ctl.e, Top.es), 0) ELSE Fail_

(* parse_comma_expr, parse_function_args *)
NextItem ==
    Given("Items") /\
    LET es == Append(Top.es, ctl.e)
    IN  IF T = "," THEN Parse(0, <<Items(es, Top.arg)>> \o Tail(frames), 1, Top.arg \/ typed)
                   ELSE Go(GiveList(es), Tail(frames), 0, typed)

CallDone == GivenList("Call") /\
    IF T = ")" THEN Go(Give(CallOf(Top.how, Top.name, ctl.es)), Tail(frames), 1, Top.typed) ELSE Fail_

(* parse_index_exprs, and what is made of the indices.  parse_place goes   *)
(* on with the next bracket, the fold returns to its loop.                 *)
IndexDone == GivenList("Index") /\
    LET x == IF IsVariable(Top.v) THEN IndexOf(Top.v, ctl.es) ELSE NestedOf(Top.v, ctl.es)
    IN  CASE T # "]" -> Fail_
          [] T = "]" /\ Top.place /\ TokenAt(pos + 1) = "[" ->
                Parse(0, <<Items(<<>>, FALSE), Indexing(x, TRUE)>> \o Tail(frames), 2, typed)
          [] OTHER -> Return(x, 1)

GetlinePlaceDone ==
    Given("GetlinePlace") /\
    IF IsPlace(ctl.e) THEN Go(File(<<ctl.e>>), Tail(frames), 0, typed)
    ELSE Return(BinaryOf(Concat, GetlineOf("input", <<>>, <<>>), ctl.e), 0)

GetlineFileDone == Given("GetlineFile") /\ Return(GetlineOf("file", Top.p, <<ctl.e>>), 0)

ConcatDone == Given("Concat") /\ Return(BinaryOf(Concat, Top.l, ctl.e), 0)

(* parse_infix_op, after its right operand. *)
InfixDone ==
    Given("Infix") /\
    LET r == IF Top.op \in MatchOps /\ ctl.e.k = "atom" /\ ctl.e.a = "Regex"
             THEN Atom("TypedRegex", ctl.e.s) ELSE ctl.e
    IN  Return(BinaryOf(Top.op, Top.l, r), 0)

AssignDone == Given("Assign") /\ Return(AssignOf(Top.op, Top.p, ctl.e), 0)

(* Mutant: the ":" is not looked for. *)
ThenDoneUnchecked == Given("Then") /\
    Parse(BP_TERNARY.r, <<[k |-> "Else", c |-> Top.c, t |-> ctl.e]>> \o Tail(frames), 1, typed)

(* parse_ternary *)
ThenDone == Given("Then") /\
    IF T = ":" THEN Parse(BP_TERNARY.r, <<[k |-> "Else", c |-> Top.c, t |-> ctl.e]>> \o Tail(frames), 1, typed)
               ELSE Fail_
ElseDone == Given("Else") /\ Return(TernaryOf(Top.c, Top.t, ctl.e), 0)

(* parse_getline_pipe *)
PipeDone ==
    Given("Pipe") /\
    IF IsPlace(ctl.e) THEN Return(GetlineOf(Top.op, <<ctl.e>>, <<Top.l>>), 0)
    ELSE Return(BinaryOf(Concat, GetlineOf(Top.op, <<>>, <<Top.l>>), ctl.e), 0)

-----------------------------------------------------------------------------
(* fold_rhs: one turn of its loop.  L is the operand folded so far. *)

L == ctl.e
Resume == <<Folding(ctl.bp, ctl.stop)>> \o frames
Stops(stop, t) == \/ stop = "redirection" /\ t \in RedirectionTokens
                  \/ stop = "question" /\ t = "?"
FoldAt(S) == At("fold") /\ T \in S /\ ~Stops(ctl.stop, T)

(* The operator binds less than the caller asks for, or is none. *)
Breaks ==
    CASE T \in SuffixTokens -> BP_INC_DEC < ctl.bp
      [] T \in AssignTokens -> ~IsPlace(L) /\ BP_ASSIGN.l < ctl.bp
      [] T = "[" -> ~IsPlace(L) /\ BP_GROUPING < ctl.bp
      [] T = "in" -> FALSE
      [] T \in BinaryTokens \ SuffixTokens -> BinaryBp(BinaryOperator(T)).l < ctl.bp
      [] T = "?" -> BP_TERNARY.l < ctl.bp
      [] T \in WriteKinds -> BP_CONCAT.l < ctl.bp
      [] OTHER -> TRUE

FoldStop == At("fold") /\ (T = Eof \/ Stops(ctl.stop, T)) /\ Go(Give(L), frames, 0, typed)

FoldError == At("fold") /\ T = "Error" /\ Fail_

FoldBreak == At("fold") /\ T \notin {Eof, "Error"} /\ ~Stops(ctl.stop, T) /\ Breaks
             /\ Go(Give(L), frames, 0, FALSE)

(* What is no place is concatenated with the prefix operation. *)
FoldSuffix ==
    FoldAt(SuffixTokens) /\ ~Breaks /\
    IF IsPlace(L) THEN Go(Fold(ctl.bp, ctl.stop, IncrOf(T, TRUE, L)), frames, 1, FALSE)
    ELSE Go(Enter("prefix"), <<[k |-> "Concat", l |-> L]>> \o Resume, 0, FALSE)

(* parse_place_op: a typed regex ends before a ternary. *)
FoldAssign ==
    FoldAt(AssignTokens) /\ ~Breaks /\
    LET fs == <<[k |-> "Assign", op |-> T, p |-> L]>> \o Resume
    IN  CASE ~IsPlace(L) -> Fail_
          [] IsPlace(L) /\ T = "=" /\ TokenAt(pos + 1) = "TypedRegex" ->
                Go(Fold(BP_ASSIGN.l, "question", Atom("TypedRegex", tokens[pos + 1].s)), fs, 2, TRUE)
          [] OTHER -> Parse(BP_ASSIGN.r, fs, 1, T = "=")

FoldIndex ==
    FoldAt({"["}) /\ ~Breaks /\
    IF IsVariable(L) \/ L.k \in {"index", "nested"}
    THEN Parse(0, <<Items(<<>>, FALSE), Indexing(L, FALSE)>> \o Resume, 1, FALSE)
    ELSE Fail_

FoldIn == FoldAt({"in"}) /\ Go(Enter("place"), <<[k |-> "In", es |-> <<L>>]>> \o Resume, 1, FALSE)

NonAssociative(e) == e.k = "binary" /\ e.op \in CmpOps

(* Mutant: the operator is not consumed. *)
FoldInfixKeeps ==
    FoldAt(BinaryTokens \ SuffixTokens) /\ ~Breaks /\
    LET op == BinaryOperator(T)
    IN  IF IsTypedRegex(L) \/ (op \in CmpOps /\ NonAssociative(L)) THEN Fail_
        ELSE Parse(BinaryBp(op).r, <<[k |-> "Infix", op |-> op, l |-> L]>> \o Resume, 0, op \in MatchOps)

(* Mutant: the right operand is asked for what the left one was. *)
FoldInfixLeft ==
    FoldAt(BinaryTokens \ SuffixTokens) /\ ~Breaks /\
    LET op == BinaryOperator(T)
    IN  IF IsTypedRegex(L) \/ (op \in CmpOps /\ NonAssociative(L)) THEN Fail_
        ELSE Parse(BinaryBp(op).l, <<[k |-> "Infix", op |-> op, l |-> L]>> \o Resume,
                   IF op = Concat THEN 0 ELSE 1, op \in MatchOps)

(* parse_infix_op *)
FoldInfix ==
    FoldAt(BinaryTokens \ SuffixTokens) /\ ~Breaks /\
    LET op == BinaryOperator(T)
    IN  IF IsTypedRegex(L) \/ (op \in CmpOps /\ NonAssociative(L)) THEN Fail_
        ELSE Parse(BinaryBp(op).r, <<[k |-> "Infix", op |-> op, l |-> L]>> \o Resume,
                   IF op = Concat THEN 0 ELSE 1, op \in MatchOps)

FoldTernary ==
    FoldAt({"?"}) /\ ~Breaks /\
    IF IsTypedRegex(L) THEN Fail_
    ELSE Parse(BP_TERNARY.r, <<[k |-> "Then", c |-> L]>> \o Resume, 1, FALSE)

FoldPipe ==
    FoldAt(WriteKinds) /\ ~Breaks /\
    CASE TokenAt(pos + 1) # "getline" -> Fail_
      [] TokenAt(pos + 1) = "getline" /\ TokenAt(pos + 2) \in PlaceTokens ->
            Parse(BP_CONCAT.r - 1, <<[k |-> "Pipe", op |-> T, l |-> L]>> \o Resume, 2, FALSE)
      [] OTHER -> Go(Fold(ctl.bp, ctl.stop, GetlineOf(T, <<>>, <<L>>)), frames, 2, FALSE)

-----------------------------------------------------------------------------
ParseLhs == \/ Parenthesis \/ PrefixOperator \/ ParsePrefix \/ GetlinePrefix \/ GetlineFile
            \/ AtomOrCall \/ LhsMissing \/ ParseArgs \/ ParsePlace
Done == \/ FoldOn \/ UnaryDone \/ IncrDone \/ ParenDone \/ InListDone \/ InDone \/ NextItem
        \/ CallDone \/ IndexDone \/ GetlinePlaceDone \/ GetlineFileDone \/ ConcatDone
        \/ InfixDone \/ AssignDone \/ ThenDone \/ ElseDone \/ PipeDone
FoldRhs == \/ FoldStop \/ FoldError \/ FoldBreak \/ FoldSuffix \/ FoldAssign \/ FoldIndex
           \/ FoldIn \/ FoldInfix \/ FoldTernary \/ FoldPipe

PrattNext == ParseLhs \/ Done \/ FoldRhs
=============================================================================
