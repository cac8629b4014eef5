------------------------------ MODULE Frontend ------------------------------
(***************************************************************************)
(* From the text of a program to its AST, to the text uu_main prints of it *)
(* (main.rs), and back: the printed text is lexed and parsed as a source   *)
(* of its own.                                                             *)
(***************************************************************************)
EXTENDS Rules

CONSTANTS Sources,        \* programs: a text, and what it means
          Printed(_, _)   \* what Display writes of an AST with its functions in some order

VARIABLES meant,   \* what the source means
          printed  \* the source is what Display wrote of its AST

frontvars == <<lexvars, prattvars, rulevars, meant, printed>>

(* A text means an AST, or nothing because it is no program; or the run    *)
(* does not say.                                                           *)
Anything == [k |-> "anything"]
Nothing  == [k |-> "nothing"]
Tree(a)  == [k |-> "tree", ast |-> a]

FrontInit ==
    /\ \E s \in Sources : LexInit(s.text) /\ meant = s.meant
    /\ RulesInit /\ printed = FALSE

Lex == LexNext /\ UNCHANGED <<prattvars, rulevars, meant, printed>>
ParseProgram == RulesNext /\ UNCHANGED <<meant, printed>>

Ended == ctl.go \in {"parsed", "failed", "panicked"}
Accepted == ctl.go = "parsed"

(* writeln!("{ast}"), and a new run on what it wrote. *)
Reprint ==
    /\ Accepted /\ ~printed
    /\ \E names \in SetToSeqs(DOMAIN ast.functions) : source' = Printed(ast, names) \o <<"\n">>
    /\ meant' = Tree(ast) /\ printed' = TRUE
    /\ at' = 1 /\ ctx' = "AcceptExpression" /\ tokens' = <<>> /\ lexed' = "lexing"
    /\ pos' = 1 /\ frames' = <<>> /\ ctl' = Enter("top") /\ typed' = FALSE
    /\ namespace' = <<"awk">> /\ ast' = EmptyAst /\ concurrent' = FALSE

Stop == Ended /\ ~(Accepted /\ ~printed) /\ UNCHANGED frontvars

FrontNext == Lex \/ ParseProgram \/ Reprint \/ Stop

(* The process is alone and nothing it waits for can fail to come. *)
FrontSpec == FrontInit /\ [][FrontNext]_frontvars /\ WF_frontvars(FrontNext)

-----------------------------------------------------------------------------
(* Properties. *)

(* The parser never goes past the end of the tokens, what is given reaches *)
(* a caller that waits for it, and who has parsed has no caller left.      *)
FrontTypeOK ==
    /\ pos \in 1 .. Len(tokens) + 1
    /\ lexed \in {"lexing", "done", "error"}
    /\ ctx \in {"AcceptExpression", "AcceptOperator"}
    /\ typed \in BOOLEAN /\ concurrent \in BOOLEAN
    /\ DOMAIN ast = DOMAIN EmptyAst
    /\ ctl.go = "list" => frames # <<>> /\ Top.k \in {"InList", "Call", "Index", "Command", "Delete"}
    /\ ctl.go = "simple" => frames # <<>> /\ Top.k \in {"Simple", "ForInit", "for"}
    /\ ctl.go = "done" => frames # <<>> /\ Top.k \in {"Block", "Single", "switch"}
    /\ ctl.go \in {"top", "parsed"} => frames = <<>>

(* A source is a program exactly if gawk's grammar, with this program's    *)
(* @concurrent before a rule, makes it one, and its AST is the one that    *)
(* grammar gives it: which statement an else, a case or a brace belongs    *)
(* to, in which order statements, rules and branches stand, what an        *)
(* annotation or a namespace applies to (README.md:3 promises gawk's       *)
(* language).                                                              *)
ParsesAsMeant ==
    Ended /\ ~printed => CASE meant.k = "tree" -> Accepted /\ ast = meant.ast
                           [] meant.k = "nothing" -> ~Accepted
                           [] OTHER -> TRUE

(* What uu_main prints of a program is read back as the same program.      *)
(* Concurrent rules are not printed, and functions lose their namespace:   *)
(* programs that have them are exempt.                                     *)
Printable(a) == a.concurrent = <<>> /\ \A f \in DOMAIN a.functions : f[1] = "awk"
RoundTrip == printed /\ Ended /\ Printable(meant.ast) => Accepted /\ ast = meant.ast

(* An annotation marks one rule: so many have been read as there are       *)
(* concurrent rules, and one more while it waits for its rule.             *)
Annotations == Cardinality({i \in 1 .. pos - 1 : tokens[i].t = "@concurrent"})
EachAnnotationMarksOneRule ==
    ~Ended => Annotations = Len(ast.concurrent) + IF concurrent THEN 1 ELSE 0

(* Every source gets its answer: no text, however broken, keeps the parser *)
(* in one of its loops.                                                    *)
EveryParseAnswers == <>(Ended /\ (Accepted => printed))

(* The work that is left to the function that runs, with a caller of kind  *)
(* k, until it passes a token, fails or gives a value to its caller.  Who  *)
(* has looked at the next token and must pass it or fail has less left     *)
(* than those who may still call it.                                       *)
WorkOf(go, k) ==
    CASE go \in {"failed", "panicked", "parsed"} -> 0
      [] go \in {"prefix", "place", "body", "param"} -> 1
      [] go = "lhs" -> 2
      [] go = "start" -> 30
      [] go = "statement" -> 50
      [] go = "stmtbody" -> 70
      [] go \in {"top", "block", "switch", "redirect", "forupdate"} -> 102
      [] go = "forloop" -> 103
      [] go \in {"list", "simple", "done", "body!"} -> 104
      [] go = "args" -> 106
      [] go = "file" -> 110
      [] go = "fold" -> 117
      [] go = "give" /\ k = "Fold" -> 108
      [] go = "give" /\ k = "Paren" -> 116
      [] OTHER -> 105

Effort == 200 * (Len(tokens) + 1 - pos) + 10 * Len(frames) + WorkOf(ctl.go, Top.k)

(* The parser answers every text in a number of steps that grows with the  *)
(* number of its tokens and no faster: what it does without passing a      *)
(* token brings it closer to one that it must pass, or to its answer.      *)
ParserReadsOn == [][ParseProgram => Effort' \in Nat /\ Effort' < Effort]_frontvars

(* A "/" behind an operand divides (README.md:3 promises gawk's language): *)
(* the mode of the lexer knows every token that ends an operand.           *)
SlashAfterOperandDivides ==
    \A i \in 1 .. Len(tokens) - 1 :
        tokens[i].t \in EndsOperand \cup Specials => tokens[i+1].t # "Regex"

-----------------------------------------------------------------------------
(* Which operator takes an operand.  LeftBp: how much the token t binds    *)
(* what stands before it.  Asks: how much the caller f asks of what it     *)
(* waits for.                                                              *)
LeftBp(t) ==
    CASE t \in SuffixTokens -> BP_INC_DEC
      [] t \in BinaryTokens \ SuffixTokens -> BinaryBp(BinaryOperator(t)).l
      [] t = "?" -> BP_TERNARY.l
      [] t \in WriteKinds -> BP_CONCAT.l
      [] t = "in" -> BP_IN.l
      [] t \in AssignTokens -> BP_ASSIGN.l
      [] t = "[" -> BP_GROUPING
      [] OTHER -> 0

OperatorFrames == {"Infix", "Unary", "Then", "Else", "Assign", "GetlinePlace", "Pipe"}
Asks(f) ==
    CASE f.k = "Infix" -> BinaryBp(f.op).r
      [] f.k = "Unary" -> UnaryBp(f.op)
      [] f.k \in {"Then", "Else"} -> BP_TERNARY.r
      [] f.k = "Assign" -> BP_ASSIGN.r
      [] f.k \in {"GetlinePlace", "Pipe"} -> BP_CONCAT.r - 1

(* The operator of e binds at least n on its left, more than n on its      *)
(* right.  The code takes without asking: an assignment and an in what     *)
(* they find on their left, a prefix ++ behind an operand and what follows *)
(* a getline (they are concatenated).                                      *)
Prefixed(e) == e.op = Concat /\ e.r.k = "incr" /\ ~e.r.post
BindsLeft(e, n) ==
    CASE e.k = "binary" -> BinaryBp(e.op).l >= n \/ Prefixed(e) \/ (e.op = Concat /\ e.l.k = "getline")
      [] e.k = "ternary" -> BP_TERNARY.l >= n
      [] e.k = "incr" /\ e.post -> BP_INC_DEC >= n
      [] OTHER -> TRUE
BindsRight(e, n) ==
    CASE e.k = "binary" -> BinaryBp(e.op).r > n \/ Prefixed(e)
      [] e.k = "unary" -> UnaryBp(e.op) > n
      [] e.k = "ternary" -> BP_TERNARY.r > n
      [] e.k = "assign" -> BP_ASSIGN.r > n
      [] OTHER -> TRUE

(* What has just been read may be a group, of which nothing is said; and a *)
(* typed regex that is assigned ends before a ternary (pratt.rs:345-349).  *)
Behind == IF pos > 1 THEN TokenAt(pos - 1) ELSE Eof
TypedAssigned == {i \in 2 .. pos - 1 : tokens[i].t = "TypedRegex" /\ tokens[i - 1].t = "="}
CutShort == T = "?" /\ TypedAssigned # {}

(* e was folded for a caller that asks for bp, and is ready for the next   *)
(* token; the operator that waits in f gets e, and leaves the next token.  *)
Folded(e, bp) ==
    Behind = ")" \/ (BindsLeft(e, bp) /\ (BindsRight(e, LeftBp(T)) \/ (e.k = "assign" /\ CutShort)))
Completes(e, f) ==
    /\ Behind = ")" \/ BindsLeft(e, Asks(f))
    /\ LeftBp(T) < Asks(f) \/ (f.k = "Assign" /\ CutShort)

(* Of two operators the operand between them goes to the one that binds    *)
(* more, to the left one if they bind the same and associate to the left:  *)
(* whatever operators are nested in each other, none is given an operand   *)
(* that falls apart at a weaker one, none leaves one behind that binds     *)
(* more, and none is applied to what a weaker one has folded.              *)
OperandsBind ==
    /\ At("give") /\ frames # <<>> /\ Top.k \in OperatorFrames => Completes(ctl.e, Top)
    /\ At("fold") => Folded(L, ctl.bp)
=============================================================================
