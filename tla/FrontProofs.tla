----------------------------- MODULE FrontProofs -----------------------------
(***************************************************************************)
(* The front end: whatever the sources and whatever Display writes, every  *)
(* value a function of the parser gives back finds a caller that waits for *)
(* it, the parser never reads behind the end of the tokens, an annotation  *)
(* marks one rule, a slash behind an operand divides, of two operators the *)
(* one that binds more takes the operand between them, and the parser      *)
(* answers in a number of steps that its tokens bound.                     *)
(*                                                                         *)
(* The argument: a function answers one sort of value (Answer), a caller   *)
(* waits for some (Waits), and each step keeps the stack of callers in     *)
(* order (CallStack) with what runs on top of it (Running).  A step passes *)
(* the tokens it has looked at and no other (Passes).  For the operators:  *)
(* each caller asks no less of its operand than the callers below it allow *)
(* (Between), and what runs bears what the one on top asks (Bears).  For   *)
(* the bound: a step that passes no token leaves less work (Falls).        *)
(***************************************************************************)
EXTENDS Frontend, WellFoundedInduction, FiniteSetTheorems, SequenceTheorems, TLAPS

-----------------------------------------------------------------------------
(* Sequences whose elements have no type. *)
Stream(s) == \E S : s \in Seq(S)

LEMMA StreamFacts == ASSUME NEW s, Stream(s) PROVE Len(s) \in Nat /\ (s = <<>> <=> Len(s) = 0)
<1>1. PICK S : s \in Seq(S)
  BY DEF Stream
<1> QED BY <1>1

LEMMA StreamEmpty == Stream(<<>>)
<1>1. <<>> \in Seq({})
  OBVIOUS
<1> QED BY <1>1 DEF Stream

LEMMA StreamAppend ==
    ASSUME NEW s, NEW x, Stream(s)
    PROVE  /\ Stream(Append(s, x)) /\ Len(Append(s, x)) = Len(s) + 1
           /\ Append(s, x)[Len(s) + 1] = x
           /\ \A i \in 1 .. Len(s) : Append(s, x)[i] = s[i]
<1>1. PICK S : s \in Seq(S)
  BY DEF Stream
<1>2. s \in Seq(S \cup {x}) /\ x \in S \cup {x}
  BY <1>1
<1> QED BY <1>2 DEF Stream

LEMMA StreamPush ==
    ASSUME NEW s, NEW x, Stream(s)
    PROVE  /\ Stream(<<x>> \o s) /\ Len(<<x>> \o s) = Len(s) + 1
           /\ <<x>> \o s # <<>> /\ (<<x>> \o s)[1] = x
           /\ \A i \in 1 .. Len(s) : (<<x>> \o s)[i + 1] = s[i]
           /\ Tail(<<x>> \o s) = s
<1>1. PICK S : s \in Seq(S)
  BY DEF Stream
<1> DEFINE Z == S \cup {x}
           y == <<x>> \o s
<1>2. s \in Seq(Z) /\ <<x>> \in Seq(Z)
  BY <1>1
<1>3. y \in Seq(Z) /\ Len(y) = Len(s) + 1 /\ y[1] = x /\ \A i \in 1 .. Len(s) : y[i + 1] = s[i]
  BY <1>2
<1>4. Tail(y) \in Seq(Z) /\ Len(Tail(y)) = Len(s) /\ \A i \in 1 .. Len(s) : Tail(y)[i] = s[i]
  BY <1>2, <1>3
<1>5. Tail(y) = s
  BY <1>2, <1>4, SeqEqual
<1> QED BY <1>2, <1>3, <1>5 DEF Stream

LEMMA StreamPop ==
    ASSUME NEW s, Stream(s), s # <<>>
    PROVE  /\ Stream(Tail(s)) /\ Len(Tail(s)) = Len(s) - 1 /\ Len(s) \in Nat /\ Len(s) >= 1
           /\ \A i \in 1 .. Len(s) - 1 : Tail(s)[i] = s[i + 1]
<1>1. PICK S : s \in Seq(S)
  BY DEF Stream
<1>2. Tail(s) \in Seq(S)
  BY <1>1
<1> QED BY <1>1, <1>2 DEF Stream

(* Two callers are pushed one after the other. *)
LEMMA PushBoth == ASSUME NEW s, NEW x, NEW y, Stream(s) PROVE <<x, y>> \o s = <<x>> \o (<<y>> \o s)
<1>1. PICK S : s \in Seq(S)
  BY DEF Stream
<1> DEFINE Z == S \cup {x, y}
<1>2. s \in Seq(Z) /\ <<x>> \in Seq(Z) /\ <<y>> \in Seq(Z) /\ <<x, y>> \in Seq(Z)
  BY <1>1
<1>3. <<x, y>> \o s \in Seq(Z) /\ <<x>> \o (<<y>> \o s) \in Seq(Z)
  BY <1>2
<1>4. /\ Len(<<x, y>> \o s) = Len(s) + 2 /\ Len(<<x>> \o (<<y>> \o s)) = Len(s) + 2
      /\ \A i \in 1 .. Len(s) + 2 : (<<x, y>> \o s)[i] = (<<x>> \o (<<y>> \o s))[i]
  BY <1>2
<1> QED BY <1>3, <1>4, SeqEqual

-----------------------------------------------------------------------------
(* What the function behind a frame answers in the end. *)
Answer(k) ==
    CASE k \in {"Fold", "Paren", "InList", "In", "Incr", "Unary", "GetlinePlace", "GetlineFile", "Call",
                "Index", "Concat", "Infix", "Assign", "Then", "Else", "Pipe"} -> "expr"
      [] k = "Items" -> "list"
      [] k = "Redirect" -> "redirect"
      [] k \in {"Expr", "Command", "Delete"} -> "simple"
      [] k \in {"Simple", "ForInit", "for", "foreach", "loop", "if", "else", "while", "do", "Condition",
                "Leave", "switch"} -> "stmt"
      [] k \in {"Block", "Single"} -> "body"
      [] OTHER -> "entry"

(* The frames that wait for it. *)
Waits(s) ==
    CASE s = "expr" -> {"Fold", "Paren", "In", "Incr", "Unary", "GetlinePlace", "GetlineFile", "Concat",
                        "Infix", "Assign", "Then", "Else", "Pipe", "Items", "Redirect", "Expr", "Command",
                        "for", "Condition", "Leave", "Pattern"}
      [] s = "list" -> {"InList", "Call", "Index", "Command", "Delete"}
      [] s = "redirect" -> {"Command"}
      [] s = "simple" -> {"Simple", "ForInit", "for"}
      [] s = "stmt" -> {"Block", "Single", "switch"}
      [] s = "body" -> {"if", "else", "while", "do", "loop", "foreach", "Rule", "Special", "Function"}
      [] s = "block" -> {"Block"}
      [] s = "switch" -> {"switch"}
      [] s = "for" -> {"for"}
      [] s = "param" -> {"Function"}
      [] OTHER -> {}

(* What the function that runs answers, or the frame it goes on with. *)
Sort(go) ==
    CASE go \in {"lhs", "fold", "prefix", "place", "file", "give"} -> "expr"
      [] go \in {"args", "list"} -> "list"
      [] go \in {"start", "simple"} -> "simple"
      [] go \in {"statement", "done"} -> "stmt"
      [] go \in {"body", "stmtbody", "body!"} -> "body"
      [] go \in {"forloop", "forupdate"} -> "for"
      [] go \in {"top", "parsed"} -> "entry"
      [] OTHER -> go

Takes(fs, s) == IF fs = <<>> THEN s = "entry" ELSE fs[1].k \in Waits(s)

FrameOK(f) == /\ f.k = "Special" => f.part \in SpecialPatterns
              /\ f.k = "Call" => f.typed \in BOOLEAN
              /\ f.k = "Condition" => f.of \in {"if", "while", "switch", "do"}

CallStack(fs) ==
    /\ Stream(fs)
    /\ \A i \in 1 .. Len(fs) :
          /\ FrameOK(fs[i])
          /\ IF i = Len(fs) THEN Answer(fs[i].k) = "entry" ELSE fs[i + 1].k \in Waits(Answer(fs[i].k))

Running(c, fs) == CallStack(fs) /\ (c.go \in {"failed", "panicked"} \/ Takes(fs, Sort(c.go)))

LEMMA EmptyStack == CallStack(<<>>) /\ Takes(<<>>, "entry")
<1>1. Len(<<>>) = 0
  OBVIOUS
<1> QED BY <1>1, StreamEmpty DEF CallStack, Takes

LEMMA PushStack ==
    ASSUME NEW fs, NEW f, CallStack(fs), Takes(fs, Answer(f.k)), FrameOK(f)
    PROVE  /\ CallStack(<<f>> \o fs) /\ \A s : f.k \in Waits(s) => Takes(<<f>> \o fs, s)
<1> DEFINE y == <<f>> \o fs
<1>1. Stream(fs) /\ Len(fs) \in Nat /\ (fs = <<>> <=> Len(fs) = 0)
  BY StreamFacts DEF CallStack
<1>2. /\ Stream(y) /\ Len(y) = Len(fs) + 1 /\ y # <<>> /\ y[1] = f
      /\ \A i \in 1 .. Len(fs) : y[i + 1] = fs[i]
  BY <1>1, StreamPush
<1> HIDE DEF y
<1>3. ASSUME NEW i \in 1 .. Len(y)
      PROVE /\ FrameOK(y[i])
            /\ IF i = Len(y) THEN Answer(y[i].k) = "entry" ELSE y[i + 1].k \in Waits(Answer(y[i].k))
  <2>1. CASE i = 1
    <3>1. CASE fs = <<>>
      BY <1>1, <1>2, <2>1, <3>1 DEF Takes
    <3>2. CASE fs # <<>>
      <4>1. fs[1].k \in Waits(Answer(f.k)) /\ y[2] = fs[1] /\ Len(y) # 1
        BY <1>1, <1>2, <3>2 DEF Takes
      <4> QED BY <1>1, <1>2, <2>1, <4>1
    <3> QED BY <3>1, <3>2
  <2>2. CASE i # 1
    <3>1. PICK j \in 1 .. Len(fs) : i = j + 1
      BY <1>1, <1>2, <2>2
    <3>2. y[i] = fs[j] /\ (i = Len(y) <=> j = Len(fs)) /\ (j # Len(fs) => y[i + 1] = fs[j + 1])
      BY <1>1, <1>2, <3>1
    <3>3. /\ FrameOK(fs[j])
          /\ IF j = Len(fs) THEN Answer(fs[j].k) = "entry" ELSE fs[j + 1].k \in Waits(Answer(fs[j].k))
      BY <3>1 DEF CallStack
    <3> QED BY <3>2, <3>3
  <2> QED BY <2>1, <2>2
<1>4. CallStack(y)
  BY <1>2, <1>3 DEF CallStack
<1>5. \A s : f.k \in Waits(s) => Takes(y, s)
  BY <1>2 DEF Takes
<1> QED BY <1>4, <1>5 DEF y

LEMMA PopStack ==
    ASSUME NEW fs, CallStack(fs), fs # <<>>
    PROVE  CallStack(Tail(fs)) /\ Takes(Tail(fs), Answer(fs[1].k)) /\ FrameOK(fs[1])
<1> DEFINE y == Tail(fs)
<1>1. /\ Stream(y) /\ Len(y) = Len(fs) - 1 /\ Len(fs) \in Nat /\ Len(fs) >= 1
      /\ \A i \in 1 .. Len(fs) - 1 : y[i] = fs[i + 1]
  BY StreamPop DEF CallStack
<1>2. y = <<>> <=> Len(y) = 0
  BY <1>1, StreamFacts
<1> HIDE DEF y
<1>3. ASSUME NEW i \in 1 .. Len(y)
      PROVE /\ FrameOK(y[i])
            /\ IF i = Len(y) THEN Answer(y[i].k) = "entry" ELSE y[i + 1].k \in Waits(Answer(y[i].k))
  <2>1. i + 1 \in 1 .. Len(fs) /\ y[i] = fs[i + 1] /\ (i = Len(y) <=> i + 1 = Len(fs))
        /\ (i # Len(y) => y[i + 1] = fs[i + 1 + 1])
    BY <1>1
  <2> DEFINE j == i + 1
  <2>2. /\ FrameOK(fs[j])
        /\ IF j = Len(fs) THEN Answer(fs[j].k) = "entry" ELSE fs[j + 1].k \in Waits(Answer(fs[j].k))
    BY <2>1 DEF CallStack
  <2> QED BY <2>1, <2>2
<1>4. 1 \in 1 .. Len(fs)
  BY <1>1
<1>5. /\ FrameOK(fs[1])
      /\ IF 1 = Len(fs) THEN Answer(fs[1].k) = "entry" ELSE fs[1 + 1].k \in Waits(Answer(fs[1].k))
  BY <1>4 DEF CallStack
<1>6. Takes(y, Answer(fs[1].k))
  <2>1. CASE Len(fs) = 1
    BY <1>1, <1>2, <1>5, <2>1 DEF Takes
  <2>2. CASE Len(fs) # 1
    <3>1. y[1] = fs[2] /\ y # <<>>
      BY <1>1, <1>2, <2>2
    <3> QED BY <1>5, <2>2, <3>1 DEF Takes
  <2> QED BY <2>1, <2>2
<1> QED BY <1>1, <1>3, <1>5, <1>6 DEF CallStack, y

-----------------------------------------------------------------------------
(* A step passes n tokens, each of which is there and is no annotation. *)
Passes(n) == n \in Nat /\ \A i \in 0 .. n - 1 : TokenAt(pos + i) \notin {Eof, "Error", "@concurrent"}

Here == /\ Running(ctl, frames)
        /\ pos \in Nat /\ typed \in BOOLEAN
        /\ ctl.go = "prefix" => T \in PrefixTokens

(* What the parser is after a step. *)
Moves == /\ Running(ctl', frames')
         /\ \E n : Passes(n) /\ pos' = pos + n
         /\ typed' \in BOOLEAN
         /\ ctl'.go = "prefix" => TokenAt(pos)' \in PrefixTokens /\ pos' = pos
         /\ UNCHANGED lexvars

Plain(t) == t \notin {Eof, "Error", "@concurrent"}

LEMMA PassesNone == Passes(0)
  BY DEF Passes
LEMMA PassesOne == ASSUME pos \in Nat, Plain(T) PROVE Passes(1)
  BY DEF Passes, Plain, T
LEMMA PassesTwo == ASSUME pos \in Nat, Plain(T), Plain(TokenAt(pos + 1)) PROVE Passes(2)
  BY DEF Passes, Plain, T
LEMMA PassesMore ==
    ASSUME pos \in Nat, NEW n, Passes(n), Plain(TokenAt(pos + n)) PROVE Passes(n + 1)
  BY DEF Passes, Plain
LEMMA PassesCount ==
    ASSUME pos \in Nat, NEW n, Passes(n), NEW S, \A t \in S : Plain(t) PROVE Passes(Count(n, S))
  BY PassesMore DEF Count

(* A function that is entered, or a value that is given. *)
LEMMA GoMoves ==
    ASSUME NEW c, NEW fs, NEW n, NEW ty, Go(c, fs, n, ty),
           CallStack(fs), Takes(fs, Sort(c.go)), ty \in BOOLEAN, Passes(n), c.go # "prefix"
    PROVE  Moves
  BY DEF Go, Moves, Running

LEMMA FailMoves == ASSUME Here, Fail_ PROVE Moves
<1>1. Passes(0) /\ pos' = pos + 0
  BY PassesNone DEF Fail_, Go
<1> QED BY <1>1 DEF Fail_, Go, Moves, Running, Here, Failed

LEMMA ParseMoves ==
    ASSUME NEW bp, NEW fs, NEW n, NEW ty, Parse(bp, fs, n, ty),
           CallStack(fs), Takes(fs, "expr"), ty \in BOOLEAN, Passes(n)
    PROVE  Moves
<1> DEFINE f == Folding(bp, "none")
<1>1. f.k = "Fold" /\ FrameOK(f) /\ Answer(f.k) = "expr" /\ f.k \in Waits("expr")
  BY DEF Folding, FrameOK, Answer, Waits
<1>2. CallStack(<<f>> \o fs) /\ Takes(<<f>> \o fs, "expr")
  BY <1>1, PushStack
<1>3. Sort(Lhs(bp).go) = "expr" /\ Lhs(bp).go # "prefix"
  BY DEF Lhs, Sort
<1> QED BY <1>2, <1>3, GoMoves DEF Parse

(* A call of parse_expression from a frame f that is put on fs. *)
LEMMA AskMoves ==
    ASSUME NEW bp, NEW f, NEW fs, NEW n, NEW ty, Parse(bp, <<f>> \o fs, n, ty),
           CallStack(fs), Takes(fs, Answer(f.k)), FrameOK(f), f.k \in Waits("expr"), ty \in BOOLEAN, Passes(n)
    PROVE  Moves
<1>1. CallStack(<<f>> \o fs) /\ Takes(<<f>> \o fs, "expr")
  BY PushStack
<1> QED BY <1>1, ParseMoves

LEMMA PushMoves ==
    ASSUME NEW c, NEW f, NEW fs, NEW n, NEW ty, Go(c, <<f>> \o fs, n, ty),
           CallStack(fs), Takes(fs, Answer(f.k)), FrameOK(f), f.k \in Waits(Sort(c.go)), ty \in BOOLEAN, Passes(n),
           c.go # "prefix"
    PROVE  Moves
<1>1. CallStack(<<f>> \o fs) /\ Takes(<<f>> \o fs, Sort(c.go))
  BY PushStack
<1> QED BY <1>1, GoMoves

(* A list of items is asked for by the frame f that is put on fs. *)
LEMMA ItemsMoves ==
    ASSUME NEW f, NEW fs, NEW n, NEW ty, NEW es, NEW arg,
           \/ Parse(0, <<Items(es, arg), f>> \o fs, n, ty)
           \/ ctl.go = "give" /\ Go(ctl, <<Items(es, arg), f>> \o fs, n, ty),
           CallStack(fs), Takes(fs, Answer(f.k)), FrameOK(f), f.k \in Waits("list"), ty \in BOOLEAN, Passes(n)
    PROVE  Moves
<1> DEFINE g == Items(es, arg)
           gs == <<f>> \o fs
<1>1. g.k = "Items" /\ FrameOK(g) /\ Answer(g.k) = "list" /\ g.k \in Waits("expr")
  BY DEF Items, FrameOK, Answer, Waits
<1>2. CallStack(gs) /\ Takes(gs, "list")
  BY PushStack
<1>3. <<g, f>> \o fs = <<g>> \o gs
  BY PushBoth DEF CallStack
<1>4. CASE Parse(0, <<g, f>> \o fs, n, ty)
  <2> HIDE DEF g, gs
  <2>1. Parse(0, <<g>> \o gs, n, ty)
    BY <1>3, <1>4
  <2> QED BY <1>1, <1>2, <2>1, AskMoves
<1>5. CASE ctl.go = "give" /\ Go(ctl, <<g, f>> \o fs, n, ty)
  <2> HIDE DEF g, gs
  <2>1. Go(ctl, <<g>> \o gs, n, ty)
    BY <1>3, <1>5
  <2>2. Sort(ctl.go) = "expr" /\ ctl.go # "prefix"
    BY <1>5 DEF Sort
  <2> QED BY <1>1, <1>2, <2>1, <2>2, PushMoves
<1> QED BY <1>4, <1>5

(* What is below the caller, when something is given back to it. *)
LEMMA Under ==
    ASSUME Here, Sort(ctl.go) # "entry", ctl.go \notin {"failed", "panicked"}
    PROVE  /\ frames # <<>> /\ CallStack(frames) /\ Takes(frames, Sort(ctl.go)) /\ FrameOK(Top)
           /\ Top.k \in Waits(Sort(ctl.go))
           /\ CallStack(Tail(frames)) /\ Takes(Tail(frames), Answer(Top.k))
<1>1. CallStack(frames) /\ Takes(frames, Sort(ctl.go)) /\ frames # <<>>
  BY DEF Here, Running, Takes
<1> QED BY <1>1, PopStack DEF Takes, Top

-----------------------------------------------------------------------------
(* The tokens the parser looks for. *)
LEMMA PlainTokens ==
    /\ \A t \in SimpleStart \cup AssignTokens \cup BinaryTokens \cup WriteKinds \cup RedirectionTokens : Plain(t)
    /\ \A t \in SpecialPatterns \cup StmtOrBlockEnd \cup PlaceTokens \cup PrefixTokens \cup SuffixTokens : Plain(t)
  BY DEF SimpleStart, ExprStart, AtomTokens, PlaceTokens, Specials, PrefixTokens, Commands, AssignTokens,
         BinaryTokens, InfixTokens, CmpOps, MatchOps, WriteKinds, RedirectionTokens, SpecialPatterns,
         StmtOrBlockEnd, StmtEnd, SuffixTokens, Plain, Eof

(* A frame in the middle of an expression. *)
ExprKinds == {"Paren", "Incr", "Unary", "GetlinePlace", "GetlineFile", "In", "Concat", "Infix", "Assign",
              "Then", "Else", "Pipe", "Fold"}

LEMMA ExprFrame ==
    ASSUME NEW f, f.k \in ExprKinds PROVE Answer(f.k) = "expr" /\ FrameOK(f) /\ f.k \in Waits("expr")
  BY DEF ExprKinds, Answer, FrameOK, Waits

ExprRuns == {"lhs", "fold", "prefix", "place", "file", "give"}

LEMMA SortExpr == \A go \in ExprRuns : Sort(go) = "expr"
  BY DEF ExprRuns, Sort

LEMMA UnderExpr ==
    ASSUME Here, ctl.go \in ExprRuns
    PROVE  /\ frames # <<>> /\ CallStack(frames) /\ Takes(frames, "expr") /\ FrameOK(Top)
           /\ Top.k \in Waits("expr")
           /\ CallStack(Tail(frames)) /\ Takes(Tail(frames), Answer(Top.k))
           /\ pos \in Nat /\ typed \in BOOLEAN
<1>1. Sort(ctl.go) = "expr" /\ ctl.go \notin {"failed", "panicked"}
  BY SortExpr DEF ExprRuns
<1> QED BY <1>1, Under DEF Here

LEMMA AskExpr ==
    ASSUME NEW bp, NEW f, NEW fs, NEW n, NEW ty, Parse(bp, <<f>> \o fs, n, ty), f.k \in ExprKinds,
           CallStack(fs), Takes(fs, "expr"), ty \in BOOLEAN, Passes(n)
    PROVE  Moves
  BY ExprFrame, AskMoves

(* A function that answers an expression goes on as another one. *)
LEMMA GoExpr ==
    ASSUME NEW c, NEW fs, NEW n, NEW ty, Go(c, fs, n, ty), c.go \in ExprRuns \ {"prefix"},
           CallStack(fs), Takes(fs, "expr"), ty \in BOOLEAN, Passes(n)
    PROVE  Moves
  BY SortExpr, GoMoves

LEMMA PushExpr ==
    ASSUME NEW c, NEW f, NEW fs, NEW n, NEW ty, Go(c, <<f>> \o fs, n, ty), c.go \in ExprRuns \ {"prefix"},
           f.k \in ExprKinds, CallStack(fs), Takes(fs, "expr"), ty \in BOOLEAN, Passes(n)
    PROVE  Moves
<1>1. f.k \in Waits(Sort(c.go))
  BY ExprFrame, SortExpr
<1> QED BY <1>1, ExprFrame, PushMoves

LEMMA ReturnMoves ==
    ASSUME Here, ctl.go \in {"give", "list"}, Answer(Top.k) = "expr", NEW e, NEW n, Return(e, n), Passes(n)
    PROVE  Moves
<1>1. Sort(ctl.go) # "entry" /\ ctl.go \notin {"failed", "panicked"}
  BY DEF Sort
<1>2. CallStack(Tail(frames)) /\ Takes(Tail(frames), "expr")
  BY <1>1, Under
<1> QED BY <1>2, GoExpr DEF Return, Give, ExprRuns, Here

-----------------------------------------------------------------------------
(* parse_lhs *)
LEMMA ParenthesisMoves == ASSUME Here, Parenthesis PROVE Moves
<1>1. T = "(" /\ ctl.go = "lhs" /\ Parse(0, <<[k |-> "Paren", bp |-> ctl.bp]>> \o frames, 1, FALSE)
  BY DEF Parenthesis, At
<1>2. Passes(1)
  BY <1>1, PassesOne DEF Here, Plain, Eof
<1> QED BY <1>1, <1>2, UnderExpr, AskExpr DEF ExprKinds, ExprRuns

LEMMA PrefixOperatorMoves == ASSUME Here, PrefixOperator PROVE Moves
<1>1. T \in PrefixTokens /\ ctl.go = "lhs" /\ Go(Enter("prefix"), frames, 0, typed)
  BY DEF PrefixOperator, At
<1>2. Passes(0) /\ pos' = pos + 0 /\ pos' = pos
  BY <1>1, PassesNone DEF Here, Go
<1>3. TokenAt(pos)' = T /\ ctl'.go = "prefix" /\ frames' = frames /\ typed' = typed /\ UNCHANGED lexvars
  BY <1>1, <1>2 DEF Go, TokenAt, T, lexvars, Enter
<1>4. Running(ctl', frames')
  BY <1>1, <1>3, UnderExpr, SortExpr DEF Running, ExprRuns
<1> QED BY <1>1, <1>2, <1>3, <1>4 DEF Moves, Here

LEMMA ParsePrefixMoves == ASSUME Here, ParsePrefix PROVE Moves
<1>1. ctl.go = "prefix" /\ T \in PrefixTokens
  BY DEF ParsePrefix, At, Here
<1>2. Passes(1)
  BY <1>1, PassesOne, PlainTokens DEF Here
<1>3. CASE T \in SuffixTokens
  <2>1. Go(Enter("place"), <<[k |-> "Incr", op |-> T]>> \o frames, 1, FALSE)
    BY <1>3 DEF ParsePrefix
  <2> QED BY <1>1, <1>2, <2>1, UnderExpr, PushExpr DEF ExprKinds, ExprRuns, Enter
<1>4. CASE T \notin SuffixTokens
  <2>1. Parse(UnaryBp(T), <<[k |-> "Unary", op |-> T]>> \o frames, 1, FALSE)
    BY <1>4 DEF ParsePrefix
  <2> QED BY <1>1, <1>2, <2>1, UnderExpr, AskExpr DEF ExprKinds, ExprRuns
<1> QED BY <1>3, <1>4

LEMMA GetlinePrefixMoves == ASSUME Here, GetlinePrefix PROVE Moves
<1>1. T = "getline" /\ ctl.go = "lhs"
  BY DEF GetlinePrefix, At
<1>2. Passes(1)
  BY <1>1, PassesOne DEF Here, Plain, Eof
<1>3. CASE TokenAt(pos + 1) \in PlaceTokens
  <2>1. Parse(BP_CONCAT.r - 1, <<[k |-> "GetlinePlace"]>> \o frames, 1, FALSE)
    BY <1>3 DEF GetlinePrefix
  <2> QED BY <1>1, <1>2, <2>1, UnderExpr, AskExpr DEF ExprKinds, ExprRuns
<1>4. CASE TokenAt(pos + 1) \notin PlaceTokens
  <2>1. Go(File(<<>>), frames, 1, FALSE)
    BY <1>4 DEF GetlinePrefix
  <2> QED BY <1>1, <1>2, <2>1, UnderExpr, GoExpr DEF ExprRuns, File
<1> QED BY <1>3, <1>4

LEMMA GetlineFileMoves == ASSUME Here, GetlineFile PROVE Moves
<1>1. ctl.go = "file"
  BY DEF GetlineFile, At
<1>2. CASE T = "<"
  <2>1. Parse(BP_CMP.r, <<[k |-> "GetlineFile", p |-> ctl.p]>> \o frames, 1, typed)
    BY <1>2 DEF GetlineFile
  <2>2. Passes(1)
    BY <1>2, PassesOne DEF Here, Plain, Eof
  <2> QED BY <1>1, <2>1, <2>2, UnderExpr, AskExpr DEF ExprKinds, ExprRuns
<1>3. CASE T # "<"
  <2>1. Go(Give(GetlineOf("input", ctl.p, <<>>)), frames, 0, typed)
    BY <1>3 DEF GetlineFile
  <2> QED BY <1>1, <2>1, PassesNone, UnderExpr, GoExpr DEF ExprRuns, Give
<1> QED BY <1>2, <1>3

LEMMA AtomOrCallMoves == ASSUME Here, AtomOrCall PROVE Moves
<1>1. ctl.go = "lhs" /\ T \notin {Eof, "Error"}
  BY DEF AtomOrCall, At
<1> DEFINE f == [k |-> "Call", how |-> T, name |-> NameOf(tokens[pos]), typed |-> typed]
<1>2. \/ T \in {"Identifier", "IndirectCall"} /\ TokenAt(pos + 1) = "(" /\ Go(Enter("args"), <<f>> \o frames, 2, typed)
      \/ T \in PlaceTokens /\ Go(Give(VariableOf(tokens[pos])), frames, 1, typed)
      \/ T \in {"Number", "String", "Regex", "TypedRegex"} /\ Go(Give(Atom(T, tokens[pos].s)), frames, 1, typed)
      \/ Fail_
  BY DEF AtomOrCall, CallAt
<1>3. f.k = "Call" /\ FrameOK(f) /\ Answer(f.k) = "expr" /\ f.k \in Waits("list") /\ Sort(Enter("args").go) = "list"
  BY DEF FrameOK, Answer, Waits, Enter, Sort, Here
<1> HIDE DEF f
<1>4. CASE T \in {"Identifier", "IndirectCall"} /\ TokenAt(pos + 1) = "(" /\ Go(Enter("args"), <<f>> \o frames, 2, typed)
  <2>1. Passes(2)
    BY <1>4, PassesTwo DEF Here, Plain, Eof
  <2>2. CallStack(frames) /\ Takes(frames, "expr") /\ typed \in BOOLEAN /\ Enter("args").go # "prefix"
    BY <1>1, UnderExpr DEF ExprRuns, Enter
  <2> QED BY <1>3, <1>4, <2>1, <2>2, PushMoves
<1>5. CASE T \in PlaceTokens /\ Go(Give(VariableOf(tokens[pos])), frames, 1, typed)
  <2>1. Passes(1)
    BY <1>5, PassesOne, PlainTokens DEF Here
  <2> QED BY <1>1, <1>5, <2>1, UnderExpr, GoExpr DEF ExprRuns, Give
<1>6. CASE T \in {"Number", "String", "Regex", "TypedRegex"} /\ Go(Give(Atom(T, tokens[pos].s)), frames, 1, typed)
  <2>1. Passes(1)
    BY <1>6, PassesOne DEF Here, Plain, Eof
  <2> QED BY <1>1, <1>6, <2>1, UnderExpr, GoExpr DEF ExprRuns, Give
<1> QED BY <1>2, <1>4, <1>5, <1>6, FailMoves

LEMMA ParseArgsMoves == ASSUME Here, ParseArgs PROVE Moves
<1>1. ctl.go = "args" /\ Sort("args") = "list" /\ Sort(GiveList(<<>>).go) = "list" /\ GiveList(<<>>).go # "prefix"
  BY DEF ParseArgs, At, Sort, GiveList
<1>2. CallStack(frames) /\ Takes(frames, "list") /\ typed \in BOOLEAN
  BY <1>1, Under DEF Here
<1>3. CASE T = ")"
  <2>1. Go(GiveList(<<>>), frames, 0, typed)
    BY <1>3 DEF ParseArgs
  <2> QED BY <1>1, <1>2, <2>1, PassesNone, GoMoves
<1>4. CASE T # ")"
  <2>1. Parse(0, <<Items(<<>>, TRUE)>> \o frames, 0, TRUE)
    BY <1>4 DEF ParseArgs
  <2> DEFINE f == Items(<<>>, TRUE)
  <2>2. FrameOK(f) /\ Answer(f.k) = "list" /\ f.k \in Waits("expr")
    BY DEF Items, FrameOK, Answer, Waits
  <2> HIDE DEF f
  <2>3. Parse(0, <<f>> \o frames, 0, TRUE)
    BY <2>1 DEF f
  <2> QED BY <1>2, <2>2, <2>3, PassesNone, AskMoves
<1> QED BY <1>3, <1>4

LEMMA ParsePlaceMoves == ASSUME Here, ParsePlace PROVE Moves
<1>1. ctl.go = "place"
  BY DEF ParsePlace, At
<1> DEFINE v == VariableOf(tokens[pos])
           f == Indexing(v, TRUE)
<1>2. \/ T = "$" /\ Parse(BP_RECORD, <<[k |-> "Unary", op |-> "$"]>> \o frames, 1, typed)
      \/ T \in PlaceTokens /\ TokenAt(pos + 1) = "[" /\ Parse(0, <<Items(<<>>, FALSE), f>> \o frames, 2, typed)
      \/ T \in PlaceTokens /\ Go(Give(v), frames, 1, typed)
      \/ Fail_
  BY DEF ParsePlace
<1>3. FrameOK(f) /\ Answer(f.k) = "expr" /\ f.k \in Waits("list")
  BY DEF Indexing, FrameOK, Answer, Waits
<1> HIDE DEF f
<1>4. CASE T = "$" /\ Parse(BP_RECORD, <<[k |-> "Unary", op |-> "$"]>> \o frames, 1, typed)
  <2>1. Passes(1)
    BY <1>4, PassesOne DEF Here, Plain, Eof
  <2> QED BY <1>1, <1>4, <2>1, UnderExpr, AskExpr DEF ExprKinds, ExprRuns
<1>5. CASE T \in PlaceTokens /\ TokenAt(pos + 1) = "[" /\ Parse(0, <<Items(<<>>, FALSE), f>> \o frames, 2, typed)
  <2>1. Passes(2)
    BY <1>5, PassesTwo, PlainTokens DEF Here, Plain, Eof
  <2>2. CallStack(frames) /\ Takes(frames, "expr") /\ typed \in BOOLEAN
    BY <1>1, UnderExpr DEF ExprRuns
  <2> QED BY <1>3, <1>5, <2>1, <2>2, ItemsMoves
<1>6. CASE T \in PlaceTokens /\ Go(Give(v), frames, 1, typed)
  <2>1. Passes(1)
    BY <1>6, PassesOne, PlainTokens DEF Here
  <2> QED BY <1>1, <1>6, <2>1, UnderExpr, GoExpr DEF ExprRuns, Give
<1> QED BY <1>2, <1>4, <1>5, <1>6, FailMoves

LEMMA LhsMoves == ASSUME Here, ParseLhs PROVE Moves
<1>1. LhsMissing => Fail_
  BY DEF LhsMissing
<1> QED BY <1>1, ParenthesisMoves, PrefixOperatorMoves, ParsePrefixMoves, GetlinePrefixMoves, GetlineFileMoves,
           AtomOrCallMoves, FailMoves, ParseArgsMoves, ParsePlaceMoves
        DEF ParseLhs

-----------------------------------------------------------------------------
(* The rest of each function of an expression. *)
LEMMA FoldOnMoves == ASSUME Here, FoldOn PROVE Moves
<1>1. ctl.go = "give" /\ Top.k = "Fold" /\ Go(Fold(Top.bp, Top.stop, ctl.e), Tail(frames), 0, typed)
  BY DEF FoldOn, Given, At
<1>2. Answer(Top.k) = "expr"
  BY <1>1 DEF Answer
<1> QED BY <1>1, <1>2, PassesNone, UnderExpr, GoExpr DEF ExprRuns, Fold

(* These give what they make of the expression to their caller. *)
LEMMA ReturningMoves ==
    ASSUME Here,
           \/ UnaryDone \/ IncrDone \/ InDone \/ GetlinePlaceDone \/ GetlineFileDone \/ ConcatDone \/ InfixDone
           \/ AssignDone \/ ElseDone \/ PipeDone
    PROVE  Moves
<1>1. ctl.go = "give" /\ Answer(Top.k) = "expr"
  BY DEF UnaryDone, IncrDone, InDone, GetlinePlaceDone, GetlineFileDone, ConcatDone, InfixDone, AssignDone,
         ElseDone, PipeDone, Given, At, Answer
<1>2. \/ \E e : Return(e, 0)
      \/ Fail_
      \/ \E p : Go(File(p), Tail(frames), 0, typed)
  BY DEF UnaryDone, IncrDone, InDone, GetlinePlaceDone, GetlineFileDone, ConcatDone, InfixDone, AssignDone,
         ElseDone, PipeDone
<1>3. ASSUME NEW p, Go(File(p), Tail(frames), 0, typed) PROVE Moves
  BY <1>1, <1>3, PassesNone, UnderExpr, GoExpr DEF ExprRuns, File
<1> QED BY <1>1, <1>2, <1>3, PassesNone, FailMoves, ReturnMoves

LEMMA ParenDoneMoves == ASSUME Here, ParenDone PROVE Moves
<1>1. ctl.go = "give" /\ Top.k = "Paren" /\ Answer(Top.k) = "expr"
  BY DEF ParenDone, Given, At, Answer
<1> DEFINE f == [k |-> "InList"]
<1>2. \/ Go(ctl, <<Items(<<>>, FALSE), f>> \o Tail(frames), 0, typed)
      \/ T = ")" /\ Return(ctl.e, 1)
      \/ Fail_
  BY DEF ParenDone
<1>3. CASE Go(ctl, <<Items(<<>>, FALSE), f>> \o Tail(frames), 0, typed)
  <2>1. FrameOK(f) /\ Answer(f.k) = "expr" /\ f.k \in Waits("list")
    BY DEF FrameOK, Answer, Waits
  <2>2. CallStack(Tail(frames)) /\ Takes(Tail(frames), "expr") /\ typed \in BOOLEAN
    BY <1>1, UnderExpr DEF ExprRuns
  <2> HIDE DEF f
  <2> QED BY <1>1, <1>3, <2>1, <2>2, PassesNone, ItemsMoves
<1>4. CASE T = ")" /\ Return(ctl.e, 1)
  <2>1. Passes(1)
    BY <1>4, PassesOne DEF Here, Plain, Eof
  <2> QED BY <1>1, <1>4, <2>1, ReturnMoves
<1> QED BY <1>2, <1>3, <1>4, FailMoves

LEMMA SortList == Sort("list") = "list"
  BY DEF Sort

LEMMA UnderList ==
    ASSUME Here, ctl.go = "list"
    PROVE  /\ frames # <<>> /\ CallStack(frames) /\ Takes(frames, "list") /\ FrameOK(Top)
           /\ Top.k \in Waits("list")
           /\ CallStack(Tail(frames)) /\ Takes(Tail(frames), Answer(Top.k))
           /\ pos \in Nat /\ typed \in BOOLEAN
<1>1. Sort(ctl.go) = "list"
  BY SortList
<1> QED BY <1>1, Under DEF Here

LEMMA InListDoneMoves == ASSUME Here, InListDone PROVE Moves
<1>1. ctl.go = "list" /\ Answer(Top.k) = "expr"
  BY DEF InListDone, GivenList, At, Answer
<1> DEFINE f == [k |-> "In", es |-> ctl.es]
<1>2. \/ T = ")" /\ TokenAt(pos + 1) = "in" /\ Go(Enter("place"), <<f>> \o Tail(frames), 2, typed)
      \/ Fail_
  BY DEF InListDone
<1>3. CASE T = ")" /\ TokenAt(pos + 1) = "in" /\ Go(Enter("place"), <<f>> \o Tail(frames), 2, typed)
  <2>1. Passes(2)
    BY <1>3, PassesTwo DEF Here, Plain, Eof
  <2>2. f.k \in ExprKinds /\ Enter("place").go \in ExprRuns \ {"prefix"}
    BY DEF ExprKinds, ExprRuns, Enter
  <2> HIDE DEF f
  <2> QED BY <1>1, <1>3, <2>1, <2>2, UnderList, PushExpr
<1> QED BY <1>2, <1>3, FailMoves

LEMMA NextItemMoves == ASSUME Here, NextItem PROVE Moves
<1>1. ctl.go = "give" /\ Top.k = "Items" /\ Answer(Top.k) = "list"
  BY DEF NextItem, Given, At, Answer
<1> DEFINE es == Append(Top.es, ctl.e)
           f == Items(es, Top.arg)
           ty == Top.arg \/ typed
<1>2. \/ T = "," /\ Parse(0, <<f>> \o Tail(frames), 1, ty)
      \/ Go(GiveList(es), Tail(frames), 0, typed)
  BY DEF NextItem
<1>3. CallStack(Tail(frames)) /\ Takes(Tail(frames), "list") /\ typed \in BOOLEAN
  BY <1>1, UnderExpr DEF ExprRuns
<1>4. CASE T = "," /\ Parse(0, <<f>> \o Tail(frames), 1, ty)
  <2>1. Passes(1)
    BY <1>4, PassesOne DEF Here, Plain, Eof
  <2>2. FrameOK(f) /\ Answer(f.k) = "list" /\ f.k \in Waits("expr") /\ ty \in BOOLEAN
    BY DEF Items, FrameOK, Answer, Waits
  <2> HIDE DEF f, ty
  <2> QED BY <1>3, <1>4, <2>1, <2>2, AskMoves
<1>5. CASE Go(GiveList(es), Tail(frames), 0, typed)
  <2>1. Sort(GiveList(es).go) = "list" /\ GiveList(es).go # "prefix"
    BY SortList DEF GiveList
  <2> QED BY <1>3, <1>5, <2>1, PassesNone, GoMoves
<1> QED BY <1>2, <1>4, <1>5

LEMMA CallDoneMoves == ASSUME Here, CallDone PROVE Moves
<1>1. ctl.go = "list" /\ Top.k = "Call" /\ Answer(Top.k) = "expr"
  BY DEF CallDone, GivenList, At, Answer
<1>2. Top.typed \in BOOLEAN
  BY <1>1, UnderList DEF FrameOK
<1>3. \/ T = ")" /\ Go(Give(CallOf(Top.how, Top.name, ctl.es)), Tail(frames), 1, Top.typed)
      \/ Fail_
  BY DEF CallDone
<1>4. CASE T = ")" /\ Go(Give(CallOf(Top.how, Top.name, ctl.es)), Tail(frames), 1, Top.typed)
  <2>1. Passes(1)
    BY <1>4, PassesOne DEF Here, Plain, Eof
  <2> QED BY <1>1, <1>2, <1>4, <2>1, UnderList, GoExpr DEF ExprRuns, Give
<1> QED BY <1>3, <1>4, FailMoves

LEMMA IndexDoneMoves == ASSUME Here, IndexDone PROVE Moves
<1>1. ctl.go = "list" /\ Top.k = "Index" /\ Answer(Top.k) = "expr"
  BY DEF IndexDone, GivenList, At, Answer
<1> DEFINE x == IF IsVariable(Top.v) THEN IndexOf(Top.v, ctl.es) ELSE NestedOf(Top.v, ctl.es)
           f == Indexing(x, TRUE)
<1>2. \/ T = "]" /\ TokenAt(pos + 1) = "[" /\ Parse(0, <<Items(<<>>, FALSE), f>> \o Tail(frames), 2, typed)
      \/ T = "]" /\ Return(x, 1)
      \/ Fail_
  BY DEF IndexDone
<1>3. CASE T = "]" /\ TokenAt(pos + 1) = "[" /\ Parse(0, <<Items(<<>>, FALSE), f>> \o Tail(frames), 2, typed)
  <2>1. Passes(2)
    BY <1>3, PassesTwo DEF Here, Plain, Eof
  <2>2. FrameOK(f) /\ Answer(f.k) = "expr" /\ f.k \in Waits("list")
    BY DEF Indexing, FrameOK, Answer, Waits
  <2>3. CallStack(Tail(frames)) /\ Takes(Tail(frames), "expr") /\ typed \in BOOLEAN
    BY <1>1, UnderList
  <2> HIDE DEF f
  <2> QED BY <1>3, <2>1, <2>2, <2>3, ItemsMoves
<1>4. CASE T = "]" /\ Return(x, 1)
  <2>1. Passes(1)
    BY <1>4, PassesOne DEF Here, Plain, Eof
  <2> QED BY <1>1, <1>4, <2>1, ReturnMoves
<1> QED BY <1>2, <1>3, <1>4, FailMoves

LEMMA ThenDoneMoves == ASSUME Here, ThenDone PROVE Moves
<1>1. ctl.go = "give" /\ Top.k = "Then" /\ Answer(Top.k) = "expr"
  BY DEF ThenDone, Given, At, Answer
<1> DEFINE f == [k |-> "Else", c |-> Top.c, t |-> ctl.e]
<1>2. \/ T = ":" /\ Parse(BP_TERNARY.r, <<f>> \o Tail(frames), 1, typed)
      \/ Fail_
  BY DEF ThenDone
<1>3. CASE T = ":" /\ Parse(BP_TERNARY.r, <<f>> \o Tail(frames), 1, typed)
  <2>1. Passes(1) /\ f.k \in ExprKinds
    BY <1>3, PassesOne DEF Here, Plain, Eof, ExprKinds
  <2> HIDE DEF f
  <2> QED BY <1>1, <1>3, <2>1, UnderExpr, AskExpr DEF ExprRuns
<1> QED BY <1>2, <1>3, FailMoves

LEMMA DoneMoves == ASSUME Here, Done PROVE Moves
  BY FoldOnMoves, ReturningMoves, ParenDoneMoves, InListDoneMoves, NextItemMoves, CallDoneMoves, IndexDoneMoves,
     ThenDoneMoves
     DEF Done

-----------------------------------------------------------------------------
(* fold_rhs *)
LEMMA ResumeFrame ==
    ASSUME Here, ctl.go = "fold"
    PROVE  CallStack(Resume) /\ Takes(Resume, "expr")
<1> DEFINE f == Folding(ctl.bp, ctl.stop)
<1>1. f.k = "Fold" /\ f.k \in ExprKinds /\ Resume = <<f>> \o frames
  BY DEF Folding, Resume, ExprKinds
<1> HIDE DEF f
<1> QED BY <1>1, UnderExpr, ExprFrame, PushStack DEF ExprRuns

(* The operand or the operator is given back, or none is found. *)
LEMMA FoldEndMoves == ASSUME Here, FoldStop \/ FoldError \/ FoldBreak PROVE Moves
<1> DEFINE c == Give(L)
<1>1. ctl.go = "fold" /\ (Fail_ \/ Go(c, frames, 0, typed) \/ Go(c, frames, 0, FALSE))
  BY DEF FoldStop, FoldError, FoldBreak, At
<1>2. typed \in BOOLEAN /\ c.go \in ExprRuns \ {"prefix"} /\ CallStack(frames) /\ Takes(frames, "expr")
  BY <1>1, UnderExpr DEF Here, Give, ExprRuns
<1> HIDE DEF c
<1> QED BY <1>1, <1>2, PassesNone, GoExpr, FailMoves

LEMMA FoldSuffixMoves == ASSUME Here, FoldSuffix PROVE Moves
<1>1. ctl.go = "fold" /\ T \in SuffixTokens
  BY DEF FoldSuffix, FoldAt, At
<1>2. CASE IsPlace(L)
  <2>1. Go(Fold(ctl.bp, ctl.stop, IncrOf(T, TRUE, L)), frames, 1, FALSE)
    BY <1>2 DEF FoldSuffix
  <2>2. Passes(1)
    BY <1>1, PassesOne, PlainTokens DEF Here
  <2> QED BY <1>1, <2>1, <2>2, UnderExpr, GoExpr DEF ExprRuns, Fold
<1>3. CASE ~IsPlace(L)
  <2> DEFINE f == [k |-> "Concat", l |-> L]
  <2>1. Go(Enter("prefix"), <<f>> \o Resume, 0, FALSE)
    BY <1>3 DEF FoldSuffix
  <2>2. Passes(0) /\ pos' = pos + 0 /\ pos' = pos
    BY <2>1, PassesNone DEF Here, Go
  <2>3. TokenAt(pos)' = T /\ ctl'.go = "prefix" /\ frames' = <<f>> \o Resume /\ typed' = FALSE /\ UNCHANGED lexvars
    BY <2>1, <2>2 DEF Go, TokenAt, T, lexvars, Enter
  <2>4. f.k \in ExprKinds
    BY DEF ExprKinds
  <2> HIDE DEF f
  <2>5. CallStack(<<f>> \o Resume) /\ Takes(<<f>> \o Resume, "expr")
    BY <1>1, <2>4, ResumeFrame, ExprFrame, PushStack
  <2>6. Running(ctl', frames')
    BY <2>3, <2>5, SortExpr DEF Running, ExprRuns
  <2>7. T \in PrefixTokens
    BY <1>1 DEF SuffixTokens, PrefixTokens
  <2> QED BY <2>2, <2>3, <2>6, <2>7 DEF Moves
<1> QED BY <1>2, <1>3

LEMMA FoldAssignMoves == ASSUME Here, FoldAssign PROVE Moves
<1>1. ctl.go = "fold" /\ T \in AssignTokens
  BY DEF FoldAssign, FoldAt, At
<1> DEFINE f == [k |-> "Assign", op |-> T, p |-> L]
           e == Atom("TypedRegex", tokens[pos + 1].s)
           c == Fold(BP_ASSIGN.l, "question", e)
           ty == T = "="
<1>2. \/ TokenAt(pos + 1) = "TypedRegex" /\ Go(c, <<f>> \o Resume, 2, TRUE)
      \/ Parse(BP_ASSIGN.r, <<f>> \o Resume, 1, ty)
      \/ Fail_
  BY DEF FoldAssign
<1>3. f.k \in ExprKinds /\ c.go \in ExprRuns \ {"prefix"} /\ ty \in BOOLEAN
  BY DEF ExprKinds, ExprRuns, Fold
<1>4. CallStack(Resume) /\ Takes(Resume, "expr")
  BY <1>1, ResumeFrame
<1>5. Passes(1) /\ (TokenAt(pos + 1) = "TypedRegex" => Passes(2))
  BY <1>1, PassesOne, PassesTwo, PlainTokens DEF Here, Plain, Eof
<1> HIDE DEF f, c, ty
<1>6. CASE TokenAt(pos + 1) = "TypedRegex" /\ Go(c, <<f>> \o Resume, 2, TRUE)
  BY <1>3, <1>4, <1>5, <1>6, PushExpr
<1>7. CASE Parse(BP_ASSIGN.r, <<f>> \o Resume, 1, ty)
  BY <1>3, <1>4, <1>5, <1>7, AskExpr
<1> QED BY <1>2, <1>6, <1>7, FailMoves

LEMMA FoldIndexMoves == ASSUME Here, FoldIndex PROVE Moves
<1>1. ctl.go = "fold" /\ T = "["
  BY DEF FoldIndex, FoldAt, At
<1> DEFINE f == Indexing(L, FALSE)
<1>2. Parse(0, <<Items(<<>>, FALSE), f>> \o Resume, 1, FALSE) \/ Fail_
  BY DEF FoldIndex
<1>3. CASE Parse(0, <<Items(<<>>, FALSE), f>> \o Resume, 1, FALSE)
  <2>1. Passes(1)
    BY <1>1, PassesOne DEF Here, Plain, Eof
  <2>2. FrameOK(f) /\ Answer(f.k) = "expr" /\ f.k \in Waits("list")
    BY DEF Indexing, FrameOK, Answer, Waits
  <2> HIDE DEF f
  <2> QED BY <1>1, <1>3, <2>1, <2>2, ResumeFrame, ItemsMoves
<1> QED BY <1>2, <1>3, FailMoves

(* The frames that wait for the operand of an operator. *)
LEMMA OperandMoves ==
    ASSUME Here, FoldIn \/ FoldInfix \/ FoldTernary \/ FoldPipe PROVE Moves
<1>1. ctl.go = "fold"
  BY DEF FoldIn, FoldInfix, FoldTernary, FoldPipe, FoldAt, At
<1>2. CallStack(Resume) /\ Takes(Resume, "expr")
  BY <1>1, ResumeFrame
<1>3. CASE FoldIn
  <2> DEFINE f == [k |-> "In", es |-> <<L>>]
  <2>1. T = "in" /\ Go(Enter("place"), <<f>> \o Resume, 1, FALSE)
    BY <1>3 DEF FoldIn, FoldAt
  <2>2. Passes(1) /\ f.k \in ExprKinds /\ Enter("place").go \in ExprRuns \ {"prefix"}
    BY <2>1, PassesOne DEF Here, Plain, Eof, ExprKinds, ExprRuns, Enter
  <2> HIDE DEF f
  <2> QED BY <1>2, <2>1, <2>2, PushExpr
<1>4. CASE FoldInfix
  <2> DEFINE op == BinaryOperator(T)
             f == [k |-> "Infix", op |-> op, l |-> L]
             n == IF op = Concat THEN 0 ELSE 1
             ty == op \in MatchOps
  <2>1. T \in BinaryTokens /\ (Fail_ \/ Parse(BinaryBp(op).r, <<f>> \o Resume, n, ty))
    BY <1>4 DEF FoldInfix, FoldAt
  <2>2. Passes(n) /\ f.k \in ExprKinds /\ ty \in BOOLEAN
    BY <2>1, PassesNone, PassesOne, PlainTokens DEF Here, ExprKinds
  <2> HIDE DEF f, n, ty
  <2>3. CASE Parse(BinaryBp(op).r, <<f>> \o Resume, n, ty)
    BY <1>2, <2>2, <2>3, AskExpr
  <2> QED BY <2>1, <2>3, FailMoves
<1>5. CASE FoldTernary
  <2> DEFINE f == [k |-> "Then", c |-> L]
  <2>1. T = "?" /\ (Fail_ \/ Parse(BP_TERNARY.r, <<f>> \o Resume, 1, FALSE))
    BY <1>5 DEF FoldTernary, FoldAt
  <2>2. Passes(1) /\ f.k \in ExprKinds
    BY <2>1, PassesOne DEF Here, Plain, Eof, ExprKinds
  <2> HIDE DEF f
  <2>3. CASE Parse(BP_TERNARY.r, <<f>> \o Resume, 1, FALSE)
    BY <1>2, <2>2, <2>3, AskExpr
  <2> QED BY <2>1, <2>3, FailMoves
<1>6. CASE FoldPipe
  <2> DEFINE f == [k |-> "Pipe", op |-> T, l |-> L]
             c == Fold(ctl.bp, ctl.stop, GetlineOf(T, <<>>, <<L>>))
  <2>1. T \in WriteKinds
    BY <1>6 DEF FoldPipe, FoldAt
  <2>2. \/ TokenAt(pos + 1) = "getline" /\ Parse(BP_CONCAT.r - 1, <<f>> \o Resume, 2, FALSE)
        \/ TokenAt(pos + 1) = "getline" /\ Go(c, frames, 2, FALSE)
        \/ Fail_
    BY <1>6 DEF FoldPipe
  <2>3. f.k \in ExprKinds /\ c.go \in ExprRuns \ {"prefix"} /\ CallStack(frames) /\ Takes(frames, "expr")
    BY <1>1, UnderExpr DEF ExprKinds, ExprRuns, Fold
  <2>4. TokenAt(pos + 1) = "getline" => Passes(2)
    BY <2>1, PassesTwo, PlainTokens DEF Here, Plain, Eof
  <2> HIDE DEF f, c
  <2>5. CASE TokenAt(pos + 1) = "getline" /\ Parse(BP_CONCAT.r - 1, <<f>> \o Resume, 2, FALSE)
    BY <1>2, <2>3, <2>4, <2>5, AskExpr
  <2>6. CASE TokenAt(pos + 1) = "getline" /\ Go(c, frames, 2, FALSE)
    BY <2>3, <2>4, <2>6, GoExpr
  <2> QED BY <2>2, <2>5, <2>6, FailMoves
<1> QED BY <1>3, <1>4, <1>5, <1>6

LEMMA FoldRhsMoves == ASSUME Here, FoldRhs PROVE Moves
  BY FoldEndMoves, FoldSuffixMoves, FoldAssignMoves, FoldIndexMoves, OperandMoves DEF FoldRhs

LEMMA PrattMoves == ASSUME Here, PrattNext PROVE Moves
  BY LhsMoves, DoneMoves, FoldRhsMoves DEF PrattNext

-----------------------------------------------------------------------------
(* The frames of statements and rules, and what their functions run. *)
LEMMA SortOthers ==
    /\ \A go \in {"start", "simple"} : Sort(go) = "simple"
    /\ \A go \in {"statement", "done"} : Sort(go) = "stmt"
    /\ \A go \in {"body", "stmtbody", "body!"} : Sort(go) = "body"
    /\ \A go \in {"forloop", "forupdate"} : Sort(go) = "for"
    /\ \A go \in {"redirect", "block", "switch", "param"} : Sort(go) = go
    /\ \A go \in {"top", "parsed"} : Sort(go) = "entry"
  BY DEF Sort

OtherRuns == {"start", "simple", "statement", "done", "body", "stmtbody", "body!", "forloop", "forupdate",
              "redirect", "block", "switch", "param"}

LEMMA UnderOther ==
    ASSUME Here, ctl.go \in OtherRuns
    PROVE  /\ frames # <<>> /\ CallStack(frames) /\ Takes(frames, Sort(ctl.go)) /\ FrameOK(Top)
           /\ Top.k \in Waits(Sort(ctl.go))
           /\ CallStack(Tail(frames)) /\ Takes(Tail(frames), Answer(Top.k))
           /\ pos \in Nat /\ typed \in BOOLEAN
<1>1. Sort(ctl.go) # "entry" /\ ctl.go \notin {"failed", "panicked"}
  BY DEF OtherRuns, Sort
<1> QED BY <1>1, Under DEF Here

(* A function that is entered, or a value that is given, without a new     *)
(* caller, and with one.                                                   *)
LEMMA GoOther ==
    ASSUME NEW c, NEW fs, NEW n, Go(c, fs, n, FALSE), CallStack(fs), Takes(fs, Sort(c.go)), Passes(n),
           c.go \in OtherRuns \cup {"top", "parsed", "args"}
    PROVE  Moves
<1>1. c.go # "prefix"
  BY DEF OtherRuns
<1> QED BY <1>1, GoMoves

LEMMA PushOther ==
    ASSUME NEW c, NEW f, NEW fs, NEW n, Go(c, <<f>> \o fs, n, FALSE), CallStack(fs), Takes(fs, Answer(f.k)),
           FrameOK(f), f.k \in Waits(Sort(c.go)), Passes(n), c.go \in OtherRuns \cup {"args"}
    PROVE  Moves
<1>1. c.go # "prefix"
  BY DEF OtherRuns
<1> QED BY <1>1, PushMoves

LEMMA CallMoves ==
    ASSUME NEW g, NEW f, NEW n, Call(g, f, n), CallStack(frames), Takes(frames, Answer(f.k)),
           FrameOK(f), f.k \in Waits(Sort(g)), Passes(n), g \in OtherRuns \cup {"args"}
    PROVE  Moves
<1>1. Enter(g).go = g
  BY DEF Enter
<1> QED BY <1>1, PushOther DEF Call

LEMMA BecomeMoves ==
    ASSUME NEW g, NEW f, NEW n, Become(g, f, n), CallStack(Tail(frames)), Takes(Tail(frames), Answer(f.k)),
           FrameOK(f), f.k \in Waits(Sort(g)), Passes(n), g \in OtherRuns
    PROVE  Moves
<1>1. Enter(g).go = g
  BY DEF Enter
<1> QED BY <1>1, PushOther DEF Become

LEMMA PlainEnds == \A S : S \subseteq StmtEnd => \A t \in S : Plain(t)
  BY PlainTokens DEF StmtOrBlockEnd

LEMMA CompleteMoves ==
    ASSUME NEW s, NEW fs, NEW n, Complete(s, fs, n), pos \in Nat,
           CallStack(fs), Takes(fs, "stmt"), Passes(n)
    PROVE  Moves
<1>1. Passes(Count(n, StmtEnd))
  BY PassesCount, PlainEnds
<1>2. Done_(s).go = "done"
  BY DEF Done_
<1> QED BY <1>1, <1>2, SortOthers, GoOther DEF Complete, OtherRuns

LEMMA ExpressionMoves ==
    ASSUME NEW f, NEW n, NEW ty, Expression(f, n, ty), CallStack(frames), Takes(frames, Answer(f.k)), FrameOK(f),
           f.k \in Waits("expr"), ty \in BOOLEAN, Passes(n)
    PROVE  Moves
  BY AskMoves DEF Expression

-----------------------------------------------------------------------------
(* parse_simple_statement *)
LEMMA SimpleExpressionMoves == ASSUME Here, SimpleExpression \/ ExpressionDone PROVE Moves
<1>1. CASE SimpleExpression
  <2> DEFINE f == [k |-> "Expr"]
  <2>1. ctl.go = "start" /\ Expression(f, 0, FALSE)
    BY <1>1 DEF SimpleExpression, At
  <2>2. CallStack(frames) /\ Takes(frames, "simple")
    BY <2>1, UnderOther, SortOthers DEF OtherRuns
  <2>3. Answer(f.k) = "simple" /\ FrameOK(f) /\ f.k \in Waits("expr")
    BY DEF Answer, FrameOK, Waits
  <2> HIDE DEF f
  <2> QED BY <2>1, <2>2, <2>3, PassesNone, ExpressionMoves
<1>2. CASE ExpressionDone
  <2> DEFINE c == Simple(ExprStmt(ctl.e))
  <2>1. ctl.go = "give" /\ Top.k = "Expr" /\ Go(c, Tail(frames), 0, FALSE)
    BY <1>2 DEF ExpressionDone, Given, At
  <2>2. Answer(Top.k) = "simple" /\ c.go = "simple" /\ c.go \in OtherRuns
    BY <2>1 DEF Answer, Simple, OtherRuns
  <2> HIDE DEF c
  <2> QED BY <2>1, <2>2, UnderExpr, SortOthers, PassesNone, GoOther DEF ExprRuns
<1> QED BY <1>1, <1>2

LEMMA ArgumentMoves ==
    ASSUME NEW f, NEW fs, NEW n, NEW ty, Argument(f, fs, n, ty), CallStack(fs), Takes(fs, Answer(f.k)), FrameOK(f),
           f.k \in Waits("expr"), ty \in BOOLEAN, Passes(n)
    PROVE  Moves
<1> DEFINE g == Folding(0, "redirection")
           gs == <<f>> \o fs
           c == Lhs(0)
<1>1. Go(c, <<g, f>> \o fs, n, ty) /\ <<g, f>> \o fs = <<g>> \o gs
  BY PushBoth DEF Argument, CallStack
<1>2. CallStack(gs) /\ Takes(gs, "expr")
  BY PushStack
<1>3. g.k \in ExprKinds /\ c.go \in ExprRuns \ {"prefix"}
  BY DEF Folding, ExprKinds, Lhs, ExprRuns
<1> HIDE DEF g, gs, c
<1>4. Go(c, <<g>> \o gs, n, ty)
  BY <1>1
<1> QED BY <1>2, <1>3, <1>4, PushExpr

LEMMA CommandFrame ==
    ASSUME NEW name, NEW es
    PROVE  LET f == Command(name, es)
           IN  /\ f.k = "Command" /\ FrameOK(f) /\ Answer(f.k) = "simple"
               /\ f.k \in Waits("expr") /\ f.k \in Waits("list") /\ f.k \in Waits("redirect")
  BY DEF Command, FrameOK, Answer, Waits

LEMMA ParseCommandMoves == ASSUME Here, ParseCommand PROVE Moves
<1> DEFINE f == Command(T, <<>>)
<1>1. ctl.go = "start" /\ T \in Commands
  BY DEF ParseCommand, At
<1>2. \/ Next_ = "(" /\ Call("args", f, 2)
      \/ Argument(f, frames, 1, FALSE)
      \/ Call("redirect", f, 1)
  BY DEF ParseCommand
<1>3. CallStack(frames) /\ Takes(frames, "simple") /\ pos \in Nat
  BY <1>1, UnderOther, SortOthers DEF OtherRuns
<1>4. Passes(1) /\ (Next_ = "(" => Passes(2))
  BY <1>1, <1>3, PassesOne, PassesTwo, PlainTokens DEF SimpleStart, Next_, Plain, Eof
<1>5. FrameOK(f) /\ Answer(f.k) = "simple" /\ f.k \in Waits("expr") /\ f.k \in Waits("list") /\ f.k \in Waits("redirect")
  BY CommandFrame
<1>6. "redirect" \in OtherRuns /\ Sort("redirect") = "redirect" /\ Sort("args") = "list"
  BY DEF OtherRuns, Sort
<1> HIDE DEF f
<1> QED BY <1>2, <1>3, <1>4, <1>5, <1>6, CallMoves, ArgumentMoves

LEMMA CommandArgMoves == ASSUME Here, CommandArg PROVE Moves
<1> DEFINE c == Command(Top.name, Append(Top.es, ctl.e))
<1>1. ctl.go = "give" /\ Top.k = "Command" /\ Answer(Top.k) = "simple"
  BY DEF CommandArg, Given, At, Answer
<1>2. \/ T = "," /\ Argument(c, Tail(frames), 1, typed)
      \/ Become("redirect", c, 0)
  BY DEF CommandArg
<1>3. CallStack(Tail(frames)) /\ Takes(Tail(frames), "simple") /\ pos \in Nat /\ typed \in BOOLEAN
  BY <1>1, UnderExpr DEF ExprRuns
<1>4. FrameOK(c) /\ Answer(c.k) = "simple" /\ c.k \in Waits("expr") /\ c.k \in Waits("redirect")
  BY CommandFrame
<1>5. "redirect" \in OtherRuns /\ Sort("redirect") = "redirect"
  BY DEF OtherRuns, Sort
<1> HIDE DEF c
<1>6. CASE T = "," /\ Argument(c, Tail(frames), 1, typed)
  <2>1. Passes(1)
    BY <1>3, <1>6, PassesOne DEF Plain, Eof
  <2> QED BY <1>3, <1>4, <1>6, <2>1, ArgumentMoves
<1> QED BY <1>2, <1>3, <1>4, <1>5, <1>6, PassesNone, BecomeMoves

LEMMA CommandArgsMoves == ASSUME Here, CommandArgs PROVE Moves
<1> DEFINE c == Command(Top.name, ctl.es)
<1>1. ctl.go = "list" /\ Top.k = "Command" /\ Answer(Top.k) = "simple"
  BY DEF CommandArgs, GivenList, At, Answer
<1>2. (T = ")" /\ Become("redirect", c, 1)) \/ Fail_
  BY DEF CommandArgs
<1>3. CallStack(Tail(frames)) /\ Takes(Tail(frames), "simple") /\ pos \in Nat
  BY <1>1, UnderList
<1>4. FrameOK(c) /\ Answer(c.k) = "simple" /\ c.k \in Waits("redirect")
  BY CommandFrame
<1>5. "redirect" \in OtherRuns /\ Sort("redirect") = "redirect"
  BY DEF OtherRuns, Sort
<1>6. T = ")" => Passes(1)
  BY <1>3, PassesOne DEF Plain, Eof
<1> HIDE DEF c
<1> QED BY <1>2, <1>3, <1>4, <1>5, <1>6, FailMoves, BecomeMoves

LEMMA RedirectMoves == ASSUME Here, Redirect PROVE Moves
<1>1. ctl.go = "redirect" /\ Top.k \in Waits("redirect") /\ Top.k = "Command" /\ Answer(Top.k) = "simple"
  <2>1. ctl.go = "redirect" /\ Sort(ctl.go) = "redirect" /\ ctl.go \in OtherRuns
    BY DEF Redirect, At, Sort, OtherRuns
  <2>2. Top.k \in Waits("redirect")
    BY <2>1, UnderOther
  <2> QED BY <2>1, <2>2 DEF Waits, Answer
<1>2. /\ CallStack(frames) /\ Takes(frames, "redirect") /\ pos \in Nat
      /\ CallStack(Tail(frames)) /\ Takes(Tail(frames), "simple")
  BY <1>1, UnderOther, SortOthers DEF OtherRuns
<1>3. CASE T \in RedirectionTokens
  <2> DEFINE f == [k |-> "Redirect", op |-> T]
  <2>1. Parse(BP_CONCAT.r - 1, <<f>> \o frames, 1, FALSE)
    BY <1>3 DEF Redirect
  <2>2. FrameOK(f) /\ Answer(f.k) = "redirect" /\ f.k \in Waits("expr")
    BY DEF FrameOK, Answer, Waits
  <2>3. Passes(1)
    BY <1>2, <1>3, PassesOne, PlainTokens
  <2> HIDE DEF f
  <2> QED BY <1>2, <2>1, <2>2, <2>3, AskMoves
<1>4. CASE T \notin RedirectionTokens
  <2> DEFINE c == Simple(CommandOf(Top.name, Top.es, <<>>))
  <2>1. Go(c, Tail(frames), 0, FALSE)
    BY <1>4 DEF Redirect
  <2>2. c.go \in OtherRuns /\ Sort(c.go) = "simple"
    BY SortOthers DEF Simple, OtherRuns
  <2> HIDE DEF c
  <2> QED BY <1>2, <2>1, <2>2, PassesNone, GoOther
<1> QED BY <1>3, <1>4

(* The command is below its redirection. *)
LEMMA RedirectDoneMoves == ASSUME Here, RedirectDone PROVE Moves
<1> DEFINE c == frames[2]
           g == Simple(CommandOf(c.name, c.es, <<Top.op, ctl.e>>))
           fs == Tail(frames)
<1>1. ctl.go = "give" /\ Top.k = "Redirect" /\ Answer(Top.k) = "redirect" /\ Go(g, Tail(fs), 0, FALSE)
  BY DEF RedirectDone, Given, At, Answer
<1>2. CallStack(fs) /\ Takes(fs, "redirect")
  BY <1>1, UnderExpr DEF ExprRuns
<1>3. fs # <<>> /\ fs[1].k = "Command"
  BY <1>2 DEF Takes, Waits
<1>4. CallStack(Tail(fs)) /\ Takes(Tail(fs), "simple")
  <2>1. Answer(fs[1].k) = "simple"
    BY <1>3 DEF Answer
  <2> HIDE DEF fs
  <2> QED BY <1>2, <1>3, <2>1, PopStack
<1>5. g.go \in OtherRuns /\ Sort(g.go) = "simple"
  BY SortOthers DEF Simple, OtherRuns
<1> HIDE DEF g, fs
<1> QED BY <1>1, <1>4, <1>5, PassesNone, GoOther

LEMMA ParseDeleteMoves == ASSUME Here, ParseDelete PROVE Moves
<1> DEFINE v == VariableOf(tokens[pos + 1])
           f == [k |-> "Delete", v |-> v]
           g == Simple(DeleteOf(v, <<>>))
<1>1. ctl.go = "start" /\ T = "delete"
  BY DEF ParseDelete, At
<1>2. \/ /\ Next_ \in PlaceTokens /\ TokenAt(pos + 2) = "["
         /\ Parse(0, <<Items(<<>>, FALSE), f>> \o frames, 3, FALSE)
      \/ Next_ \in PlaceTokens /\ Go(g, frames, 2, FALSE)
      \/ Fail_
  BY DEF ParseDelete
<1>3. CallStack(frames) /\ Takes(frames, "simple") /\ pos \in Nat
  BY <1>1, UnderOther, SortOthers DEF OtherRuns
<1>4. Next_ \in PlaceTokens => Passes(2)
  BY <1>1, <1>3, PassesTwo, PlainTokens DEF Next_, Plain, Eof
<1>5. Next_ \in PlaceTokens /\ TokenAt(pos + 2) = "[" => Passes(3)
  <2>1. SUFFICES ASSUME Passes(2), TokenAt(pos + 2) = "[" PROVE Passes(3)
    BY <1>4
  <2>2. Passes(2 + 1)
    BY <1>3, <2>1, PassesMore DEF Plain, Eof
  <2> QED BY <2>2
<1>6. FrameOK(f) /\ Answer(f.k) = "simple" /\ f.k \in Waits("list") /\ g.go \in OtherRuns /\ Sort(g.go) = "simple"
  BY SortOthers DEF FrameOK, Answer, Waits, Simple, OtherRuns
<1> HIDE DEF f, g
<1>7. CASE Next_ \in PlaceTokens /\ TokenAt(pos + 2) = "[" /\ Parse(0, <<Items(<<>>, FALSE), f>> \o frames, 3, FALSE)
  BY <1>3, <1>5, <1>6, <1>7, ItemsMoves
<1>8. CASE Next_ \in PlaceTokens /\ Go(g, frames, 2, FALSE)
  BY <1>3, <1>4, <1>6, <1>8, GoOther
<1> QED BY <1>2, <1>7, <1>8, FailMoves

LEMMA DeleteDoneMoves == ASSUME Here, DeleteDone PROVE Moves
<1> DEFINE g == Simple(DeleteOf(Top.v, <<ctl.es>>))
<1>1. ctl.go = "list" /\ Top.k = "Delete" /\ Answer(Top.k) = "simple"
  BY DEF DeleteDone, GivenList, At, Answer
<1>2. (T = "]" /\ Go(g, Tail(frames), 1, FALSE)) \/ Fail_
  BY DEF DeleteDone
<1>3. T = "]" => Passes(1)
  BY PassesOne DEF Here, Plain, Eof
<1>4. g.go \in OtherRuns /\ Sort(g.go) = "simple"
  BY SortOthers DEF Simple, OtherRuns
<1> HIDE DEF g
<1> QED BY <1>1, <1>2, <1>3, <1>4, UnderList, GoOther, FailMoves

LEMMA SimpleStatementMoves == ASSUME Here, SimpleStatement PROVE Moves
  BY SimpleExpressionMoves, ParseCommandMoves, CommandArgMoves, CommandArgsMoves, RedirectMoves, RedirectDoneMoves,
     ParseDeleteMoves, DeleteDoneMoves
     DEF SimpleStatement

-----------------------------------------------------------------------------
(* parse_body *)
LEMMA StatementFrames ==
    /\ \A f : f.k \in {"Simple", "ForInit", "for", "foreach", "loop", "if", "else", "while", "do", "Leave",
                       "switch"} => FrameOK(f)
    /\ \A f : f.k \in {"Simple", "ForInit", "for", "foreach", "loop", "if", "else", "while", "do", "Condition",
                       "Leave", "switch"} => Answer(f.k) = "stmt"
    /\ \A f : f.k \in {"Block", "Single"} => FrameOK(f) /\ Answer(f.k) = "body" /\ f.k \in Waits("stmt")
    /\ \A f : f.k \in {"if", "else", "while", "do", "loop", "foreach"} => f.k \in Waits("body")
    /\ \A f : f.k \in {"Condition", "Leave", "for"} => f.k \in Waits("expr")
    /\ \A f : f.k \in {"Simple", "ForInit", "for"} => f.k \in Waits("simple")
  BY DEF FrameOK, Answer, Waits

LEMMA ConditionFrame ==
    ASSUME NEW f, f.k = "Condition", f.of \in {"if", "while", "switch", "do"}
    PROVE  FrameOK(f) /\ Answer(f.k) = "stmt" /\ f.k \in Waits("expr")
  BY DEF FrameOK, Answer, Waits

LEMMA WaitsOwn ==
    /\ \A k : k \in Waits("block") <=> k = "Block"
    /\ \A k : k \in Waits("switch") <=> k = "switch"
    /\ \A k : k \in Waits("for") <=> k = "for"
    /\ \A k : k \in Waits("param") <=> k = "Function"
  BY DEF Waits

LEMMA BlockTop ==
    ASSUME Here, ctl.go = "block" \/ GivenDone("Block")
    PROVE  /\ Top.k = "Block" /\ CallStack(Tail(frames)) /\ Takes(Tail(frames), "body")
           /\ CallStack(frames) /\ pos \in Nat /\ ctl.go \in OtherRuns
<1>1. ctl.go \in {"block", "done"} /\ ctl.go \in OtherRuns
  BY DEF GivenDone, At, OtherRuns
<1>2. Top.k = "Block"
  BY <1>1, UnderOther, SortOthers, WaitsOwn DEF GivenDone
<1>3. Answer(Top.k) = "body"
  BY <1>2, StatementFrames
<1> QED BY <1>1, <1>2, <1>3, UnderOther

LEMMA BlockBecomes ==
    ASSUME Here, ctl.go = "block" \/ GivenDone("Block"), NEW depth, NEW b, NEW n,
           Become("block", Block(depth, b), n), Passes(n)
    PROVE  Moves
<1> DEFINE f == Block(depth, b)
<1>1. f.k = "Block" /\ FrameOK(f) /\ Answer(f.k) = "body" /\ f.k \in Waits(Sort("block"))
  BY StatementFrames, SortOthers, WaitsOwn DEF Block
<1> HIDE DEF f
<1>2. Become("block", f, n)
  BY DEF f
<1> QED BY <1>1, <1>2, BlockTop, BecomeMoves DEF OtherRuns

LEMMA ParseBodyMoves == ASSUME Here, ParseBody PROVE Moves
<1> DEFINE f == Block(0, <<>>)
<1>1. ctl.go = "body" /\ ((T = "{" /\ Call("block", f, 1)) \/ Fail_)
  BY DEF ParseBody, At
<1>2. f.k = "Block" /\ FrameOK(f) /\ Answer(f.k) = "body" /\ f.k \in Waits(Sort("block"))
  BY StatementFrames, SortOthers, WaitsOwn DEF Block
<1>3. CallStack(frames) /\ Takes(frames, "body") /\ pos \in Nat /\ "block" \in OtherRuns
  BY <1>1, UnderOther, SortOthers DEF OtherRuns
<1>4. T = "{" => Passes(1)
  BY <1>3, PassesOne DEF Plain, Eof
<1> HIDE DEF f
<1> QED BY <1>1, <1>2, <1>3, <1>4, CallMoves, FailMoves

LEMMA BlockMoves ==
    ASSUME Here, BlockSeparator \/ BlockOpen \/ BlockClose \/ BlockUnclosed \/ BlockStatement \/ BlockAppend
    PROVE  Moves
<1>1. CASE BlockSeparator
  <2>1. ctl.go = "block" /\ T \in StmtEnd /\ Go(ctl, frames, 1, FALSE)
    BY <1>1 DEF BlockSeparator, InBlock, At
  <2>2. Passes(1)
    BY <2>1, PassesOne, PlainTokens DEF Here, StmtOrBlockEnd
  <2>3. CallStack(frames) /\ Takes(frames, Sort(ctl.go)) /\ ctl.go \in OtherRuns
    BY <2>1, UnderOther DEF OtherRuns
  <2> QED BY <2>1, <2>2, <2>3, GoOther
<1>2. CASE BlockOpen
  <2>1. ctl.go = "block" /\ T = "{" /\ Become("block", Block(Top.depth + 1, Top.b), 1)
    BY <1>2 DEF BlockOpen, InBlock, At
  <2>2. Passes(1)
    BY <2>1, PassesOne DEF Here, Plain, Eof
  <2> QED BY <2>1, <2>2, BlockBecomes
<1>3. CASE BlockClose
  <2>1. ctl.go = "block" /\ T = "}"
    BY <1>3 DEF BlockClose, InBlock, At
  <2>2. Passes(1)
    BY <2>1, PassesOne DEF Here, Plain, Eof
  <2>3. CASE Top.depth = 0
    <3> DEFINE c == GiveBody(Top.b)
    <3>1. Go(c, Tail(frames), 1, FALSE)
      BY <1>3, <2>3 DEF BlockClose
    <3>2. c.go \in OtherRuns /\ Sort(c.go) = "body"
      BY SortOthers DEF GiveBody, OtherRuns
    <3> HIDE DEF c
    <3> QED BY <2>1, <2>2, <3>1, <3>2, BlockTop, GoOther
  <2>4. CASE Top.depth # 0
    <3>1. Become("block", Block(Top.depth - 1, Top.b), 1)
      BY <1>3, <2>4 DEF BlockClose
    <3> QED BY <2>1, <2>2, <3>1, BlockBecomes
  <2> QED BY <2>3, <2>4
<1>4. CASE BlockUnclosed
  BY <1>4, FailMoves DEF BlockUnclosed
<1>5. CASE BlockStatement
  <2> DEFINE c == Enter("statement")
  <2>1. ctl.go = "block" /\ Go(c, frames, 0, FALSE)
    BY <1>5 DEF BlockStatement, At
  <2>2. frames # <<>> /\ Top.k = "Block"
    BY <2>1, BlockTop, UnderOther
  <2>3. Takes(frames, "stmt") /\ c.go \in OtherRuns /\ Sort(c.go) = "stmt"
    BY <2>2, StatementFrames, SortOthers DEF Takes, Top, Enter, OtherRuns
  <2> HIDE DEF c
  <2> QED BY <2>1, <2>3, BlockTop, PassesNone, GoOther
<1>6. CASE BlockAppend
  BY <1>6, PassesNone, BlockBecomes DEF BlockAppend
<1> QED BY <1>1, <1>2, <1>3, <1>4, <1>5, <1>6

LEMMA StatementBodyMoves == ASSUME Here, StatementBody \/ SingleDone PROVE Moves
<1>1. CASE StatementBody
  <2> DEFINE f == [k |-> "Single"]
             c == Enter("body")
  <2>1. ctl.go = "stmtbody" /\ (Go(c, frames, 0, FALSE) \/ Call("statement", f, 0))
    BY <1>1 DEF StatementBody, At
  <2>2. CallStack(frames) /\ Takes(frames, "body")
    BY <2>1, UnderOther, SortOthers DEF OtherRuns
  <2>3. /\ FrameOK(f) /\ Answer(f.k) = "body" /\ f.k \in Waits(Sort("statement")) /\ "statement" \in OtherRuns
        /\ c.go \in OtherRuns /\ Sort(c.go) = "body"
    BY StatementFrames, SortOthers DEF OtherRuns, Enter
  <2> HIDE DEF f, c
  <2> QED BY <2>1, <2>2, <2>3, PassesNone, GoOther, CallMoves
<1>2. CASE SingleDone
  <2> DEFINE c == GiveBody(<<ctl.s>>)
  <2>1. ctl.go = "done" /\ Top.k = "Single" /\ Go(c, Tail(frames), 0, FALSE)
    BY <1>2 DEF SingleDone, GivenDone, At
  <2>2. Answer(Top.k) = "body" /\ c.go \in OtherRuns /\ Sort(c.go) = "body"
    BY <2>1, StatementFrames, SortOthers DEF GiveBody, OtherRuns
  <2>3. CallStack(Tail(frames)) /\ Takes(Tail(frames), "body")
    BY <2>1, <2>2, UnderOther DEF OtherRuns
  <2> HIDE DEF c
  <2> QED BY <2>1, <2>2, <2>3, PassesNone, GoOther
<1> QED BY <1>1, <1>2

LEMMA BodyMoves == ASSUME Here, Body PROVE Moves
  BY ParseBodyMoves, BlockMoves, StatementBodyMoves DEF Body

-----------------------------------------------------------------------------
(* parse_statement *)
LEMMA StatementTop ==
    ASSUME Here, ctl.go = "statement" PROVE CallStack(frames) /\ Takes(frames, "stmt") /\ pos \in Nat
  BY UnderOther, SortOthers DEF OtherRuns

(* What stands under a frame of a statement that is given what it wants.   *)
LEMMA StatementUnder ==
    ASSUME Here, ctl.go \in OtherRuns \cup {"give"}, Answer(Top.k) = "stmt"
    PROVE  CallStack(Tail(frames)) /\ Takes(Tail(frames), "stmt") /\ pos \in Nat
  BY UnderOther, UnderExpr DEF ExprRuns

LEMMA StartSimpleMoves == ASSUME Here, StartSimple \/ SimpleDone PROVE Moves
<1>1. CASE StartSimple
  <2> DEFINE f == [k |-> "Simple"]
  <2>1. ctl.go = "statement" /\ Call("start", f, 0)
    BY <1>1 DEF StartSimple, Statement, At
  <2>2. FrameOK(f) /\ Answer(f.k) = "stmt" /\ f.k \in Waits(Sort("start")) /\ "start" \in OtherRuns
    BY StatementFrames, SortOthers DEF OtherRuns
  <2> HIDE DEF f
  <2> QED BY <2>1, <2>2, StatementTop, PassesNone, CallMoves
<1>2. CASE SimpleDone
  <2>1. ctl.go = "simple" /\ Answer(Top.k) = "stmt" /\ Complete(ctl.s, Tail(frames), 0)
    BY <1>2 DEF SimpleDone, GivenSimple, At, Answer
  <2>2. CallStack(Tail(frames)) /\ Takes(Tail(frames), "stmt") /\ pos \in Nat
    BY <2>1, StatementUnder DEF OtherRuns
  <2> QED BY <2>1, <2>2, PassesNone, CompleteMoves
<1> QED BY <1>1, <1>2

LEMMA StartConditionalMoves == ASSUME Here, StartConditional PROVE Moves
<1> DEFINE f == [k |-> "Condition", of |-> T, b |-> <<>>]
<1>1. ctl.go = "statement" /\ T \in {"if", "while", "switch"}
  BY DEF StartConditional, Statement, At
<1>2. (TokenAt(pos + 1) = "(" /\ Expression(f, 2, FALSE)) \/ Fail_
  <2>1. Condition(T, <<>>, 1)
    BY DEF StartConditional
  <2>2. (TokenAt(pos + 1) = "(" /\ Expression(f, 1 + 1, FALSE)) \/ Fail_
    BY <2>1, Zenon DEF Condition
  <2>3. 1 + 1 = 2
    OBVIOUS
  <2> QED BY <2>2, <2>3, Zenon
<1>3. TokenAt(pos + 1) = "(" => Passes(2)
  BY <1>1, PassesTwo DEF Here, Plain, Eof
<1>4. FrameOK(f) /\ Answer(f.k) = "stmt" /\ f.k \in Waits("expr")
  <2>1. f.k = "Condition" /\ f.of \in {"if", "while", "switch", "do"}
    BY <1>1
  <2> QED BY <2>1, ConditionFrame
<1> HIDE DEF f
<1> QED BY <1>1, <1>2, <1>3, <1>4, StatementTop, ExpressionMoves, FailMoves

LEMMA ConditionDoneMoves == ASSUME Here, ConditionDone PROVE Moves
<1>1. ctl.go = "give" /\ Top.k = "Condition" /\ Answer(Top.k) = "stmt"
  BY DEF ConditionDone, Given, At, Answer
<1>2. CallStack(Tail(frames)) /\ Takes(Tail(frames), "stmt") /\ pos \in Nat
  BY <1>1, StatementUnder
<1> DEFINE s == DoOf(Top.b, ctl.e)
           f == [k |-> Top.of, c |-> ctl.e]
           g == [k |-> "switch", e |-> ctl.e, branches |-> <<>>, default |-> <<>>, case |-> <<>>, b |-> <<>>]
<1>3. CASE T = ")" /\ Top.of = "do"
  <2>1. Complete(s, Tail(frames), 1)
    BY <1>3 DEF ConditionDone
  <2>2. Passes(1)
    BY <1>2, <1>3, PassesOne DEF Plain, Eof
  <2> QED BY <1>2, <2>1, <2>2, CompleteMoves
<1>4. CASE T = ")" /\ Top.of \in {"if", "while"}
  <2>1. Become("stmtbody", f, 1)
    BY <1>4 DEF ConditionDone
  <2>2. Passes(1)
    BY <1>2, <1>4, PassesOne DEF Plain, Eof
  <2>3. FrameOK(f) /\ Answer(f.k) = "stmt" /\ f.k \in Waits(Sort("stmtbody")) /\ "stmtbody" \in OtherRuns
    BY <1>4, StatementFrames, SortOthers DEF OtherRuns
  <2> HIDE DEF f
  <2> QED BY <1>2, <2>1, <2>2, <2>3, BecomeMoves
<1>5. CASE T = ")" /\ Top.of = "switch"
  <2>1. (Next_ = "{" /\ Become("switch", g, 2)) \/ Fail_
    BY <1>5 DEF ConditionDone
  <2>2. Next_ = "{" => Passes(2)
    BY <1>2, <1>5, PassesTwo DEF Next_, Plain, Eof
  <2>3. FrameOK(g) /\ Answer(g.k) = "stmt" /\ g.k \in Waits(Sort("switch")) /\ "switch" \in OtherRuns
    BY StatementFrames, SortOthers, WaitsOwn DEF OtherRuns
  <2> HIDE DEF g
  <2> QED BY <1>2, <2>1, <2>2, <2>3, BecomeMoves, FailMoves
<1>6. CASE T # ")"
  BY <1>6, FailMoves DEF ConditionDone
<1>7. Top.of \in {"if", "while", "switch", "do"}
  BY <1>1, UnderExpr DEF ExprRuns, FrameOK
<1> QED BY <1>3, <1>4, <1>5, <1>6, <1>7

LEMMA ThenBodyMoves == ASSUME Here, ThenBody PROVE Moves
<1> DEFINE f == [k |-> "else", c |-> Top.c, b |-> ctl.b]
<1>1. ctl.go = "body!" /\ Top.k = "if" /\ Answer(Top.k) = "stmt"
  BY DEF ThenBody, GivenBody, At, Answer
<1>2. CallStack(Tail(frames)) /\ Takes(Tail(frames), "stmt") /\ pos \in Nat
  BY <1>1, StatementUnder DEF OtherRuns
<1>3. \/ T = "else" /\ Become("stmtbody", f, 1)
      \/ Complete(IfOf(Top.c, ctl.b, <<>>), Tail(frames), 0)
  BY DEF ThenBody
<1>4. FrameOK(f) /\ Answer(f.k) = "stmt" /\ f.k \in Waits(Sort("stmtbody")) /\ "stmtbody" \in OtherRuns
  BY StatementFrames, SortOthers DEF OtherRuns
<1>5. T = "else" => Passes(1)
  BY <1>2, PassesOne DEF Plain, Eof
<1> HIDE DEF f
<1> QED BY <1>2, <1>3, <1>4, <1>5, PassesNone, BecomeMoves, CompleteMoves

(* These complete their statement. *)
LEMMA CompletingMoves ==
    ASSUME Here, ElseBody \/ WhileBody \/ LeaveDone \/ ForBody \/ ForEachBody
    PROVE  Moves
<1>1. ctl.go \in OtherRuns \cup {"give"} /\ Answer(Top.k) = "stmt"
  BY DEF ElseBody, WhileBody, LeaveDone, ForBody, ForEachBody, GivenBody, Given, At, Answer, OtherRuns
<1>2. \E s : Complete(s, Tail(frames), 0)
  BY DEF ElseBody, WhileBody, LeaveDone, ForBody, ForEachBody
<1> QED BY <1>1, <1>2, StatementUnder, PassesNone, CompleteMoves

LEMMA DoMoves == ASSUME Here, StartDo \/ DoBody PROVE Moves
<1>1. CASE StartDo
  <2> DEFINE f == [k |-> "do"]
  <2>1. ctl.go = "statement" /\ T = "do" /\ Call("body", f, 1)
    BY <1>1 DEF StartDo, Statement, At
  <2>2. Passes(1)
    BY <2>1, PassesOne DEF Here, Plain, Eof
  <2>3. FrameOK(f) /\ Answer(f.k) = "stmt" /\ f.k \in Waits(Sort("body")) /\ "body" \in OtherRuns
    BY StatementFrames, SortOthers DEF OtherRuns
  <2> HIDE DEF f
  <2> QED BY <2>1, <2>2, <2>3, StatementTop, CallMoves
<1>2. CASE DoBody
  <2> DEFINE f == [k |-> "Condition", of |-> "do", b |-> ctl.b]
  <2>1. ctl.go = "body!" /\ Top.k = "do" /\ Answer(Top.k) = "stmt"
    BY <1>2 DEF DoBody, GivenBody, At, Answer
  <2>2. (T = "while" /\ Next_ = "(" /\ Parse(0, <<f>> \o Tail(frames), 2, FALSE)) \/ Fail_
    BY <1>2 DEF DoBody
  <2>3. FrameOK(f) /\ Answer(f.k) = "stmt" /\ f.k \in Waits("expr")
    <3>1. f.k = "Condition" /\ f.of \in {"if", "while", "switch", "do"}
      OBVIOUS
    <3> QED BY <3>1, ConditionFrame
  <2>4. CallStack(Tail(frames)) /\ Takes(Tail(frames), "stmt") /\ pos \in Nat
    BY <2>1, StatementUnder DEF OtherRuns
  <2> HIDE DEF f
  <2>5. CASE T = "while" /\ Next_ = "(" /\ Parse(0, <<f>> \o Tail(frames), 2, FALSE)
    <3>1. Passes(2)
      BY <2>4, <2>5, PassesTwo DEF Next_, Plain, Eof
    <3> QED BY <2>3, <2>4, <2>5, <3>1, AskMoves
  <2> QED BY <2>2, <2>5, FailMoves
<1> QED BY <1>1, <1>2

LEMMA LeaveMoves == ASSUME Here, Leave PROVE Moves
<1> DEFINE f == [k |-> "Leave", t |-> T]
           ty == T = "return"
<1>1. ctl.go = "statement" /\ T \in {"break", "continue", "next", "nextfile", "return", "exit"}
  BY DEF Leave, Statement, At
<1>2. Complete(LeaveOf(T, <<>>), frames, 1) \/ Expression(f, 1, ty)
  BY DEF Leave
<1>3. Passes(1)
  BY <1>1, PassesOne DEF Here, Plain, Eof
<1>4. FrameOK(f) /\ Answer(f.k) = "stmt" /\ f.k \in Waits("expr") /\ ty \in BOOLEAN
  BY StatementFrames
<1> HIDE DEF f, ty
<1> QED BY <1>1, <1>2, <1>3, <1>4, StatementTop, CompleteMoves, ExpressionMoves

LEMMA ParseStatementMoves == ASSUME Here, ParseStatement PROVE Moves
<1>1. StatementMissing => Fail_
  BY DEF StatementMissing
<1> QED BY <1>1, StartSimpleMoves, StartConditionalMoves, ConditionDoneMoves, ThenBodyMoves, CompletingMoves,
           DoMoves, LeaveMoves, FailMoves
        DEF ParseStatement

-----------------------------------------------------------------------------
(* for *)
LEMMA ForFrame ==
    /\ \A init, c : FrameOK(For(init, c)) /\ Answer(For(init, c).k) = "stmt" /\ For(init, c).k = "for"
    /\ \A init, c, u : /\ FrameOK(Looping(init, c, u)) /\ Answer(Looping(init, c, u).k) = "stmt"
                       /\ Looping(init, c, u).k \in Waits(Sort("stmtbody"))
    /\ "for" \in Waits(Sort("forloop")) /\ "for" \in Waits(Sort("forupdate"))
    /\ "for" \in Waits("expr") /\ "for" \in Waits("simple")
    /\ {"forloop", "forupdate", "stmtbody", "start"} \subseteq OtherRuns
<1>1. \A init, c : For(init, c).k = "for"
  BY DEF For
<1>2. \A init, c, u : Looping(init, c, u).k = "loop"
  BY DEF Looping
<1>3. /\ \A f : f.k \in {"for", "loop"} => FrameOK(f) /\ Answer(f.k) = "stmt"
      /\ "loop" \in Waits("body") /\ "for" \in Waits("expr") /\ "for" \in Waits("simple") /\ "for" \in Waits("for")
  BY DEF FrameOK, Answer, Waits
<1> QED BY <1>1, <1>2, <1>3, SortOthers DEF OtherRuns

LEMMA StartForMoves == ASSUME Here, StartFor PROVE Moves
<1> DEFINE enclosed == TokenAt(pos + 2) = "("
           n == IF enclosed THEN 3 ELSE 2
           f == For(<<>>, <<>>)
           g == [k |-> "ForInit", enclosed |-> enclosed]
<1>1. ctl.go = "statement" /\ T = "for"
  BY DEF StartFor, Statement, At
<1>2. \/ Next_ = "(" /\ Call("forloop", f, 2)
      \/ Next_ = "(" /\ Call("start", g, n)
      \/ Fail_
  BY DEF StartFor
<1>3. Next_ = "(" => Passes(2)
  BY <1>1, PassesTwo DEF Here, Next_, Plain, Eof
<1>4. Next_ = "(" => Passes(n)
  <2>1. SUFFICES ASSUME Passes(2), enclosed PROVE Passes(3)
    BY <1>3
  <2>2. Passes(2 + 1)
    BY <2>1, PassesMore DEF Here, Plain, Eof
  <2> QED BY <2>2
<1>5. FrameOK(f) /\ Answer(f.k) = "stmt" /\ f.k \in Waits(Sort("forloop"))
  BY ForFrame
<1>6. FrameOK(g) /\ Answer(g.k) = "stmt" /\ g.k \in Waits(Sort("start"))
  BY StatementFrames, SortOthers
<1> HIDE DEF f, g, n
<1> QED BY <1>1, <1>2, <1>3, <1>4, <1>5, <1>6, ForFrame, StatementTop, CallMoves, FailMoves

LEMMA ForInitMoves == ASSUME Here, ForInit PROVE Moves
<1> DEFINE f == For(<<ctl.s>>, <<>>)
           g == [k |-> "foreach", v |-> ctl.s.e.es[1], arr |-> ctl.s.e.v]
<1>1. ctl.go = "simple" /\ Top.k = "ForInit" /\ Answer(Top.k) = "stmt"
  BY DEF ForInit, GivenSimple, At, Answer
<1>2. \/ T = ")" /\ Become("forloop", f, 1)
      \/ T = ")" /\ Become("stmtbody", g, 1)
      \/ Become("forloop", f, 0)
      \/ Fail_
  BY DEF ForInit
<1>3. CallStack(Tail(frames)) /\ Takes(Tail(frames), "stmt") /\ pos \in Nat
  BY <1>1, StatementUnder DEF OtherRuns
<1>4. T = ")" => Passes(1)
  BY <1>3, PassesOne DEF Plain, Eof
<1>5. FrameOK(f) /\ Answer(f.k) = "stmt" /\ f.k \in Waits(Sort("forloop"))
  BY ForFrame
<1>6. FrameOK(g) /\ Answer(g.k) = "stmt" /\ g.k \in Waits(Sort("stmtbody"))
  BY StatementFrames, SortOthers
<1> HIDE DEF f, g
<1> QED BY <1>2, <1>3, <1>4, <1>5, <1>6, ForFrame, PassesNone, BecomeMoves, FailMoves

LEMMA ForTop ==
    ASSUME Here, ctl.go \in {"forloop", "forupdate"} \/ GivenSimple("for")
    PROVE  /\ Top.k = "for" /\ CallStack(Tail(frames)) /\ Takes(Tail(frames), "stmt")
           /\ CallStack(frames) /\ frames # <<>> /\ pos \in Nat
<1>1. ctl.go \in {"forloop", "forupdate", "simple"} /\ ctl.go \in OtherRuns
  BY DEF GivenSimple, At, OtherRuns
<1>2. Top.k = "for"
  BY <1>1, UnderOther, SortOthers, WaitsOwn DEF GivenSimple
<1>3. Answer(Top.k) = "stmt"
  BY <1>2, StatementFrames
<1> QED BY <1>1, <1>2, <1>3, UnderOther

LEMMA ForConditionMoves == ASSUME Here, ForCondition \/ ForConditionDone PROVE Moves
<1>1. CASE ForCondition
  <2> DEFINE n == Count(Count(0, {";"}), {"Newline"})
             c == Enter("forupdate")
  <2>1. ctl.go = "forloop" /\ (Go(c, frames, n, FALSE) \/ Parse(0, frames, n, FALSE))
    BY <1>1 DEF ForCondition, At
  <2>2. Passes(n)
    <3>1. pos \in Nat /\ Plain(";") /\ Plain("Newline")
      BY DEF Here, Plain, Eof
    <3>2. Passes(Count(0, {";"}))
      BY <3>1, PassesNone, PassesCount
    <3> QED BY <3>1, <3>2, PassesCount
  <2>3. c.go \in OtherRuns /\ Sort(c.go) = "for"
    BY SortOthers DEF Enter, OtherRuns
  <2>4. CallStack(frames) /\ Takes(frames, "for") /\ Takes(frames, "expr")
    BY <2>1, ForTop, WaitsOwn, ForFrame DEF Takes, Top
  <2> HIDE DEF n, c
  <2> QED BY <2>1, <2>2, <2>3, <2>4, GoOther, ParseMoves
<1>2. CASE ForConditionDone
  <2> DEFINE f == For(Top.init, <<ctl.e>>)
  <2>1. ctl.go = "give" /\ Top.k = "for" /\ Answer(Top.k) = "stmt" /\ Become("forupdate", f, 0)
    BY <1>2 DEF ForConditionDone, Given, At, Answer
  <2>2. FrameOK(f) /\ Answer(f.k) = "stmt" /\ f.k \in Waits(Sort("forupdate"))
    BY ForFrame
  <2> HIDE DEF f
  <2> QED BY <2>1, <2>2, ForFrame, StatementUnder, PassesNone, BecomeMoves
<1> QED BY <1>1, <1>2

LEMMA ForUpdateMoves == ASSUME Here, ForUpdate PROVE Moves
<1> DEFINE n == Count(1, {"Newline"})
           f == Looping(Top.init, Top.c, <<>>)
           c == Enter("start")
<1>1. ctl.go = "forupdate"
  BY DEF ForUpdate, At
<1>2. \/ T = ";" /\ TokenAt(pos + n) = ")" /\ Become("stmtbody", f, n + 1)
      \/ T = ";" /\ Go(c, frames, n, FALSE)
      \/ Fail_
  BY DEF ForUpdate
<1>3. pos \in Nat /\ Plain(";") /\ Plain("Newline") /\ Plain(")")
  BY DEF Here, Plain, Eof
<1>4. T = ";" => Passes(n)
  BY <1>3, PassesOne, PassesCount
<1>5. FrameOK(f) /\ Answer(f.k) = "stmt" /\ f.k \in Waits(Sort("stmtbody"))
  BY ForFrame
<1>6. c.go \in OtherRuns /\ Sort(c.go) = "simple"
  BY SortOthers DEF Enter, OtherRuns
<1>7. CallStack(frames) /\ Takes(frames, "simple")
  BY <1>1, ForTop, ForFrame DEF Takes, Top
<1> HIDE DEF n, f, c
<1>8. CASE T = ";" /\ TokenAt(pos + n) = ")" /\ Become("stmtbody", f, n + 1)
  <2>1. Passes(n + 1)
    BY <1>3, <1>4, <1>8, PassesMore
  <2> QED BY <1>1, <1>5, <1>8, <2>1, ForTop, ForFrame, BecomeMoves
<1>9. CASE T = ";" /\ Go(c, frames, n, FALSE)
  BY <1>4, <1>6, <1>7, <1>9, GoOther
<1> QED BY <1>2, <1>8, <1>9, FailMoves

LEMMA ForUpdateDoneMoves == ASSUME Here, ForUpdateDone PROVE Moves
<1> DEFINE f == Looping(Top.init, Top.c, <<ctl.s>>)
<1>1. GivenSimple("for") /\ ((T = ")" /\ Become("stmtbody", f, 1)) \/ Fail_)
  BY DEF ForUpdateDone
<1>2. T = ")" => Passes(1)
  BY PassesOne DEF Here, Plain, Eof
<1>3. FrameOK(f) /\ Answer(f.k) = "stmt" /\ f.k \in Waits(Sort("stmtbody"))
  BY ForFrame
<1> HIDE DEF f
<1> QED BY <1>1, <1>2, <1>3, ForTop, ForFrame, BecomeMoves, FailMoves

LEMMA ForStatementMoves == ASSUME Here, ForStatement PROVE Moves
  BY StartForMoves, ForInitMoves, ForConditionMoves, ForUpdateMoves, ForUpdateDoneMoves, CompletingMoves
     DEF ForStatement

-----------------------------------------------------------------------------
(* switch *)
LEMMA SwitchTop ==
    ASSUME Here, ctl.go = "switch" \/ GivenDone("switch")
    PROVE  /\ Top.k = "switch" /\ CallStack(Tail(frames)) /\ Takes(Tail(frames), "stmt")
           /\ CallStack(frames) /\ frames # <<>> /\ pos \in Nat
<1>1. ctl.go \in {"switch", "done"} /\ ctl.go \in OtherRuns
  BY DEF GivenDone, At, OtherRuns
<1>2. Top.k = "switch"
  BY <1>1, UnderOther, SortOthers, WaitsOwn DEF GivenDone
<1>3. Answer(Top.k) = "stmt"
  BY <1>2, StatementFrames
<1> QED BY <1>1, <1>2, <1>3, UnderOther

LEMMA SwitchBecomes ==
    ASSUME Here, ctl.go = "switch" \/ GivenDone("switch"), NEW f, f.k = "switch", NEW n,
           Become("switch", f, n), Passes(n)
    PROVE  Moves
<1>1. FrameOK(f) /\ Answer(f.k) = "stmt" /\ f.k \in Waits(Sort("switch")) /\ "switch" \in OtherRuns
  BY StatementFrames, SortOthers, WaitsOwn DEF OtherRuns
<1> QED BY <1>1, SwitchTop, BecomeMoves

(* The fields of the frame change, its kind does not. *)
LEMMA KeepsKind ==
    ASSUME Top.k = "switch"
    PROVE  /\ Flushed.k = "switch"
           /\ \A c : [Flushed EXCEPT !.case = c].k = "switch"
           /\ \A b : [Top EXCEPT !.b = b].k = "switch"
<1>1. Flushed.k = "switch"
  BY DEF Flushed
<1>2. \A c : [Flushed EXCEPT !.case = c].k = Flushed.k
  OBVIOUS
<1>3. \A b : [Top EXCEPT !.b = b].k = Top.k
  OBVIOUS
<1> QED BY <1>1, <1>2, <1>3

LEMMA SwitchMoves == ASSUME Here, Switch PROVE Moves
<1>1. CASE SwitchClose
  <2>1. ctl.go = "switch" /\ T = "}" /\ \E s : Complete(s, Tail(frames), 1)
    BY <1>1 DEF SwitchClose, At
  <2>2. Passes(1)
    BY <2>1, PassesOne DEF Here, Plain, Eof
  <2> QED BY <2>1, <2>2, SwitchTop, CompleteMoves
<1>2. CASE SwitchCase
  <2> DEFINE f == [Flushed EXCEPT !.case = <<Atom(Next_, tokens[pos + 1].s)>>]
  <2>1. ctl.go = "switch" /\ T = "case"
    BY <1>2 DEF SwitchCase, At
  <2>2. \/ /\ Next_ \in {"Number", "String", "Regex", "TypedRegex"} /\ TokenAt(pos + 2) = ":"
           /\ Become("switch", f, 3)
        \/ Fail_
    BY <1>2 DEF SwitchCase
  <2>3. f.k = "switch"
    BY <2>1, SwitchTop, KeepsKind
  <2> HIDE DEF f
  <2>4. CASE /\ Next_ \in {"Number", "String", "Regex", "TypedRegex"} /\ TokenAt(pos + 2) = ":"
             /\ Become("switch", f, 3)
    <3>1. Passes(2) /\ Plain(TokenAt(pos + 2))
      BY <2>1, <2>4, PassesTwo DEF Here, Next_, Plain, Eof
    <3>2. Passes(2 + 1)
      BY <3>1, PassesMore DEF Here
    <3>3. Passes(3)
      BY <3>2
    <3> QED BY <2>1, <2>3, <2>4, <3>3, SwitchBecomes
  <2> QED BY <2>2, <2>4, FailMoves
<1>3. CASE SwitchDefault
  <2> DEFINE f == [Flushed EXCEPT !.case = <<DefaultCase>>]
  <2>1. ctl.go = "switch" /\ T = "default" /\ ((Next_ = ":" /\ Become("switch", f, 2)) \/ Fail_)
    BY <1>3 DEF SwitchDefault, At
  <2>2. f.k = "switch"
    BY <2>1, SwitchTop, KeepsKind
  <2>3. Next_ = ":" => Passes(2)
    BY <2>1, PassesTwo DEF Here, Next_, Plain, Eof
  <2> HIDE DEF f
  <2> QED BY <2>1, <2>2, <2>3, SwitchBecomes, FailMoves
<1>4. CASE SwitchStatement
  <2> DEFINE c == Enter("statement")
  <2>1. ctl.go = "switch" /\ (Fail_ \/ Go(c, frames, 0, FALSE))
    BY <1>4 DEF SwitchStatement, At
  <2>2. "switch" \in Waits("stmt")
    BY DEF Waits
  <2>3. CallStack(frames) /\ Takes(frames, "stmt") /\ c.go \in OtherRuns /\ Sort(c.go) = "stmt"
    BY <2>1, <2>2, SwitchTop, SortOthers DEF Takes, Top, Enter, OtherRuns
  <2> HIDE DEF c
  <2> QED BY <2>1, <2>3, PassesNone, GoOther, FailMoves
<1>5. CASE SwitchAppend
  <2> DEFINE f == [Top EXCEPT !.b = Append(@, ctl.s)]
  <2>1. GivenDone("switch") /\ Become("switch", f, 0)
    BY <1>5 DEF SwitchAppend
  <2>2. f.k = "switch"
    BY <2>1, SwitchTop, KeepsKind
  <2> HIDE DEF f
  <2> QED BY <2>1, <2>2, PassesNone, SwitchBecomes
<1> QED BY <1>1, <1>2, <1>3, <1>4, <1>5 DEF Switch

-----------------------------------------------------------------------------
(* parse_top and what it calls, but for an annotation. *)
LEMMA EntryFrames ==
    /\ \A f : f.k \in {"Pattern", "Rule", "Function"} => FrameOK(f) /\ Answer(f.k) = "entry"
    /\ \A f : f.k = "Special" /\ f.part \in SpecialPatterns => FrameOK(f) /\ Answer(f.k) = "entry"
    /\ \A f : f.k \in {"Rule", "Special", "Function"} => f.k \in Waits(Sort("body"))
    /\ "Pattern" \in Waits("expr") /\ "Function" \in Waits(Sort("param"))
    /\ {"body", "param"} \subseteq OtherRuns
<1>1. Sort("body") = "body" /\ Sort("param") = "param"
  BY DEF Sort
<1> QED BY <1>1 DEF FrameOK, Answer, Waits, OtherRuns

LEMMA AtEntry ==
    ASSUME Here, ctl.go = "top" PROVE CallStack(frames) /\ Takes(frames, "entry") /\ frames = <<>> /\ pos \in Nat
<1>1. CallStack(frames) /\ Takes(frames, "entry")
  BY SortOthers DEF Here, Running
<1>2. Waits("entry") = {}
  BY DEF Waits
<1> QED BY <1>1, <1>2 DEF Takes, Here

LEMMA EntryUnder ==
    ASSUME Here, ctl.go \in {"give", "body!", "param"}, Answer(Top.k) = "entry"
    PROVE  CallStack(Tail(frames)) /\ Takes(Tail(frames), "entry") /\ pos \in Nat /\ FrameOK(Top)
  BY UnderExpr, UnderOther DEF ExprRuns, OtherRuns

LEMMA AgainMoves == ASSUME NEW n, Again(n), Passes(n) PROVE Moves
<1>1. Enter("top").go = "top"
  BY DEF Enter
<1> QED BY <1>1, EmptyStack, SortOthers, GoOther DEF Again

LEMMA PatternMoves == ASSUME Here, TopPattern \/ PatternDone PROVE Moves
<1>1. CASE TopPattern
  <2> DEFINE f == [k |-> "Pattern", from |-> <<>>]
  <2>1. ctl.go = "top" /\ Expression(f, 0, FALSE)
    BY <1>1 DEF TopPattern, AtTop, At
  <2>2. FrameOK(f) /\ Answer(f.k) = "entry" /\ f.k \in Waits("expr")
    BY EntryFrames
  <2> HIDE DEF f
  <2> QED BY <2>1, <2>2, AtEntry, PassesNone, ExpressionMoves
<1>2. CASE PatternDone
  <2> DEFINE p == Append(Top.from, ctl.e)
             f == [k |-> "Pattern", from |-> p]
             g == [k |-> "Rule", pattern |-> p]
  <2>1. ctl.go = "give" /\ Top.k = "Pattern" /\ Answer(Top.k) = "entry"
    BY <1>2 DEF PatternDone, Given, At, Answer
  <2>2. \/ T = "," /\ Parse(0, <<f>> \o Tail(frames), 1, FALSE)
        \/ Become("body", g, 0)
        \/ Again(0)
    BY <1>2 DEF PatternDone
  <2>3. T = "," => Passes(1)
    BY PassesOne DEF Here, Plain, Eof
  <2>4. FrameOK(f) /\ Answer(f.k) = "entry" /\ f.k \in Waits("expr")
    BY EntryFrames
  <2>5. FrameOK(g) /\ Answer(g.k) = "entry" /\ g.k \in Waits(Sort("body")) /\ "body" \in OtherRuns
    BY EntryFrames
  <2> HIDE DEF f, g
  <2>6. CASE T = "," /\ Parse(0, <<f>> \o Tail(frames), 1, FALSE)
    BY <2>1, <2>3, <2>4, <2>6, EntryUnder, AskMoves
  <2>7. CASE Become("body", g, 0)
    BY <2>1, <2>5, <2>7, EntryUnder, PassesNone, BecomeMoves
  <2> QED BY <2>2, <2>6, <2>7, PassesNone, AgainMoves
<1> QED BY <1>1, <1>2

LEMMA TopBodyMoves == ASSUME Here, TopBody \/ TopSpecial PROVE Moves
<1>1. CASE TopBody
  <2> DEFINE f == [k |-> "Rule", pattern |-> <<>>]
  <2>1. ctl.go = "top" /\ Call("body", f, 0)
    BY <1>1 DEF TopBody, AtTop, At
  <2>2. FrameOK(f) /\ Answer(f.k) = "entry" /\ f.k \in Waits(Sort("body")) /\ "body" \in OtherRuns
    BY EntryFrames
  <2> HIDE DEF f
  <2> QED BY <2>1, <2>2, AtEntry, PassesNone, CallMoves
<1>2. CASE TopSpecial
  <2> DEFINE f == [k |-> "Special", part |-> T]
  <2>1. ctl.go = "top" /\ T \in SpecialPatterns /\ Call("body", f, 1)
    BY <1>2 DEF TopSpecial, AtTop, At
  <2>2. f.k = "Special" /\ f.part \in SpecialPatterns
    BY <2>1
  <2>3. Passes(1)
    BY <2>1, PassesOne, PlainTokens DEF Here
  <2> HIDE DEF f
  <2>4. FrameOK(f) /\ Answer(f.k) = "entry" /\ f.k \in Waits(Sort("body")) /\ "body" \in OtherRuns
    BY <2>2, EntryFrames
  <2> QED BY <2>1, <2>3, <2>4, AtEntry, CallMoves
<1> QED BY <1>1, <1>2

LEMMA DirectiveMoves == ASSUME Here, Load \/ Include \/ Namespace PROVE Moves
<1>1. ctl.go = "top" /\ T \in {"@load", "@include", "@nsinclude", "@namespace"}
  BY DEF Load, Include, Namespace, AtTop, At
<1>2. pos \in Nat /\ CallStack(frames) /\ Takes(frames, "entry") /\ typed \in BOOLEAN
  BY <1>1, AtEntry DEF Here
<1>3. Next_ = "String" => Passes(2)
  BY <1>1, <1>2, PassesTwo DEF Next_, Plain, Eof
<1>4. Next_ = "String" /\ TokenAt(pos + 2) \in StmtEnd => Passes(3)
  <2>1. SUFFICES ASSUME Passes(2), TokenAt(pos + 2) \in StmtEnd PROVE Passes(3)
    BY <1>3
  <2>2. Passes(2 + 1)
    BY <1>2, <2>1, PassesMore, PlainEnds
  <2> QED BY <2>2
<1>5. CASE Load
  <2>1. (Next_ = "String" /\ TokenAt(pos + 2) \in StmtEnd /\ Again(3)) \/ Fail_
    BY <1>5 DEF Load
  <2> QED BY <1>4, <2>1, AgainMoves, FailMoves
<1>6. CASE Include
  <2>1. (Next_ = "String" /\ Go(Panicked, frames, 2, FALSE)) \/ Fail_
    BY <1>6 DEF Include
  <2>2. CASE Next_ = "String" /\ Go(Panicked, frames, 2, FALSE)
    BY <1>2, <1>3, <2>2 DEF Go, Moves, Running, Panicked
  <2> QED BY <2>1, <2>2, FailMoves
<1>7. CASE Namespace
  <2>1. \/ /\ Next_ = "String" /\ TokenAt(pos + 2) \in StmtEnd
           /\ pos' = pos + 3 /\ UNCHANGED <<lexvars, frames, ctl, typed>>
        \/ Fail_
    BY <1>7 DEF Namespace
  <2>2. CASE /\ Next_ = "String" /\ TokenAt(pos + 2) \in StmtEnd
             /\ pos' = pos + 3 /\ UNCHANGED <<lexvars, frames, ctl, typed>>
    BY <1>1, <1>2, <1>4, <2>2 DEF Here, Moves
  <2> QED BY <2>1, <2>2, FailMoves
<1> QED BY <1>5, <1>6, <1>7

LEMMA TopEndMoves == ASSUME Here, TopSeparator \/ TopMissing \/ TopEnd PROVE Moves
<1>1. CASE TopSeparator
  <2>1. T \in StmtEnd /\ (Fail_ \/ Again(1))
    BY <1>1 DEF TopSeparator, AtTop
  <2>2. Passes(1)
    BY <2>1, PassesOne, PlainEnds DEF Here
  <2> QED BY <2>1, <2>2, AgainMoves, FailMoves
<1>2. CASE TopMissing
  BY <1>2, FailMoves DEF TopMissing
<1>3. CASE TopEnd
  <2> DEFINE c == Enter("parsed")
  <2>1. ctl.go = "top" /\ Go(c, frames, 0, FALSE)
    BY <1>3 DEF TopEnd, AtTop, At
  <2>2. c.go = "parsed"
    BY DEF Enter
  <2> HIDE DEF c
  <2> QED BY <2>1, <2>2, AtEntry, SortOthers, PassesNone, GoOther
<1> QED BY <1>1, <1>2, <1>3

LEMMA FunctionFrame ==
    ASSUME NEW name, NEW args
    PROVE  LET f == Function(name, args)
           IN  /\ FrameOK(f) /\ Answer(f.k) = "entry" /\ f.k \in Waits(Sort("body")) /\ f.k \in Waits(Sort("param"))
<1>1. Function(name, args).k = "Function"
  BY DEF Function
<1> QED BY <1>1, EntryFrames

LEMMA StartFunctionMoves == ASSUME Here, StartFunction PROVE Moves
<1> DEFINE f == Function(NameOf(tokens[pos + 1]), <<>>)
           n == Count(4, {"Newline"})
<1>1. ctl.go = "top" /\ T = "function"
  BY DEF StartFunction, AtTop, At
<1>2. \/ Next_ = "Identifier" /\ TokenAt(pos + 2) = "(" /\ TokenAt(pos + 3) = ")" /\ Call("body", f, n)
      \/ Next_ = "Identifier" /\ TokenAt(pos + 2) = "(" /\ Call("param", f, 3)
      \/ Fail_
  BY DEF StartFunction
<1>3. pos \in Nat /\ Plain("Newline")
  BY DEF Here, Plain, Eof
<1>4. Next_ = "Identifier" /\ TokenAt(pos + 2) = "(" => Passes(3)
  <2>1. SUFFICES ASSUME Next_ = "Identifier", TokenAt(pos + 2) = "(" PROVE Passes(3)
    OBVIOUS
  <2>2. Passes(2) /\ Plain(TokenAt(pos + 2))
    BY <1>1, <1>3, <2>1, PassesTwo DEF Next_, Plain, Eof
  <2>3. Passes(2 + 1)
    BY <1>3, <2>2, PassesMore
  <2> QED BY <2>3
<1>5. Passes(3) /\ TokenAt(pos + 3) = ")" => Passes(n)
  <2>1. SUFFICES ASSUME Passes(3), TokenAt(pos + 3) = ")" PROVE Passes(n)
    OBVIOUS
  <2>2. Passes(3 + 1)
    BY <1>3, <2>1, PassesMore DEF Plain, Eof
  <2>3. Passes(4)
    BY <2>2
  <2> QED BY <1>3, <2>3, PassesCount
<1>6. FrameOK(f) /\ Answer(f.k) = "entry" /\ f.k \in Waits(Sort("body")) /\ f.k \in Waits(Sort("param"))
  BY FunctionFrame
<1> HIDE DEF f, n
<1> QED BY <1>1, <1>2, <1>4, <1>5, <1>6, AtEntry, EntryFrames, CallMoves, FailMoves

LEMMA ParameterMoves == ASSUME Here, Parameter PROVE Moves
<1> DEFINE f == Function(Top.name, Append(Top.args, NameOf(tokens[pos])))
           n == Count(2, {"Newline"})
<1>1. ctl.go = "param" /\ Top.k = "Function" /\ Answer(Top.k) = "entry"
  <2>1. ctl.go = "param" /\ ctl.go \in OtherRuns /\ Sort(ctl.go) = "param"
    BY DEF Parameter, At, OtherRuns, Sort
  <2>2. Top.k = "Function"
    BY <2>1, UnderOther, WaitsOwn
  <2> QED BY <2>1, <2>2 DEF Answer
<1>2. \/ T = "Identifier" /\ Next_ = "," /\ Become("param", f, 2)
      \/ T = "Identifier" /\ Next_ = ")" /\ Become("body", f, n)
      \/ Fail_
  BY DEF Parameter
<1>3. pos \in Nat /\ Plain("Newline")
  BY DEF Here, Plain, Eof
<1>4. T = "Identifier" /\ Next_ \in {",", ")"} => Passes(2)
  BY <1>3, PassesTwo DEF Next_, Plain, Eof
<1>5. Passes(2) => Passes(n)
  BY <1>3, PassesCount
<1>6. FrameOK(f) /\ Answer(f.k) = "entry" /\ f.k \in Waits(Sort("body")) /\ f.k \in Waits(Sort("param"))
  BY FunctionFrame
<1> HIDE DEF f, n
<1> QED BY <1>1, <1>2, <1>4, <1>5, <1>6, EntryUnder, EntryFrames, BecomeMoves, FailMoves

LEMMA TopMoves == ASSUME Here, ParseTop, ~Concurrent PROVE Moves
<1>1. RuleDone \/ SpecialDone \/ FunctionDone => Again(0)
  BY DEF RuleDone, SpecialDone, FunctionDone
<1> QED BY <1>1, PatternMoves, TopBodyMoves, DirectiveMoves, TopEndMoves, StartFunctionMoves, ParameterMoves,
           PassesNone, AgainMoves
        DEF ParseTop

(* What the parser does, but for an annotation. *)
LEMMA RulesMove == ASSUME Here, RulesNext, ~(Concurrent /\ ParseTop) PROVE Moves
  BY TopMoves, PrattMoves, SimpleStatementMoves, BodyMoves, ParseStatementMoves, ForStatementMoves, SwitchMoves
     DEF RulesNext

-----------------------------------------------------------------------------
(* Annotations read, and those that marked a rule or wait for one. *)
Marks == Len(ast.concurrent) + IF concurrent THEN 1 ELSE 0

AstOK == DOMAIN ast = DOMAIN EmptyAst /\ Stream(ast.concurrent) /\ concurrent \in BOOLEAN

Parts == {"loads", "BEGIN", "BEGINFILE", "rules", "ENDFILE", "END", "concurrent", "functions"}

LEMMA PartsOfAst == DOMAIN EmptyAst = Parts
  BY DEF EmptyAst, Parts

(* An entry of any part but the concurrent rules. *)
LEMMA OtherPart ==
    ASSUME AstOK, NEW part, part # "concurrent", NEW x, ast' = [ast EXCEPT ![part] = x], UNCHANGED concurrent
    PROVE  AstOK' /\ Marks' = Marks
<1>1. "concurrent" \in DOMAIN ast
  BY PartsOfAst DEF AstOK, Parts
<1>2. DOMAIN ast' = DOMAIN ast /\ ast'.concurrent = ast.concurrent
  BY <1>1
<1> QED BY <1>2 DEF AstOK, Marks

LEMMA AddRuleKeeps == ASSUME AstOK, NEW rule, AddRule(rule) PROVE AstOK' /\ Marks' = Marks
<1>1. "concurrent" \in DOMAIN ast
  BY PartsOfAst DEF AstOK, Parts
<1>2. CASE concurrent
  <2>1. ast' = [ast EXCEPT !["concurrent"] = Append(ast["concurrent"], rule)] /\ concurrent' = FALSE
    BY <1>2 DEF AddRule
  <2>2. DOMAIN ast' = DOMAIN ast /\ ast'.concurrent = Append(ast.concurrent, rule)
    BY <1>1, <2>1
  <2>3. Stream(ast'.concurrent) /\ Len(ast'.concurrent) = Len(ast.concurrent) + 1 /\ Len(ast.concurrent) \in Nat
    BY <2>2, StreamAppend, StreamFacts DEF AstOK
  <2>4. ~concurrent' /\ concurrent' \in BOOLEAN
    BY <2>1
  <2>5. Marks = Len(ast.concurrent) + 1 /\ Marks' = Len(ast'.concurrent) + 0
    BY <1>2, <2>4 DEF Marks
  <2>6. Marks' = Marks
    BY <2>3, <2>5
  <2> QED BY <2>2, <2>3, <2>4, <2>6 DEF AstOK
<1>3. CASE ~concurrent
  <2>1. ast' = [ast EXCEPT !["rules"] = Append(ast["rules"], rule)] /\ concurrent' = concurrent
    BY <1>3 DEF AddRule, AstOK
  <2> QED BY <2>1, OtherPart
<1> QED BY <1>2, <1>3

LEMMA KeepAstKeeps == ASSUME AstOK, KeepAst PROVE AstOK' /\ Marks' = Marks
  BY DEF KeepAst, rulevars, AstOK, Marks

LEMMA SpecialKeeps == ASSUME Here, AstOK, SpecialDone PROVE AstOK' /\ Marks' = Marks
<1>1. ctl.go = "body!" /\ Top.k = "Special" /\ Push(Top.part, ctl.b)
  BY DEF SpecialDone, GivenBody, At
<1>2. Top.part \in SpecialPatterns
  BY <1>1, UnderOther DEF OtherRuns, FrameOK
<1>3. Top.part # "concurrent"
  BY <1>2 DEF SpecialPatterns
<1> DEFINE part == Top.part
<1>4. ast' = [ast EXCEPT ![part] = Append(ast[part], ctl.b)] /\ UNCHANGED concurrent
  BY <1>1 DEF Push
<1> HIDE DEF part
<1>5. part # "concurrent"
  BY <1>3 DEF part
<1> QED BY <1>4, <1>5, OtherPart

LEMMA RulesKeep ==
    ASSUME Here, AstOK, RulesNext, ~(Concurrent /\ ParseTop)
    PROVE  AstOK' /\ Marks' = Marks
<1>1. CASE Load
  <2>1. KeepAst \/ Push("loads", tokens[pos + 1].s)
    BY <1>1 DEF Load
  <2>2. ASSUME Push("loads", tokens[pos + 1].s) PROVE AstOK' /\ Marks' = Marks
    <3>1. ast' = [ast EXCEPT !["loads"] = Append(ast["loads"], tokens[pos + 1].s)] /\ UNCHANGED concurrent
      BY <2>2 DEF Push
    <3> QED BY <3>1, OtherPart
  <2> QED BY <2>1, <2>2, KeepAstKeeps
<1>2. CASE PatternDone \/ RuleDone
  <2>1. KeepAst \/ \E r : AddRule(r)
    BY <1>2 DEF PatternDone, RuleDone
  <2> QED BY <2>1, AddRuleKeeps, KeepAstKeeps
<1>3. CASE FunctionDone
  <2> DEFINE x == (Top.name :> [args |-> Top.args, b |-> ctl.b]) @@ ast.functions
  <2>1. ast' = [ast EXCEPT !["functions"] = x] /\ UNCHANGED concurrent
    BY <1>3 DEF FunctionDone
  <2> HIDE DEF x
  <2> QED BY <2>1, OtherPart
<1>4. CASE \/ TopPattern \/ TopBody \/ TopSpecial \/ Include \/ Namespace \/ TopSeparator \/ TopMissing
           \/ TopEnd \/ StartFunction \/ Parameter
  <2>1. KeepAst
    BY <1>4 DEF TopPattern, TopBody, TopSpecial, Include, Namespace, TopSeparator, TopMissing, TopEnd,
                StartFunction, Parameter
  <2> QED BY <2>1, KeepAstKeeps
<1>5. CASE KeepAst
  BY <1>5, KeepAstKeeps
<1> QED BY <1>1, <1>2, <1>3, <1>4, <1>5, SpecialKeeps DEF RulesNext, ParseTop

-----------------------------------------------------------------------------
(* The tokens passed hold the annotations read. *)
Read == {i \in 1 .. pos - 1 : tokens[i].t = "@concurrent"}

LEMMA ReadIsFinite == ASSUME pos \in Nat PROVE IsFiniteSet(Read)
<1>1. IsFiniteSet(1 .. pos - 1)
  BY FS_Interval
<1> QED BY <1>1, FS_Subset DEF Read

(* What is there is a token. *)
LEMMA TokenThere ==
    ASSUME Stream(tokens), NEW i \in Nat, i >= 1, TokenAt(i) \notin {Eof, "Error"}
    PROVE  i <= Len(tokens) /\ Len(tokens) \in Nat /\ TokenAt(i) = tokens[i].t
<1>1. Len(tokens) \in Nat
  BY StreamFacts
<1> QED BY <1>1 DEF TokenAt

LEMMA PassesTokens ==
    ASSUME Stream(tokens), pos \in 1 .. Len(tokens) + 1, NEW n, Passes(n), pos' = pos + n, UNCHANGED tokens
    PROVE  pos' \in 1 .. Len(tokens) + 1 /\ Read' = Read
<1>1. n \in Nat /\ pos \in Nat /\ Len(tokens) \in Nat
  BY StreamFacts DEF Passes
<1>2. ASSUME NEW i \in pos .. pos + n - 1 PROVE i <= Len(tokens) /\ tokens[i].t # "@concurrent"
  <2>1. PICK j \in 0 .. n - 1 : i = pos + j
    BY <1>1
  <2>2. TokenAt(i) \notin {Eof, "Error", "@concurrent"} /\ i \in Nat /\ i >= 1
    BY <1>1, <2>1 DEF Passes
  <2> QED BY <2>2, TokenThere
<1>3. pos + n <= Len(tokens) + 1
  <2>1. CASE n = 0
    BY <1>1, <2>1
  <2>2. CASE n # 0
    <3>1. pos + n - 1 \in pos .. pos + n - 1
      BY <1>1, <2>2
    <3> QED BY <1>1, <1>2, <3>1
  <2> QED BY <2>1, <2>2
<1>4. Read' = Read
  <2>1. \A i \in 1 .. pos + n - 1 : i \in 1 .. pos - 1 \/ tokens[i].t # "@concurrent"
    BY <1>1, <1>2
  <2>2. \A i \in 1 .. pos - 1 : i \in 1 .. pos + n - 1
    BY <1>1
  <2>3. \A i : i \in Read <=> i \in 1 .. pos - 1 /\ tokens[i].t = "@concurrent"
    BY DEF Read
  <2>4. \A i : i \in Read' <=> i \in 1 .. pos + n - 1 /\ tokens[i].t = "@concurrent"
    <3>1. \A i : i \in Read' <=> i \in 1 .. pos' - 1 /\ tokens'[i].t = "@concurrent"
      BY DEF Read
    <3>2. tokens' = tokens /\ pos' - 1 = pos + n - 1
      BY <1>1
    <3> QED BY <3>1, <3>2
  <2>5. \A i : i \in Read' <=> i \in Read
    BY <2>1, <2>2, <2>3, <2>4
  <2> QED BY <2>5 DEF Read
<1> QED BY <1>1, <1>3, <1>4

FrontInv ==
    /\ Here /\ AstOK
    /\ Stream(tokens) /\ pos \in 1 .. Len(tokens) + 1
    /\ lexed \in {"lexing", "done", "error"}
    /\ ctx \in {"AcceptExpression", "AcceptOperator"}
    /\ lexed = "lexing" => pos = 1 /\ ctl.go = "top"
    /\ Cardinality(Read) = Marks

LEMMA NothingRead == ASSUME pos = 1 PROVE Read = {} /\ Cardinality(Read) = 0
<1>1. Read = {}
  BY DEF Read
<1> QED BY <1>1, FS_EmptySet

LEMMA EmptyConcurrent == EmptyAst.concurrent = <<>> /\ Len(<<>>) = 0
  BY DEF EmptyAst

(* A parser that starts on a source. *)
LEMMA Starts ==
    ASSUME pos' = 1, frames' = <<>>, ctl' = Enter("top"), typed' = FALSE, ast' = EmptyAst, concurrent' = FALSE,
           tokens' = <<>>, lexed' = "lexing", ctx' = "AcceptExpression"
    PROVE  FrontInv'
<1>1. ctl'.go = "top" /\ Sort("top") = "entry"
  BY SortOthers DEF Enter
<1>2. Here'
  BY <1>1, EmptyStack DEF Here, Running
<1>3. AstOK' /\ Marks' = 0
  <2>1. DOMAIN ast' = DOMAIN EmptyAst /\ ast'.concurrent = <<>> /\ Len(<<>>) = 0
    BY EmptyConcurrent
  <2>2. Stream(ast'.concurrent) /\ ~concurrent' /\ concurrent' \in BOOLEAN
    BY <2>1, StreamEmpty
  <2> QED BY <2>1, <2>2 DEF AstOK, Marks
<1>4. Cardinality(Read)' = 0
  <2>1. Read' = {}
    BY DEF Read
  <2> QED BY <2>1, FS_EmptySet
<1>5. pos' \in 1 .. Len(tokens') + 1
  OBVIOUS
<1> QED BY <1>1, <1>2, <1>3, <1>4, <1>5, StreamEmpty DEF FrontInv

LEMMA FrontInit_ == FrontInit => FrontInv
<1> SUFFICES ASSUME FrontInit PROVE FrontInv
  OBVIOUS
<1>1. /\ pos = 1 /\ frames = <<>> /\ ctl = Enter("top") /\ typed = FALSE /\ ast = EmptyAst /\ concurrent = FALSE
      /\ tokens = <<>> /\ lexed = "lexing" /\ ctx = "AcceptExpression"
  BY DEF FrontInit, LexInit, RulesInit
<1>2. ctl.go = "top" /\ Sort("top") = "entry"
  BY <1>1, SortOthers DEF Enter
<1>3. Here
  BY <1>1, <1>2, EmptyStack DEF Here, Running
<1>4. AstOK /\ Marks = 0
  <2>1. DOMAIN ast = DOMAIN EmptyAst /\ ast.concurrent = <<>> /\ Len(<<>>) = 0
    BY <1>1, EmptyConcurrent
  <2>2. Stream(ast.concurrent) /\ ~concurrent /\ concurrent \in BOOLEAN
    BY <1>1, <2>1, StreamEmpty
  <2> QED BY <2>1, <2>2 DEF AstOK, Marks
<1>5. Cardinality(Read) = 0
  BY <1>1, NothingRead
<1>6. pos \in 1 .. Len(tokens) + 1
  BY <1>1
<1> QED BY <1>1, <1>2, <1>3, <1>4, <1>5, <1>6, StreamEmpty DEF FrontInv

(* The lexer: what it appends is behind what the parser reads. *)
LEMMA LexKeeps == ASSUME FrontInv, Lex PROVE FrontInv'
<1>1. lexed = "lexing" /\ UNCHANGED <<prattvars, rulevars>>
  BY DEF Lex, LexNext, SkipBlanks, Newline, TokenRule, ParseString, ParseTypedRegex, ParseRegexOrOp, Unexpected,
         LexEnd, Reading
<1>2. \/ UNCHANGED <<tokens, ctx>> /\ lexed' \in {"lexing", "done", "error"}
      \/ \E t, s, to : Found(t, s, to)
  BY <1>1 DEF Lex, LexNext, SkipBlanks, Newline, TokenRule, ParseString, ParseTypedRegex, ParseRegexOrOp,
         Unexpected, LexEnd, Content, Fail
<1>3. Stream(tokens') /\ ctx' \in {"AcceptExpression", "AcceptOperator"} /\ lexed' \in {"lexing", "done", "error"}
  <2>1. ASSUME NEW t, NEW s, NEW to, Found(t, s, to)
        PROVE  Stream(tokens') /\ ctx' \in {"AcceptExpression", "AcceptOperator"} /\ lexed' = lexed
    <3>1. (\E x : tokens' = Append(tokens, x)) /\ ctx' = ContextAfter(t) /\ lexed' = lexed
      BY <2>1 DEF Found
    <3> QED BY <3>1, StreamAppend DEF FrontInv, ContextAfter
  <2> QED BY <1>1, <1>2, <2>1 DEF FrontInv
<1>4. pos' = 1 /\ ctl' = ctl /\ ctl.go = "top" /\ frames' = frames /\ typed' = typed
      /\ ast' = ast /\ concurrent' = concurrent /\ pos = 1
  BY <1>1 DEF FrontInv, prattvars, rulevars
<1>5. Here' /\ AstOK' /\ Marks' = Marks
  BY <1>4 DEF FrontInv, Here, Running, AstOK, Marks
<1>6. Cardinality(Read)' = Cardinality(Read)
  <2>1. Read = {} /\ Read' = {}
    BY <1>4 DEF Read
  <2> QED BY <2>1
<1>7. pos' \in 1 .. Len(tokens') + 1
  BY <1>3, <1>4, StreamFacts
<1> QED BY <1>3, <1>4, <1>5, <1>6, <1>7 DEF FrontInv

LEMMA MovesKeep ==
    ASSUME FrontInv, Moves, lexed # "lexing", AstOK', Marks' = Marks PROVE FrontInv'
<1>1. UNCHANGED <<source, at, ctx, tokens, lexed>>
  BY DEF Moves, lexvars
<1>2. PICK n : Passes(n) /\ pos' = pos + n
  BY DEF Moves
<1>3. pos' \in 1 .. Len(tokens) + 1 /\ Read' = Read
  BY <1>1, <1>2, PassesTokens DEF FrontInv
<1>4. pos' \in Nat
  BY <1>3
<1>5. Running(ctl, frames)' /\ (typed \in BOOLEAN)'
  BY DEF Moves
<1>6. ctl'.go = "prefix" => T' \in PrefixTokens
  BY DEF Moves, T, TokenAt
<1>7. Here'
  BY <1>4, <1>5, <1>6 DEF Here
<1>8. Stream(tokens') /\ pos' \in 1 .. Len(tokens') + 1 /\ Cardinality(Read') = Cardinality(Read)
  BY <1>1, <1>3 DEF FrontInv
<1> QED BY <1>1, <1>7, <1>8 DEF FrontInv

(* The parser runs when the source has been lexed. *)
LEMMA RulesParse == ASSUME RulesNext PROVE lexed # "lexing"
<1>1. PrattNext => Parsing
  BY DEF PrattNext, ParseLhs, Done, FoldRhs, Parenthesis, PrefixOperator, ParsePrefix, GetlinePrefix, GetlineFile,
         AtomOrCall, LhsMissing, ParseArgs, ParsePlace, FoldOn, UnaryDone, IncrDone, ParenDone, InListDone, InDone,
         NextItem, CallDone, IndexDone, GetlinePlaceDone, GetlineFileDone, ConcatDone, InfixDone, AssignDone,
         ThenDone, ElseDone, PipeDone, FoldStop, FoldError, FoldBreak, FoldSuffix, FoldAssign, FoldIndex, FoldIn,
         FoldInfix, FoldTernary, FoldPipe, FoldAt, Given, GivenList, At
<1>2. SimpleStatement \/ Body \/ Switch => Parsing
  BY DEF SimpleStatement, Body, Switch, SimpleExpression, ExpressionDone, ParseCommand, CommandArg, CommandArgs,
         Redirect, RedirectDone, ParseDelete, DeleteDone, ParseBody, BlockSeparator, BlockOpen, BlockClose,
         BlockUnclosed, BlockStatement, BlockAppend, StatementBody, SingleDone, SwitchClose, SwitchCase,
         SwitchDefault, SwitchStatement, SwitchAppend, InBlock, Given, GivenList, GivenDone, At
<1>3. ParseStatement \/ ForStatement => Parsing
  BY DEF ParseStatement, ForStatement, StartSimple, SimpleDone, StartConditional, ConditionDone, ThenBody, ElseBody,
         WhileBody, StartDo, DoBody, Leave, LeaveDone, StatementMissing, StartFor, ForInit, ForCondition,
         ForConditionDone, ForUpdate, ForUpdateDone, ForBody, ForEachBody, Statement, Given, GivenSimple, GivenBody,
         At
<1>4. ParseTop => Parsing
  BY DEF ParseTop, TopPattern, PatternDone, TopBody, RuleDone, TopSpecial, SpecialDone, Load, Include, Namespace,
         Concurrent, TopSeparator, TopMissing, TopEnd, StartFunction, Parameter, FunctionDone, AtTop, Given,
         GivenBody, At
<1> QED BY <1>1, <1>2, <1>3, <1>4 DEF RulesNext, Parsing

(* An annotation is read, and waits for its rule. *)
LEMMA ConcurrentKeeps == ASSUME FrontInv, Concurrent PROVE FrontInv'
<1>1. lexed # "lexing" /\ ctl.go = "top" /\ T = "@concurrent" /\ ast' = ast
  BY DEF Concurrent, AtTop, At, Parsing
<1>2. CASE Fail_ /\ UNCHANGED concurrent
  <2>1. AstOK' /\ Marks' = Marks
    BY <1>1, <1>2 DEF FrontInv, AstOK, Marks
  <2> QED BY <1>1, <1>2, <2>1, FailMoves, MovesKeep DEF FrontInv
<1>3. CASE ~concurrent /\ Again(1) /\ concurrent' = TRUE
  <2>1. /\ ctl' = Enter("top") /\ frames' = <<>> /\ pos' = pos + 1 /\ typed' = FALSE
        /\ UNCHANGED <<source, at, ctx, tokens, lexed>>
    BY <1>3 DEF Again, Go, lexvars
  <2>2. pos \in Nat /\ pos >= 1 /\ Stream(tokens) /\ Len(tokens) \in Nat
    BY StreamFacts DEF FrontInv
  <2>3. pos <= Len(tokens) /\ tokens[pos].t = "@concurrent"
    BY <1>1, <2>2, TokenThere DEF T, Eof
  <2>4. Read' = Read \cup {pos} /\ pos \notin Read
    <3>1. \A i : i \in 1 .. pos + 1 - 1 <=> i \in 1 .. pos - 1 \/ i = pos
      BY <2>2
    <3>2. pos \notin 1 .. pos - 1
      BY <2>2
    <3> QED BY <2>1, <2>3, <3>1, <3>2 DEF Read
  <2>5. Cardinality(Read') = Cardinality(Read) + 1
    BY <2>2, <2>4, ReadIsFinite, FS_AddElement
  <2>6. AstOK' /\ Marks' = Marks + 1
    <3>1. Len(ast.concurrent) \in Nat
      BY StreamFacts DEF FrontInv, AstOK
    <3> QED BY <1>1, <1>3, <3>1 DEF FrontInv, AstOK, Marks
  <2>7. Cardinality(Read') = Marks'
    BY <2>5, <2>6 DEF FrontInv
  <2>8. ctl'.go = "top" /\ Here'
    <3>1. ctl'.go = "top" /\ Sort("top") = "entry"
      BY <2>1, SortOthers DEF Enter
    <3>2. Running(ctl, frames)'
      BY <2>1, <3>1, EmptyStack DEF Running
    <3>3. typed' \in BOOLEAN
      BY <2>1
    <3>4. pos' = pos + 1
      BY <2>1
    <3>5. pos' \in Nat
      BY <2>2, <3>4
    <3> QED BY <3>1, <3>2, <3>3, <3>5 DEF Here
  <2> QED BY <1>1, <2>1, <2>2, <2>3, <2>6, <2>7, <2>8 DEF FrontInv
<1> QED BY <1>2, <1>3 DEF Concurrent

LEMMA StutterKeeps == ASSUME FrontInv, UNCHANGED <<lexvars, prattvars, rulevars>> PROVE FrontInv'
<1>1. UNCHANGED <<tokens, lexed, ctx>>
  BY DEF lexvars
<1>2. UNCHANGED <<pos, frames, ctl, typed>>
  BY DEF prattvars
<1>3. UNCHANGED <<ast, concurrent>>
  BY DEF rulevars
<1>4. AstOK' /\ Marks' = Marks
  BY <1>3 DEF FrontInv, AstOK, Marks
<1>5. Here'
  <2>1. T' = T
    BY <1>1, <1>2 DEF T, TokenAt
  <2> QED BY <1>2, <2>1 DEF FrontInv, Here, Running
<1>6. Read' = Read
  BY <1>1, <1>2 DEF Read
<1> QED BY <1>1, <1>2, <1>4, <1>5, <1>6 DEF FrontInv

LEMMA FrontStep == FrontInv /\ [FrontNext]_frontvars => FrontInv'
<1> SUFFICES ASSUME FrontInv, [FrontNext]_frontvars PROVE FrontInv'
  OBVIOUS
<1>1. CASE ParseProgram
  <2>1. RulesNext
    BY <1>1 DEF ParseProgram
  <2>2. CASE Concurrent
    BY <2>2, ConcurrentKeeps
  <2>3. CASE ~Concurrent
    <3>1. Moves /\ AstOK' /\ Marks' = Marks
      BY <2>1, <2>3, RulesMove, RulesKeep DEF FrontInv
    <3>2. lexed # "lexing"
      BY <2>1, RulesParse
    <3> QED BY <3>1, <3>2, MovesKeep
  <2> QED BY <2>2, <2>3
<1>2. CASE Reprint
  BY <1>2, Starts DEF Reprint
<1>3. CASE Stop \/ UNCHANGED frontvars
  <2>1. UNCHANGED <<lexvars, prattvars, rulevars>>
    BY <1>3 DEF Stop, frontvars
  <2> QED BY <2>1, StutterKeeps
<1> QED BY <1>1, <1>2, <1>3, LexKeeps DEF FrontNext

-----------------------------------------------------------------------------
(* Whoever has been given a list, a simple statement or a statement waits  *)
(* for it, and who has parsed has no caller left.                          *)
LEMMA FrontTyped == FrontInv => FrontTypeOK
<1> SUFFICES ASSUME FrontInv PROVE FrontTypeOK
  OBVIOUS
<1>1. /\ pos \in 1 .. Len(tokens) + 1 /\ lexed \in {"lexing", "done", "error"}
      /\ ctx \in {"AcceptExpression", "AcceptOperator"} /\ typed \in BOOLEAN /\ concurrent \in BOOLEAN
      /\ DOMAIN ast = DOMAIN EmptyAst
  BY DEF FrontInv, Here, AstOK
<1>2. ctl.go \notin {"failed", "panicked"} => Takes(frames, Sort(ctl.go))
  BY DEF FrontInv, Here, Running
<1>3. ctl.go = "list" => frames # <<>> /\ Top.k \in {"InList", "Call", "Index", "Command", "Delete"}
  BY <1>2 DEF Takes, Sort, Waits, Top
<1>4. ctl.go = "simple" => frames # <<>> /\ Top.k \in {"Simple", "ForInit", "for"}
  BY <1>2 DEF Takes, Sort, Waits, Top
<1>5. ctl.go = "done" => frames # <<>> /\ Top.k \in {"Block", "Single", "switch"}
  BY <1>2 DEF Takes, Sort, Waits, Top
<1>6. ctl.go \in {"top", "parsed"} => frames = <<>>
  BY <1>2 DEF Takes, Sort, Waits
<1> QED BY <1>1, <1>3, <1>4, <1>5, <1>6 DEF FrontTypeOK

LEMMA FrontMarks == FrontInv => EachAnnotationMarksOneRule
  BY DEF FrontInv, EachAnnotationMarksOneRule, Annotations, Read, Marks

(* The parser of parser/src/lib.rs never reads behind the end of the       *)
(* tokens, and what one of its functions gives back is what its caller     *)
(* asked for, for every source and every printer.                          *)
THEOREM FrontTypes == FrontSpec => []FrontTypeOK
<1>1. FrontInit => FrontInv
  BY FrontInit_
<1>2. FrontInv /\ [FrontNext]_frontvars => FrontInv'
  BY FrontStep
<1>3. FrontInv => FrontTypeOK
  BY FrontTyped
<1> QED BY <1>1, <1>2, <1>3, PTL DEF FrontSpec

(* Of the annotations read each has marked one rule, but for the last,     *)
(* that may still wait for its rule (parse_top_level_item).                *)
THEOREM AnnotationsMarkRules == FrontSpec => []EachAnnotationMarksOneRule
<1>1. FrontInit => FrontInv
  BY FrontInit_
<1>2. FrontInv /\ [FrontNext]_frontvars => FrontInv'
  BY FrontStep
<1>3. FrontInv => EachAnnotationMarksOneRule
  BY FrontMarks
<1> QED BY <1>1, <1>2, <1>3, PTL DEF FrontSpec

-----------------------------------------------------------------------------
(* What the lexer reads.  A set of naturals has a least element, and a     *)
(* largest if it is bounded.                                               *)
LEMMA Least == ASSUME NEW U, U \subseteq Nat, U # {} PROVE \E n \in U : \A m \in U : n <= m
<1>1. PICK n \in U : \A m \in U : ~(<<m, n>> \in OpToRel(<, Nat))
  BY NatLessThanWellFounded, WFMin, Zenon
<1>2. ASSUME NEW m \in U, m < n PROVE <<m, n>> \in OpToRel(<, Nat)
  BY <1>1, <1>2 DEF OpToRel
<1>3. ASSUME NEW m \in U PROVE n <= m
  <2>1. ~(m < n)
    BY <1>1, <1>2
  <2> QED BY <2>1
<1> QED BY <1>1, <1>3

LEMMA Largest ==
    ASSUME NEW U, U \subseteq Nat, U # {}, NEW b \in Nat, \A m \in U : m <= b
    PROVE  \E n \in U : \A m \in U : m <= n
<1> DEFINE V == {k \in Nat : b - k \in U}
<1>1. V \subseteq Nat /\ V # {}
  <2>1. PICK m \in U : TRUE
    OBVIOUS
  <2>2. b - m \in Nat /\ b - (b - m) = m
    BY <2>1
  <2> QED BY <2>1, <2>2
<1>2. PICK k \in V : \A j \in V : k <= j
  BY <1>1, Least
<1>3. b - k \in U /\ k \in Nat
  BY <1>2
<1>4. ASSUME NEW m \in U PROVE m <= b - k
  <2>1. b - m \in Nat /\ b - (b - m) = m
    OBVIOUS
  <2>2. b - m \in V
    BY <2>1
  <2>3. k <= b - m
    BY <1>2, <2>2
  <2> QED BY <1>3, <2>3
<1> QED BY <1>3, <1>4

InSource(i) == i \in Nat /\ i >= 1 /\ i <= Len(source) + 1

LEMMA SymThere == ASSUME Stream(source), NEW i, InSource(i), Sym(i) # Eof PROVE i <= Len(source) /\ InSource(i + 1)
<1>1. Len(source) \in Nat
  BY StreamFacts
<1>2. i <= Len(source)
  BY <1>1 DEF Sym, InSource
<1> QED BY <1>1, <1>2 DEF InSource

(* The first symbol at i or behind it for which P holds: the end is one.   *)
LEMMA FirstOf ==
    ASSUME Stream(source), NEW i, InSource(i), NEW C, Eof \in C
    PROVE  \E j \in i .. Len(source) + 1 :
              Sym(j) \in C /\ \A k \in i .. j - 1 : source[k] \notin C
<1>1. Len(source) \in Nat /\ i \in Nat
  BY StreamFacts DEF InSource
<1> DEFINE U == {j \in i .. Len(source) + 1 : Sym(j) \in C}
<1>2. Len(source) + 1 \in U
  <2>1. Len(source) + 1 \in i .. Len(source) + 1
    BY <1>1 DEF InSource
  <2>2. Sym(Len(source) + 1) = Eof
    BY <1>1 DEF Sym
  <2> QED BY <2>1, <2>2
<1>3. U \subseteq Nat
  BY <1>1
<1>4. PICK j \in U : \A k \in U : j <= k
  BY <1>2, <1>3, Least
<1>5. ASSUME NEW k \in i .. j - 1 PROVE source[k] \notin C
  <2>1. k \in Nat /\ k < j /\ k <= Len(source) /\ k \in i .. Len(source) + 1
    BY <1>1, <1>3, <1>4, <1>5
  <2>2. k \notin U
    BY <1>3, <1>4, <2>1
  <2>3. Sym(k) \notin C
    BY <2>1, <2>2
  <2> QED BY <2>1, <2>3 DEF Sym
<1> QED BY <1>4, <1>5

LEMMA UntilFinds ==
    ASSUME Stream(source), NEW i, InSource(i), NEW S
    PROVE  LET j == Until(i, S) IN InSource(j) /\ j >= i /\ Sym(j) \in S \cup {Eof}
<1> DEFINE Is(j) == Sym(j) \in S \cup {Eof} /\ \A k \in i .. j - 1 : source[k] \notin S
<1>1. \E j \in i .. Len(source) + 1 : Is(j)
  <2>1. PICK j \in i .. Len(source) + 1 :
              Sym(j) \in S \cup {Eof} /\ \A k \in i .. j - 1 : source[k] \notin S \cup {Eof}
    BY FirstOf
  <2> QED BY <2>1
<1>2. Until(i, S) = CHOOSE j \in i .. Len(source) + 1 : Is(j)
  BY DEF Until
<1> HIDE DEF Is
<1>3. Until(i, S) \in i .. Len(source) + 1 /\ Is(Until(i, S))
  BY <1>1, <1>2
<1>4. Len(source) \in Nat /\ i \in Nat
  BY StreamFacts DEF InSource
<1> QED BY <1>3, <1>4 DEF Is, InSource

LEMMA RunFinds ==
    ASSUME Stream(source), NEW i, InSource(i), NEW S, Eof \notin S
    PROVE  LET j == RunOf(i, S) IN InSource(j) /\ j >= i /\ (Sym(i) \in S => j > i)
<1>0. Len(source) \in Nat /\ i \in Nat /\ i >= 1
  BY StreamFacts DEF InSource
<1> DEFINE Is(j) == Sym(j) \notin S /\ \A k \in i .. j - 1 : source[k] \in S
           All == {Sym(k) : k \in 1 .. Len(source) + 1}
           C == All \ S
<1>1. \A k \in 1 .. Len(source) + 1 : Sym(k) \in C <=> Sym(k) \notin S
  OBVIOUS
<1>2. Eof \in C
  <2>1. Len(source) + 1 \in 1 .. Len(source) + 1 /\ Sym(Len(source) + 1) = Eof
    BY <1>0 DEF Sym
  <2>2. Eof \in All
    BY <2>1
  <2> QED BY <2>2
<1>3. \A k \in 1 .. Len(source) : source[k] \in All
  <2>1. ASSUME NEW k \in 1 .. Len(source) PROVE source[k] \in All
    <3>1. k \in 1 .. Len(source) + 1 /\ Sym(k) = source[k]
      BY <1>0 DEF Sym
    <3>2. Sym(k) \in All
      BY <3>1
    <3> QED BY <3>1, <3>2
  <2> QED BY <2>1
<1>4. C = All \ S
  OBVIOUS
<1> HIDE DEF C, All
<1>5. PICK j \in i .. Len(source) + 1 : Sym(j) \in C /\ \A k \in i .. j - 1 : source[k] \notin C
  BY <1>2, FirstOf
<1>6. j \in 1 .. Len(source) + 1 /\ \A k \in i .. j - 1 : k \in 1 .. Len(source)
  BY <1>0
<1>7. Is(j)
  BY <1>1, <1>3, <1>4, <1>5, <1>6
<1>8. RunOf(i, S) = CHOOSE n \in i .. Len(source) + 1 : Is(n)
  BY DEF RunOf
<1> HIDE DEF Is
<1>9. RunOf(i, S) \in i .. Len(source) + 1 /\ Is(RunOf(i, S))
  BY <1>7, <1>8
<1>10. Sym(i) \in S => RunOf(i, S) # i
  BY <1>9 DEF Is
<1> QED BY <1>0, <1>9, <1>10 DEF InSource

(* What a rule matches: a text that is there, and no regex. *)
Matched(i, m) == InSource(m.to) /\ m.to > i /\ m.t # "Regex"

LEMMA RestLength ==
    ASSUME Stream(source), NEW i, InSource(i)
    PROVE  Len(Rest(i)) = Len(source) - i + 1 /\ Len(source) \in Nat /\ i \in Nat /\ i >= 1
<1>1. PICK S : source \in Seq(S)
  BY DEF Stream
<1> QED BY <1>1 DEF Rest, InSource

LEMMA OperatorSpelled == \A op \in DOMAIN Operators : Len(Operators[op]) \in 1 .. 3 /\ Kind(op) # "Regex"
<1>1. ASSUME NEW op \in DOMAIN Operators PROVE Len(Operators[op]) \in 1 .. 3
  <2>1. \E a, b, c : Operators[op] \in {<<a>>, <<a, b>>, <<a, b, c>>}
    BY DEF Operators, OneSymbol
  <2> QED BY <2>1
<1>2. ASSUME NEW op \in DOMAIN Operators PROVE Kind(op) # "Regex"
  BY DEF Operators, OneSymbol, Kind
<1> QED BY <1>1, <1>2

LEMMA OperatorMatched == ASSUME Stream(source), NEW i, InSource(i), NEW m \in OperatorAt(i) PROVE Matched(i, m)
<1>1. PICK op \in DOMAIN Operators :
          /\ m = [t |-> Kind(op), to |-> i + Len(Operators[op])] /\ IsPrefix(Operators[op], Rest(i))
  BY DEF OperatorAt
<1>2. Len(Operators[op]) \in 1 .. 3 /\ Kind(op) # "Regex"
  BY OperatorSpelled
<1>3. Len(Operators[op]) <= Len(Rest(i))
  BY <1>1 DEF IsPrefix
<1>4. m.t = Kind(op) /\ m.to = i + Len(Operators[op])
  BY <1>1
<1> DEFINE l == Len(Operators[op])
<1>5. l \in 1 .. 3 /\ l <= Len(source) - i + 1 /\ m.to = i + l
  BY <1>2, <1>3, <1>4, RestLength
<1> HIDE DEF l
<1>6. InSource(m.to) /\ m.to > i
  BY <1>5, RestLength DEF InSource
<1> QED BY <1>2, <1>4, <1>6 DEF Matched

LEMMA WordMatched == ASSUME Stream(source), NEW i, InSource(i), NEW m \in WordAt(i) PROVE Matched(i, m)
<1>1. PICK x \in {Sym(i)} \cap Letters :
          m = [t |-> IF ~Single(i, Keywords) THEN "Identifier"
                     ELSE IF Sym(i) = "func" THEN "function" ELSE Sym(i), to |-> Word(i)]
  BY DEF WordAt
<1>2. Sym(i) \in Letters \cup Digits
  BY <1>1
<1>3. InSource(Word(i)) /\ Word(i) > i
  <2>1. InSource(Word(i)) /\ Word(i) >= i /\ Word(i) > i
    BY <1>2, RunFinds, SymbolsAssumption DEF Word
  <2> QED BY <2>1
<1>4. Single(i, Keywords) => Sym(i) # "Regex"
  BY DEF Single, Keywords, Specials
<1> QED BY <1>1, <1>3, <1>4 DEF Matched

LEMMA NumberMatched == ASSUME Stream(source), NEW i, InSource(i), NEW m \in NumberAt(i) PROVE Matched(i, m)
<1> DEFINE j == IF Sym(i) = "-" THEN i + 1 ELSE i
<1>1. Sym(j) \in Digits /\ m = [t |-> "Number", to |-> RunOf(j, Digits)]
  BY DEF NumberAt
<1>2. InSource(j) /\ j >= i
  <2>1. Sym(i) = "-" => InSource(i + 1)
    BY SymThere DEF Eof
  <2> QED BY <2>1 DEF InSource
<1> HIDE DEF j
<1>3. Eof \notin Digits
  BY SymbolsAssumption
<1>4. InSource(RunOf(j, Digits)) /\ RunOf(j, Digits) > j
  BY <1>1, <1>2, <1>3, RunFinds
<1>5. i \in Nat /\ j \in Nat /\ RunOf(j, Digits) \in Nat
  BY <1>2, <1>4 DEF InSource
<1>6. RunOf(j, Digits) > i
  BY <1>2, <1>4, <1>5
<1> QED BY <1>1, <1>4, <1>6 DEF Matched

LEMMA DirectiveMatched == ASSUME Stream(source), NEW i, InSource(i), NEW m \in DirectiveAt(i) PROVE Matched(i, m)
<1> DEFINE j == i + 1
<1>1. /\ Sym(i) = "@" /\ Sym(j) \in Letters \cup Digits
      /\ m = [t |-> IF Single(j, DOMAIN Directives) THEN Directives[Sym(j)] ELSE "IndirectCall", to |-> Word(j)]
  BY DEF DirectiveAt
<1>2. InSource(j) /\ j > i
  BY <1>1, SymThere DEF Eof, InSource
<1>3. Single(j, DOMAIN Directives) => Directives[Sym(j)] # "Regex"
  <2>1. \A d \in DOMAIN Directives : Directives[d] # "Regex"
    BY DEF Directives
  <2> QED BY <2>1 DEF Single
<1> HIDE DEF j
<1>4. InSource(Word(j)) /\ Word(j) > j
  BY <1>1, <1>2, RunFinds, SymbolsAssumption DEF Word
<1>5. i \in Nat /\ j \in Nat /\ Word(j) \in Nat
  BY <1>2, <1>4 DEF InSource
<1>6. Word(j) > i
  BY <1>2, <1>4, <1>5
<1> QED BY <1>1, <1>3, <1>4, <1>6 DEF Matched

LEMMA MunchMatched ==
    ASSUME Stream(source), NEW i, InSource(i), Matches(i) # {} PROVE Munch(i) \in Matches(i) /\ Matched(i, Munch(i))
<1>1. ASSUME NEW m \in Matches(i) PROVE Matched(i, m)
  BY OperatorMatched, WordMatched, NumberMatched, DirectiveMatched DEF Matches
<1> DEFINE U == {m.to : m \in Matches(i)}
           b == Len(source) + 1
<1>2. b \in Nat
  BY StreamFacts
<1>3. U \subseteq Nat /\ U # {} /\ \A n \in U : n <= b
  BY <1>1 DEF Matched, InSource
<1>4. PICK n \in U : \A k \in U : k <= n
  <2> HIDE DEF U, b
  <2> QED BY <1>2, <1>3, Largest
<1>5. PICK m \in Matches(i) : m.to = n
  OBVIOUS
<1>6. \A k \in Matches(i) : k.to <= m.to
  BY <1>4, <1>5
<1>7. Munch(i) \in Matches(i)
  BY <1>6 DEF Munch
<1> QED BY <1>1, <1>7

-----------------------------------------------------------------------------
(* A rule of the lexer reads at least one symbol, or the lexer ends; and   *)
(* it adds a token or none.                                                *)
Adds(t) == /\ \E x : x.t = t /\ tokens' = Append(tokens, x)
           /\ ctx' = ContextAfter(t)
           /\ t = "Regex" => ctx = "AcceptExpression"

LexMoves == /\ UNCHANGED source /\ InSource(at)'
            /\ at' > at \/ lexed' # "lexing"
            /\ UNCHANGED <<tokens, ctx>> \/ \E t : Adds(t)

LEMMA FoundMoves ==
    ASSUME Stream(source), InSource(at), NEW t, NEW s, NEW to, Found(t, s, to), InSource(to), to > at,
           t = "Regex" => ctx = "AcceptExpression"
    PROVE  LexMoves
<1> DEFINE end == IF t \in Absorbing THEN RunOf(to, BlanksNl) ELSE to
           x == [t |-> t, s |-> s, from |-> at, to |-> end]
<1>1. tokens' = Append(tokens, x) /\ at' = end /\ ctx' = ContextAfter(t) /\ UNCHANGED source
  BY DEF Found
<1>2. Eof \notin BlanksNl
  BY DEF BlanksNl, Blanks, Eof
<1>3. InSource(end) /\ end >= to
  BY <1>2, RunFinds DEF InSource
<1>4. x.t = t
  OBVIOUS
<1> HIDE DEF end, x
<1>5. InSource(at)'
  BY <1>1, <1>3 DEF InSource
<1>6. at' > at
  BY <1>1, <1>3 DEF InSource
<1> QED BY <1>1, <1>4, <1>5, <1>6 DEF LexMoves, Adds

LEMMA EndMoves == ASSUME InSource(at), lexed' # "lexing", UNCHANGED <<source, at, ctx, tokens>> PROVE LexMoves
  BY DEF LexMoves, InSource

LEMMA ContentMoves ==
    ASSUME Stream(source), InSource(at), NEW t, NEW start, NEW delimiter, Content(t, start, delimiter),
           InSource(start), start > at, delimiter # Eof, t = "Regex" => ctx = "AcceptExpression"
    PROVE  LexMoves
<1> DEFINE end == Until(start, {delimiter, "\n"})
<1>1. InSource(end) /\ end >= start
  BY UntilFinds
<1>2. \/ Sym(end) = delimiter /\ Found(t, SubSeq(source, start, end - 1), end + 1)
      \/ Fail
  BY DEF Content
<1> HIDE DEF end
<1>3. CASE Sym(end) = delimiter /\ Found(t, SubSeq(source, start, end - 1), end + 1)
  <2>1. InSource(end + 1)
    BY <1>1, <1>3, SymThere
  <2>2. end + 1 > at
    BY <1>1 DEF InSource
  <2> QED BY <1>3, <2>1, <2>2, FoundMoves
<1>4. CASE Fail
  BY <1>4, EndMoves DEF Fail
<1> QED BY <1>2, <1>3, <1>4

LEMMA LexNextMoves == ASSUME Stream(source), InSource(at), LexNext PROVE LexMoves
<1>1. CASE SkipBlanks
  <2>1. /\ Sym(at) \in Blanks \cup {"#"} /\ UNCHANGED <<source, ctx, tokens, lexed>>
        /\ at' = IF Sym(at) = "#" THEN Until(at, {"\n"}) ELSE RunOf(at, Blanks)
    BY <1>1 DEF SkipBlanks, Reading
  <2>2. CASE Sym(at) = "#"
    <3>1. InSource(Until(at, {"\n"})) /\ Until(at, {"\n"}) >= at /\ Sym(Until(at, {"\n"})) \in {"\n", Eof}
      BY UntilFinds
    <3>2. Until(at, {"\n"}) # at
      BY <2>2, <3>1 DEF Eof
    <3> QED BY <2>1, <2>2, <3>1, <3>2 DEF LexMoves, InSource
  <2>3. CASE Sym(at) # "#"
    <3>1. Eof \notin Blanks
      BY DEF Blanks, Eof
    <3>2. InSource(RunOf(at, Blanks)) /\ RunOf(at, Blanks) > at
      BY <2>1, <2>3, <3>1, RunFinds
    <3> QED BY <2>1, <2>3, <3>2 DEF LexMoves, InSource
  <2> QED BY <2>2, <2>3
<1>2. CASE Newline
  <2>1. Sym(at) \in {"\n"} /\ Found("Newline", <<>>, RunOf(at, {"\n"}))
    BY <1>2 DEF Newline, Reading
  <2>2. InSource(RunOf(at, {"\n"})) /\ RunOf(at, {"\n"}) > at
    BY <2>1, RunFinds DEF Eof
  <2> QED BY <2>1, <2>2, FoundMoves
<1>3. CASE TokenRule
  <2> DEFINE m == Munch(at)
  <2>1. Matches(at) # {} /\ Found(m.t, SubSeq(source, at, m.to - 1), m.to)
    BY <1>3 DEF TokenRule
  <2>2. InSource(m.to) /\ m.to > at /\ m.t # "Regex"
    BY <2>1, MunchMatched DEF Matched
  <2> HIDE DEF m
  <2> QED BY <2>1, <2>2, FoundMoves
<1>4. CASE ParseString
  <2>1. Sym(at) = "\"" /\ Content("String", at + 1, "\"")
    BY <1>4 DEF ParseString, Reading
  <2>3. "\"" # Eof
    BY DEF Eof
  <2>4. InSource(at + 1)
    BY <2>1, <2>3, SymThere
  <2>2. InSource(at + 1) /\ at + 1 > at
    BY <2>4 DEF InSource
  <2> QED BY <2>1, <2>2, <2>3, ContentMoves
<1>5. CASE ParseTypedRegex
  <2>1. Sym(at) = "@" /\ Sym(at + 1) = "/" /\ Content("TypedRegex", at + 2, "/")
    BY <1>5 DEF ParseTypedRegex, Reading
  <2>2. InSource(at + 1)
    BY <2>1, SymThere DEF Eof
  <2>3. InSource(at + 1 + 1)
    BY <2>1, <2>2, SymThere DEF Eof
  <2>4. InSource(at + 2) /\ at + 2 > at
    BY <2>3 DEF InSource
  <2>5. "/" # Eof
    BY DEF Eof
  <2> QED BY <2>1, <2>4, <2>5, ContentMoves
<1>6. CASE ParseRegexOrOp
  <2>1. Sym(at) = "/"
    BY <1>6 DEF ParseRegexOrOp, Reading
  <2>2. \/ ctx = "AcceptExpression" /\ Content("Regex", at + 1, "/")
        \/ Sym(at + 1) = "=" /\ Found("/=", <<"/", "=">>, at + 2)
        \/ Found("/", <<"/">>, at + 1)
    BY <1>6 DEF ParseRegexOrOp
  <2>3. InSource(at + 1) /\ at + 1 > at /\ at + 2 > at
    BY <2>1, SymThere DEF InSource, Eof
  <2>4. Sym(at + 1) = "=" => InSource(at + 2)
    <3>1. SUFFICES ASSUME Sym(at + 1) = "=" PROVE InSource(at + 2)
      OBVIOUS
    <3>2. InSource(at + 1 + 1)
      BY <2>3, <3>1, SymThere DEF Eof
    <3> QED BY <3>2 DEF InSource
  <2>5. "/" # Eof
    BY DEF Eof
  <2> QED BY <2>2, <2>3, <2>4, <2>5, ContentMoves, FoundMoves
<1>7. CASE Unexpected
  BY <1>7, EndMoves DEF Unexpected, Fail
<1>8. CASE LexEnd
  BY <1>8, EndMoves DEF LexEnd
<1> QED BY <1>1, <1>2, <1>3, <1>4, <1>5, <1>6, <1>7, <1>8 DEF LexNext

-----------------------------------------------------------------------------
(* The lexer in the program, on a source that is a text: what is read is   *)
(* there, and a regex begins where the lexer expects an expression.        *)
SourceIsText == Stream(source)

(* A "/" behind an operand that is no special variable divides.            *)
SlashDivides ==
    \A i \in 1 .. Len(tokens) - 1 : tokens[i].t \in EndsOperand => tokens[i + 1].t # "Regex"

LastOperand == Len(tokens) # 0 /\ tokens[Len(tokens)].t \in EndsOperand

LexInv == /\ InSource(at) /\ Stream(tokens)
          /\ LastOperand => ctx = "AcceptOperator"
          /\ SlashDivides

LEMMA LexBegins == ASSUME SourceIsText, at = 1, tokens = <<>> PROVE LexInv
<1>1. Len(source) \in Nat /\ Len(tokens) = 0
  BY StreamFacts DEF SourceIsText
<1>2. InSource(at)
  BY <1>1 DEF InSource
<1> QED BY <1>1, <1>2, StreamEmpty DEF LexInv, SlashDivides, LastOperand

LEMMA TokenAdded == ASSUME LexInv, NEW t, Adds(t) PROVE Stream(tokens)' /\ (LastOperand => ctx = "AcceptOperator")' /\ SlashDivides'
<1>1. PICK x : x.t = t /\ tokens' = Append(tokens, x) /\ ctx' = ContextAfter(t)
               /\ (t = "Regex" => ctx = "AcceptExpression")
  BY DEF Adds
<1> DEFINE n == Len(tokens)
<1>2. /\ Stream(tokens') /\ Len(tokens') = n + 1 /\ tokens'[n + 1] = x /\ n \in Nat
      /\ \A i \in 1 .. n : tokens'[i] = tokens[i]
  BY <1>1, StreamAppend, StreamFacts DEF LexInv
<1>3. t \in EndsOperand => ctx' = "AcceptOperator"
  BY <1>1 DEF ContextAfter
<1>4. n # 0 /\ tokens[n].t \in EndsOperand => t # "Regex"
  BY <1>1 DEF LexInv, LastOperand
<1>5. \A i \in 1 .. n - 1 : tokens[i].t \in EndsOperand => tokens[i + 1].t # "Regex"
  BY DEF LexInv, SlashDivides
<1> HIDE DEF n
<1>6. (LastOperand => ctx = "AcceptOperator")'
  BY <1>1, <1>2, <1>3 DEF LastOperand
<1>7. ASSUME NEW i \in 1 .. n, tokens'[i].t \in EndsOperand PROVE tokens'[i + 1].t # "Regex"
  <2>1. CASE i = n
    BY <1>1, <1>2, <1>4, <1>7, <2>1
  <2>2. CASE i # n
    <3>1. i \in 1 .. n - 1 /\ i + 1 \in 1 .. n
      BY <1>2, <2>2
    <3> QED BY <1>2, <1>5, <1>7, <3>1
  <2> QED BY <2>1, <2>2
<1>8. SlashDivides'
  <2>1. Len(tokens') - 1 = n
    BY <1>2
  <2> QED BY <1>7, <2>1 DEF SlashDivides
<1> QED BY <1>2, <1>6, <1>8

LEMMA RulesReadOnly == ASSUME Here, RulesNext PROVE UNCHANGED lexvars
<1>1. CASE Concurrent
  BY <1>1 DEF Concurrent, Fail_, Again, Go
<1>2. CASE ~Concurrent
  <2>1. Moves
    BY <1>2, RulesMove
  <2> QED BY <2>1 DEF Moves
<1> QED BY <1>1, <1>2

LEMMA LexStep ==
    SourceIsText /\ SourceIsText' /\ FrontInv /\ LexInv /\ [FrontNext]_frontvars => LexInv'
<1> SUFFICES ASSUME SourceIsText, SourceIsText', FrontInv, LexInv, [FrontNext]_frontvars PROVE LexInv'
  OBVIOUS
<1>1. CASE Lex
  <2>1. LexMoves
    BY <1>1, LexNextMoves DEF Lex, LexInv, SourceIsText
  <2>2. CASE UNCHANGED <<tokens, ctx>>
    BY <2>1, <2>2 DEF LexMoves, LexInv, LastOperand, SlashDivides
  <2>3. CASE \E t : Adds(t)
    BY <2>1, <2>3, TokenAdded DEF LexMoves, LexInv
  <2> QED BY <2>1, <2>2, <2>3 DEF LexMoves
<1>2. CASE Reprint
  <2>1. at' = 1 /\ tokens' = <<>>
    BY <1>2 DEF Reprint
  <2>2. Len(source') \in Nat /\ Len(tokens') = 0
    BY <2>1, StreamFacts DEF SourceIsText
  <2>3. InSource(at)'
    BY <2>1, <2>2 DEF InSource
  <2> QED BY <2>1, <2>2, <2>3, StreamEmpty DEF LexInv, SlashDivides, LastOperand
<1>3. CASE ParseProgram \/ Stop \/ UNCHANGED frontvars
  <2>1. UNCHANGED lexvars
    <3>1. CASE ParseProgram
      BY <3>1, RulesReadOnly DEF ParseProgram, FrontInv
    <3> QED BY <1>3, <3>1 DEF Stop, frontvars
  <2>2. UNCHANGED <<source, at, ctx, tokens>>
    BY <2>1 DEF lexvars
  <2> QED BY <2>2 DEF LexInv, LastOperand, SlashDivides, InSource
<1> QED BY <1>1, <1>2, <1>3 DEF FrontNext

NoSpecials == \A i \in 1 .. Len(tokens) : tokens[i].t \notin Specials

LEMMA SlashKnown == LexInv => SlashDivides /\ (NoSpecials => SlashAfterOperandDivides)
<1> SUFFICES ASSUME LexInv PROVE SlashDivides /\ (NoSpecials => SlashAfterOperandDivides)
  OBVIOUS
<1>1. SlashDivides /\ Len(tokens) \in Nat
  BY StreamFacts DEF LexInv
<1>2. ASSUME NoSpecials PROVE SlashAfterOperandDivides
  <2>1. \A i \in 1 .. Len(tokens) - 1 : i \in 1 .. Len(tokens)
    BY <1>1
  <2> QED BY <1>1, <1>2, <2>1 DEF NoSpecials, SlashDivides, SlashAfterOperandDivides
<1> QED BY <1>1, <1>2

(* Behind a token that ends an operand a "/" divides, whatever the source: *)
(* the mode that accept_operator and accept_expression keep (lexer/src/    *)
(* lib.rs) stands for the last token read, blanks and comments included.   *)
(* The special variables, whose tokens have the other callback, are the    *)
(* only exception.                                                         *)
THEOREM SlashesDivide ==
    FrontSpec /\ []SourceIsText => [](SlashDivides /\ (NoSpecials => SlashAfterOperandDivides))
<1>1. FrontInit => FrontInv
  BY FrontInit_
<1>2. FrontInv /\ [FrontNext]_frontvars => FrontInv'
  BY FrontStep
<1>3. FrontInit /\ SourceIsText => LexInv
  BY LexBegins DEF FrontInit, LexInit
<1>4. SourceIsText /\ SourceIsText' /\ FrontInv /\ LexInv /\ [FrontNext]_frontvars => LexInv'
  BY LexStep
<1>5. LexInv => SlashDivides /\ (NoSpecials => SlashAfterOperandDivides)
  BY SlashKnown
<1> QED BY <1>1, <1>2, <1>3, <1>4, <1>5, PTL DEF FrontSpec

(* Every rule of the lexer reads at least one symbol of the source and     *)
(* none behind its end, or it is the last: the lexer answers every source, *)
(* broken or not, in as many steps as it has symbols, and one more.        *)
LexerReadsOn == Lex => at' <= Len(source) + 1 /\ (at' > at \/ lexed' # "lexing")

THEOREM LexerAnswers == FrontSpec /\ []SourceIsText => [][LexerReadsOn]_frontvars
<1>1. FrontInit => FrontInv
  BY FrontInit_
<1>2. FrontInv /\ [FrontNext]_frontvars => FrontInv'
  BY FrontStep
<1>3. FrontInit /\ SourceIsText => LexInv
  BY LexBegins DEF FrontInit, LexInit
<1>4. SourceIsText /\ SourceIsText' /\ FrontInv /\ LexInv /\ [FrontNext]_frontvars => LexInv'
  BY LexStep
<1>5. SourceIsText /\ LexInv /\ [FrontNext]_frontvars => [LexerReadsOn]_frontvars
  <2>1. ASSUME SourceIsText, LexInv, Lex PROVE LexerReadsOn
    <3>1. LexMoves
      BY <2>1, LexNextMoves DEF Lex, LexInv, SourceIsText
    <3> QED BY <3>1 DEF LexMoves, LexerReadsOn, InSource
  <2> QED BY <2>1 DEF LexerReadsOn
<1> QED BY <1>1, <1>2, <1>3, <1>4, <1>5, PTL DEF FrontSpec
-----------------------------------------------------------------------------
(* Which operator takes an operand.  What the parser sees of the tokens,   *)
(* as a value: what is said below of a caller or of a value is said of a   *)
(* view, which a step can only change by passing tokens.                   *)
View == [t |-> T, behind |-> Behind, typed |-> TypedAssigned]
Cut(v) == v.t = "?" /\ v.typed # {}

FoldedIn(e, bp, v) ==
    \/ v.behind = ")"
    \/ /\ BindsLeft(e, bp) /\ (BindsRight(e, LeftBp(v.t)) \/ (e.k = "assign" /\ Cut(v)))
       /\ e.k = "binary" => BinaryBp(e.op).l \in Nat
CompletesIn(e, f, v) ==
    /\ v.behind = ")" \/ BindsLeft(e, Asks(f))
    /\ LeftBp(v.t) < Asks(f) \/ (f.k = "Assign" /\ Cut(v))

(* The caller g asks for bp, and for an end of the operand at stop. *)
AskedBy(bp, stop, g, v) ==
    /\ bp \in Nat /\ g.k \notin {"Fold", "Concat"}
    /\ stop = "question" => g.k = "Assign" /\ bp = BP_ASSIGN.l /\ v.typed # {}
    /\ stop # "question" /\ g.k \in OperatorFrames => bp = Asks(g) /\ bp > 0 /\ stop = "none"

(* The caller f of an expression has g for a caller. *)
Between(f, g, v) ==
    /\ f.k = "Fold" => AskedBy(f.bp, f.stop, g, v)
    /\ f.k = "Infix" => g.k = "Fold" /\ BinaryBp(f.op).l >= g.bp /\ BinaryBp(f.op).l \in Nat
    /\ f.k \in {"Then", "Else"} => g.k = "Fold" /\ BP_TERNARY.l >= g.bp
    /\ f.k \in {"Concat", "Pipe", "Assign", "GetlinePlace", "GetlineFile", "Call", "Paren", "InList", "In"} =>
          g.k = "Fold"
    /\ f.k \in {"Unary", "Index"} => g.k \in {"Fold", "Incr", "In"}
    /\ f.k = "Incr" => g.k \in {"Fold", "Concat"}

Inside == ExprKinds \cup {"InList", "Call", "Index", "Items"}
Bound(fs, v) ==
    \A i \in 1 .. Len(fs) - 1 : (\A j \in 1 .. i : fs[j].k \in Inside) => Between(fs[i], fs[i + 1], v)

(* What runs, and the caller that waits for it. *)
Bears(c, g, v) ==
    /\ c.go = "give" => /\ g.k = "Fold" => FoldedIn(c.e, g.bp, v)
                        /\ g.k \in OperatorFrames => CompletesIn(c.e, g, v)
                        /\ g.k = "Concat" => c.e.k = "incr" /\ ~c.e.post
    /\ c.go = "fold" => AskedBy(c.bp, c.stop, g, v) /\ FoldedIn(c.e, c.bp, v)
    /\ c.go \in {"lhs", "file"} => g.k = "Fold"
    /\ c.go = "prefix" => g.k = "Fold" \/ (g.k = "Concat" /\ v.t \in SuffixTokens)
    /\ c.go = "place" => g.k \in {"Incr", "In"}

BindInv == pos >= 1 /\ (frames # <<>> => Bound(frames, View) /\ Bears(ctl, Top, View))

LEMMA BoundPush ==
    ASSUME NEW fs, NEW f, NEW v, Stream(fs), Bound(fs, v), fs # <<>> /\ f.k \in Inside => Between(f, fs[1], v)
    PROVE  Bound(<<f>> \o fs, v)
<1> DEFINE y == <<f>> \o fs
<1>1. /\ Len(y) = Len(fs) + 1 /\ y[1] = f /\ \A i \in 1 .. Len(fs) : y[i + 1] = fs[i]
      /\ Len(fs) \in Nat /\ (fs = <<>> <=> Len(fs) = 0)
  BY StreamPush, StreamFacts
<1> HIDE DEF y
<1>2. ASSUME NEW i \in 1 .. Len(y) - 1, \A j \in 1 .. i : y[j].k \in Inside
      PROVE  Between(y[i], y[i + 1], v)
  <2>1. i \in 1 .. Len(fs) /\ y[i + 1] = fs[i] /\ fs # <<>>
    BY <1>1
  <2>2. CASE i = 1
    BY <1>1, <1>2, <2>1, <2>2
  <2>3. CASE i # 1
    <3>1. PICK j \in 1 .. Len(fs) - 1 : i = j + 1
      BY <1>1, <2>1, <2>3
    <3>2. y[i] = fs[j] /\ fs[j + 1] = fs[i]
      BY <1>1, <3>1
    <3>3. \A m \in 1 .. j : fs[m].k \in Inside
      <4> TAKE m \in 1 .. j
      <4>1. m + 1 \in 1 .. i /\ y[m + 1] = fs[m]
        BY <1>1, <3>1
      <4> QED BY <1>2, <4>1
    <3> QED BY <2>1, <3>1, <3>2, <3>3 DEF Bound
  <2> QED BY <2>2, <2>3
<1> QED BY <1>2 DEF Bound, y

LEMMA BoundPop ==
    ASSUME NEW fs, NEW v, Stream(fs), fs # <<>>, Bound(fs, v), fs[1].k \in Inside
    PROVE  Bound(Tail(fs), v) /\ (Tail(fs) # <<>> => Between(fs[1], Tail(fs)[1], v))
<1> DEFINE y == Tail(fs)
<1>1. /\ Stream(y) /\ Len(y) = Len(fs) - 1 /\ Len(fs) \in Nat /\ Len(fs) >= 1
      /\ \A i \in 1 .. Len(fs) - 1 : y[i] = fs[i + 1]
  BY StreamPop
<1>2. y = <<>> <=> Len(y) = 0
  BY <1>1, StreamFacts
<1> HIDE DEF y
<1>3. ASSUME NEW i \in 1 .. Len(y) - 1, \A j \in 1 .. i : y[j].k \in Inside
      PROVE  Between(y[i], y[i + 1], v)
  <2> DEFINE n == i + 1
  <2>1. n \in 1 .. Len(fs) - 1 /\ y[i] = fs[n] /\ y[i + 1] = fs[n + 1]
    BY <1>1
  <2>2. \A j \in 1 .. n : fs[j].k \in Inside
    <3> TAKE j \in 1 .. n
    <3>1. CASE j = 1
      BY <3>1
    <3>2. CASE j # 1
      <4>1. PICK m \in 1 .. i : j = m + 1
        BY <1>1, <3>2
      <4>2. m \in 1 .. Len(fs) - 1
        BY <1>1, <4>1
      <4> QED BY <1>1, <1>3, <4>1, <4>2
    <3> QED BY <3>1, <3>2
  <2> HIDE DEF n
  <2> QED BY <2>1, <2>2 DEF Bound
<1>4. y # <<>> => Between(fs[1], y[1], v)
  <2>1. HAVE y # <<>>
  <2>2. 1 \in 1 .. Len(fs) - 1 /\ y[1] = fs[1 + 1] /\ \A j \in 1 .. 1 : fs[j].k \in Inside
    BY <1>1, <1>2, <2>1
  <2> QED BY <2>2 DEF Bound
<1> QED BY <1>3, <1>4 DEF Bound, y

LEMMA BoundOut == ASSUME NEW fs, NEW v, Stream(fs), fs = <<>> \/ fs[1].k \notin Inside PROVE Bound(fs, v)
<1> SUFFICES ASSUME NEW i \in 1 .. Len(fs) - 1, \A j \in 1 .. i : fs[j].k \in Inside PROVE FALSE
  BY DEF Bound
<1>1. 1 \in 1 .. i /\ fs # <<>>
  BY StreamFacts
<1> QED BY <1>1

LEMMA BoundLater ==
    ASSUME NEW fs, NEW v, NEW w, Bound(fs, v), v.typed \subseteq w.typed PROVE Bound(fs, w)
<1>1. \A f, g : Between(f, g, v) => Between(f, g, w)
  BY DEF Between, AskedBy
<1> QED BY <1>1 DEF Bound

LEMMA ViewFields == View.t = T /\ View.behind = Behind /\ View.typed = TypedAssigned
  BY DEF View

LEMMA ViewStays == ASSUME UNCHANGED lexvars, UNCHANGED pos PROVE View' = View
<1>1. UNCHANGED <<tokens, lexed>>
  BY DEF lexvars
<1> QED BY <1>1 DEF View, T, Behind, TokenAt, TypedAssigned

LEMMA ViewGrows ==
    ASSUME UNCHANGED lexvars, pos \in Nat, NEW n \in Nat, pos' = pos + n PROVE View.typed \subseteq (View').typed
<1>1. UNCHANGED <<tokens, lexed>>
  BY DEF lexvars
<1>2. TypedAssigned \subseteq TypedAssigned'
  <2> SUFFICES ASSUME NEW i \in TypedAssigned PROVE i \in TypedAssigned'
    OBVIOUS
  <2>1. i \in 2 .. pos - 1 /\ tokens[i].t = "TypedRegex" /\ tokens[i - 1].t = "="
    BY DEF TypedAssigned
  <2>2. i \in 2 .. pos' - 1
    BY <2>1
  <2> QED BY <1>1, <2>1, <2>2 DEF TypedAssigned
<1> QED BY <1>2 DEF View

(* A step goes on with c, and the caller that waits for it bears it. *)
LEMMA GoBinds ==
    ASSUME Here, BindInv, NEW c, NEW fs, NEW n, NEW ty, Go(c, fs, n, ty), n \in Nat, Bound(fs, View),
           fs # <<>> => Bears(c, fs[1], View')
    PROVE  BindInv'
<1>1. ctl' = c /\ frames' = fs /\ pos' = pos + n /\ UNCHANGED lexvars
  BY DEF Go
<1>2. Bound(fs, View')
  BY <1>1, ViewGrows, BoundLater DEF Here
<1>3. pos' >= 1
  BY <1>1 DEF Here, BindInv
<1> QED BY <1>1, <1>2, <1>3 DEF BindInv, Top

LEMMA StayBinds ==
    ASSUME Here, BindInv, NEW c, NEW fs, NEW ty, Go(c, fs, 0, ty), Bound(fs, View), fs # <<>> => Bears(c, fs[1], View)
    PROVE  BindInv'
<1>1. UNCHANGED lexvars /\ pos' = pos
  BY DEF Go, Here
<1>2. View' = View
  BY <1>1, ViewStays
<1> QED BY <1>2, GoBinds

LEMMA FailBinds == ASSUME Here, BindInv, Fail_ PROVE BindInv'
<1>1. Go(Failed, frames, 0, typed) /\ Failed.go = "failed"
  BY DEF Fail_, Failed
<1>2. Bears(Failed, frames[1], View)
  BY <1>1 DEF Bears
<1>3. Bound(frames, View)
  BY BoundOut DEF BindInv, Here, Running, CallStack
<1> QED BY <1>1, <1>2, <1>3, StayBinds

(* parse_expression is called with what the caller asks for. *)
LEMMA ParseBinds ==
    ASSUME Here, BindInv, NEW bp \in Nat, NEW fs, NEW n \in Nat, NEW ty, Parse(bp, fs, n, ty), Stream(fs),
           Bound(fs, View),
           fs # <<>> => /\ fs[1].k \notin {"Fold", "Concat"}
                        /\ fs[1].k \in OperatorFrames => bp = Asks(fs[1]) /\ bp > 0
    PROVE  BindInv'
<1> DEFINE f == Folding(bp, "none")
           c == Lhs(bp)
<1>1. f.k = "Fold" /\ f.bp = bp /\ f.stop = "none" /\ c.go = "lhs"
  BY DEF Folding, Lhs
<1>2. Go(c, <<f>> \o fs, n, ty)
  BY DEF Parse
<1> HIDE DEF f, c
<1>3. fs # <<>> => Between(f, fs[1], View)
  BY <1>1 DEF Between, AskedBy
<1>4. Bound(<<f>> \o fs, View)
  BY <1>3, BoundPush
<1>5. (<<f>> \o fs)[1] = f
  BY StreamPush
<1>6. Bears(c, (<<f>> \o fs)[1], View')
  BY <1>1, <1>5 DEF Bears
<1> QED BY <1>2, <1>4, <1>6, GoBinds

(* The same from a frame f that is put on fs. *)
LEMMA AskBinds ==
    ASSUME Here, BindInv, NEW bp \in Nat, NEW f, NEW fs, NEW n \in Nat, NEW ty, Parse(bp, <<f>> \o fs, n, ty),
           Stream(fs), Bound(fs, View), fs # <<>> /\ f.k \in Inside => Between(f, fs[1], View),
           f.k \notin {"Fold", "Concat"}, f.k \in OperatorFrames => bp = Asks(f) /\ bp > 0
    PROVE  BindInv'
<1>1. Bound(<<f>> \o fs, View)
  BY BoundPush
<1>2. Stream(<<f>> \o fs) /\ (<<f>> \o fs)[1] = f
  BY StreamPush
<1> QED BY <1>1, <1>2, ParseBinds

(* A list of items is asked for by the frame f that is put on fs. *)
LEMMA ItemsBind ==
    ASSUME Here, BindInv, NEW f, NEW fs, NEW n \in Nat, NEW ty, NEW es, NEW arg, Stream(fs), Bound(fs, View),
           fs # <<>> /\ f.k \in Inside => Between(f, fs[1], View),
           \/ Parse(0, <<Items(es, arg), f>> \o fs, n, ty)
           \/ ctl.go = "give" /\ Go(ctl, <<Items(es, arg), f>> \o fs, 0, ty)
    PROVE  BindInv'
<1> DEFINE g == Items(es, arg)
           gs == <<f>> \o fs
<1>1. g.k = "Items"
  BY DEF Items
<1>2. Stream(gs) /\ Bound(gs, View)
  BY StreamPush, BoundPush
<1>3. <<g, f>> \o fs = <<g>> \o gs
  BY PushBoth
<1> HIDE DEF g, gs
<1>4. Between(g, gs[1], View) /\ g.k \notin OperatorFrames
  BY <1>1 DEF Between, OperatorFrames
<1>5. CASE Parse(0, <<g, f>> \o fs, n, ty)
  <2>1. Parse(0, <<g>> \o gs, n, ty)
    BY <1>3, <1>5
  <2> QED BY <1>1, <1>2, <1>4, <2>1, AskBinds
<1>6. CASE ctl.go = "give" /\ Go(ctl, <<g, f>> \o fs, 0, ty)
  <2>1. Go(ctl, <<g>> \o gs, 0, ty)
    BY <1>3, <1>6
  <2>2. (<<g>> \o gs)[1] = g /\ Bound(<<g>> \o gs, View)
    BY <1>2, <1>4, StreamPush, BoundPush
  <2>3. Bears(ctl, g, View)
    BY <1>1, <1>4, <1>6 DEF Bears
  <2> QED BY <2>1, <2>2, <2>3, StayBinds
<1> QED BY <1>5, <1>6 DEF g

(* What the caller on top says of the one below. *)
LEMMA Held ==
    ASSUME Here, BindInv, frames # <<>>, Top.k \in Inside
    PROVE  /\ Stream(frames) /\ Bound(frames, View) /\ Bears(ctl, Top, View)
           /\ Stream(Tail(frames)) /\ Bound(Tail(frames), View)
           /\ Tail(frames) # <<>> => Between(Top, Tail(frames)[1], View)
<1>1. Stream(frames) /\ Bound(frames, View) /\ Bears(ctl, Top, View)
  BY DEF Here, Running, CallStack, BindInv
<1> QED BY <1>1, StreamPop, BoundPop DEF Top

LEMMA ReturnBinds ==
    ASSUME Here, BindInv, frames # <<>>, Top.k \in Inside, NEW e, NEW n \in Nat, Return(e, n),
           Tail(frames) # <<>> => Bears(Give(e), Tail(frames)[1], View')
    PROVE  BindInv'
  BY Held, GoBinds DEF Return

(* An operand that no operator takes apart. *)
Closed(e) == e.k \in {"atom", "index", "nested", "in", "call", "getline"} \/ (e.k = "incr" /\ ~e.post)
LEMMA ClosedFolds == ASSUME NEW e, Closed(e), NEW bp, NEW v PROVE FoldedIn(e, bp, v)
  BY DEF Closed, FoldedIn, BindsLeft, BindsRight

LEMMA ClosedBears ==
    ASSUME NEW e, Closed(e), NEW g, g.k \in {"Fold", "Incr", "In"}, NEW v PROVE Bears(Give(e), g, v)
<1>1. Give(e).go = "give" /\ Give(e).e = e
  BY DEF Give
<1> QED BY <1>1, ClosedFolds DEF Bears, OperatorFrames

(* An operand that is folded on. *)
LEMMA FoldedBears ==
    ASSUME NEW e, NEW g, NEW v, g.k = "Fold", FoldedIn(e, g.bp, v) PROVE Bears(Give(e), g, v)
<1>1. Give(e).go = "give" /\ Give(e).e = e
  BY DEF Give
<1> QED BY <1>1 DEF Bears, OperatorFrames

LEMMA UnderArgs == ASSUME Here, ctl.go \in {"args", "list"} PROVE frames # <<>>
<1>1. Sort(ctl.go) = "list" /\ ctl.go \notin {"failed", "panicked"}
  BY DEF Sort
<1> QED BY <1>1, Under

(* Where an expression is being parsed: the caller is inside one. *)
LEMMA WaitingInside ==
    ASSUME Here, BindInv, ctl.go \in {"lhs", "prefix", "place", "file"}
    PROVE  /\ frames # <<>> /\ Top.k \in Inside /\ Stream(frames) /\ Bound(frames, View) /\ Bears(ctl, Top, View)
           /\ ctl.go \in {"lhs", "file"} => Top.k = "Fold"
<1>1. frames # <<>>
  BY UnderExpr DEF ExprRuns
<1>2. Bears(ctl, Top, View)
  BY <1>1 DEF BindInv
<1>3. Top.k \in {"Fold", "Incr", "In", "Concat"} /\ (ctl.go \in {"lhs", "file"} => Top.k = "Fold")
  BY <1>2 DEF Bears
<1>4. Top.k \in Inside
  BY <1>3 DEF Inside, ExprKinds
<1> QED BY <1>1, <1>3, <1>4, Held

LEMMA ParenthesisBinds == ASSUME Here, BindInv, Parenthesis PROVE BindInv'
<1> DEFINE f == [k |-> "Paren", bp |-> ctl.bp]
<1>1. ctl.go = "lhs" /\ Parse(0, <<f>> \o frames, 1, FALSE)
  BY DEF Parenthesis, At
<1>2. f.k = "Paren"
  OBVIOUS
<1> HIDE DEF f
<1>3. Between(f, frames[1], View) /\ f.k \notin OperatorFrames
  BY <1>1, <1>2, WaitingInside DEF Between, Top, OperatorFrames
<1> QED BY <1>1, <1>2, <1>3, WaitingInside, AskBinds

LEMMA PrefixOperatorBinds == ASSUME Here, BindInv, PrefixOperator PROVE BindInv'
<1>1. ctl.go = "lhs" /\ Go(Enter("prefix"), frames, 0, typed)
  BY DEF PrefixOperator, At
<1>2. Bears(Enter("prefix"), frames[1], View)
  BY <1>1, WaitingInside DEF Bears, Enter, Top
<1> QED BY <1>1, <1>2, WaitingInside, StayBinds

LEMMA UnaryAsks == \A op : UnaryBp(op) \in Nat /\ UnaryBp(op) > 0
  BY DEF UnaryBp, BP_RECORD, BP_UNARY

LEMMA ParsePrefixBinds == ASSUME Here, BindInv, ParsePrefix PROVE BindInv'
<1>1. ctl.go = "prefix"
  BY DEF ParsePrefix, At
<1>2. Top.k = "Fold" \/ (Top.k = "Concat" /\ T \in SuffixTokens)
  BY <1>1, WaitingInside, ViewFields DEF Bears
<1>3. CASE T \in SuffixTokens
  <2> DEFINE f == [k |-> "Incr", op |-> T]
  <2>1. Go(Enter("place"), <<f>> \o frames, 1, FALSE) /\ f.k = "Incr"
    BY <1>3 DEF ParsePrefix
  <2> HIDE DEF f
  <2>2. Between(f, frames[1], View)
    BY <1>2, <2>1 DEF Between, Top
  <2>3. Bound(<<f>> \o frames, View) /\ (<<f>> \o frames)[1] = f
    BY <1>1, <2>2, WaitingInside, BoundPush, StreamPush
  <2>4. Bears(Enter("place"), f, View')
    BY <2>1 DEF Bears, Enter
  <2> QED BY <2>1, <2>3, <2>4, GoBinds
<1>4. CASE T \notin SuffixTokens
  <2> DEFINE f == [k |-> "Unary", op |-> T]
  <2>1. Parse(UnaryBp(T), <<f>> \o frames, 1, FALSE) /\ f.k = "Unary" /\ f.op = T
    BY <1>4 DEF ParsePrefix
  <2> HIDE DEF f
  <2>2. Between(f, frames[1], View) /\ Asks(f) = UnaryBp(T)
    BY <1>2, <1>4, <2>1 DEF Between, Top, Asks
  <2> QED BY <1>1, <2>1, <2>2, WaitingInside, UnaryAsks, AskBinds
<1> QED BY <1>3, <1>4

LEMMA GetlinePrefixBinds == ASSUME Here, BindInv, GetlinePrefix PROVE BindInv'
<1> DEFINE f == [k |-> "GetlinePlace"]
<1>1. ctl.go = "lhs" /\ f.k = "GetlinePlace"
  BY DEF GetlinePrefix, At
<1>2. CASE Parse(BP_CONCAT.r - 1, <<f>> \o frames, 1, FALSE)
  <2> HIDE DEF f
  <2>1. BP_CONCAT.r - 1 \in Nat /\ BP_CONCAT.r - 1 > 0
    BY DEF BP_CONCAT, BP
  <2>2. Between(f, frames[1], View) /\ Asks(f) = BP_CONCAT.r - 1
    BY <1>1, WaitingInside DEF Between, Top, Asks
  <2> QED BY <1>1, <1>2, <2>1, <2>2, WaitingInside, AskBinds
<1>3. CASE Go(File(<<>>), frames, 1, FALSE)
  <2>1. Bears(File(<<>>), frames[1], View')
    BY <1>1, WaitingInside DEF Bears, File, Top
  <2> QED BY <1>1, <1>3, <2>1, WaitingInside, GoBinds
<1> QED BY <1>2, <1>3 DEF GetlinePrefix

LEMMA GetlineFileBinds == ASSUME Here, BindInv, GetlineFile PROVE BindInv'
<1> DEFINE f == [k |-> "GetlineFile", p |-> ctl.p]
           e == GetlineOf("input", ctl.p, <<>>)
<1>1. ctl.go = "file" /\ f.k = "GetlineFile" /\ Closed(e)
  BY DEF GetlineFile, At, Closed, GetlineOf
<1>2. CASE Parse(BP_CMP.r, <<f>> \o frames, 1, typed)
  <2> HIDE DEF f
  <2>1. BP_CMP.r \in Nat
    BY DEF BP_CMP, BP
  <2>2. Between(f, frames[1], View) /\ f.k \notin OperatorFrames
    BY <1>1, WaitingInside DEF Between, Top, OperatorFrames
  <2> QED BY <1>1, <1>2, <2>1, <2>2, WaitingInside, AskBinds
<1>3. CASE Go(Give(e), frames, 0, typed)
  <2>1. Bears(Give(e), frames[1], View)
    BY <1>1, WaitingInside, ClosedBears DEF Top
  <2> QED BY <1>1, <1>3, <2>1, WaitingInside, StayBinds
<1> QED BY <1>2, <1>3 DEF GetlineFile

LEMMA AtomOrCallBinds == ASSUME Here, BindInv, AtomOrCall PROVE BindInv'
<1>1. ctl.go = "lhs"
  BY DEF AtomOrCall, At
<1>2. ASSUME NEW e, e.k = "atom", Go(Give(e), frames, 1, typed) PROVE BindInv'
  <2>1. Bears(Give(e), frames[1], View')
    BY <1>1, <1>2, WaitingInside, ClosedBears DEF Closed, Top
  <2> QED BY <1>1, <1>2, <2>1, WaitingInside, GoBinds
<1>3. ASSUME NEW f, f.k = "Call", Go(Enter("args"), <<f>> \o frames, 2, typed) PROVE BindInv'
  <2>1. Between(f, frames[1], View)
    BY <1>1, <1>3, WaitingInside DEF Between, Top
  <2>2. Bound(<<f>> \o frames, View)
    BY <1>1, <2>1, WaitingInside, BoundPush
  <2>3. \A g : Bears(Enter("args"), g, View')
    BY DEF Bears, Enter
  <2> QED BY <1>3, <2>2, <2>3, GoBinds
<1>4. \A a, s : Atom(a, s).k = "atom"
  BY DEF Atom
<1>5. VariableOf(tokens[pos]).k = "atom"
  BY <1>4 DEF VariableOf
<1>6. \/ Go(Enter("args"), <<[k |-> "Call", how |-> T, name |-> NameOf(tokens[pos]), typed |-> typed]>> \o frames,
            2, typed)
      \/ Go(Give(VariableOf(tokens[pos])), frames, 1, typed)
      \/ Go(Give(Atom(T, tokens[pos].s)), frames, 1, typed)
      \/ Fail_
  BY DEF AtomOrCall
<1> QED BY <1>2, <1>3, <1>4, <1>5, <1>6, FailBinds

LEMMA ParseArgsBinds == ASSUME Here, BindInv, ParseArgs PROVE BindInv'
<1>1. ctl.go = "args" /\ frames # <<>>
  BY UnderArgs DEF ParseArgs, At
<1>2. Stream(frames) /\ Bound(frames, View)
  BY <1>1 DEF BindInv, Here, Running, CallStack
<1>3. CASE Go(GiveList(<<>>), frames, 0, typed)
  <2>1. Bears(GiveList(<<>>), frames[1], View)
    BY DEF Bears, GiveList
  <2> QED BY <1>2, <1>3, <2>1, StayBinds
<1>4. CASE Parse(0, <<Items(<<>>, TRUE)>> \o frames, 0, TRUE)
  <2> DEFINE f == Items(<<>>, TRUE)
  <2>1. f.k = "Items"
    BY DEF Items
  <2> HIDE DEF f
  <2>2. Between(f, frames[1], View) /\ f.k \notin OperatorFrames
    BY <2>1 DEF Between, OperatorFrames
  <2> QED BY <1>2, <1>4, <2>1, <2>2, AskBinds DEF f
<1> QED BY <1>3, <1>4 DEF ParseArgs

LEMMA ParsePlaceBinds == ASSUME Here, BindInv, ParsePlace PROVE BindInv'
<1> DEFINE v == VariableOf(tokens[pos])
           f == [k |-> "Unary", op |-> "$"]
           g == Indexing(v, TRUE)
<1>1. ctl.go = "place"
  BY DEF ParsePlace, At
<1>2. Top.k \in {"Incr", "In"}
  BY <1>1, WaitingInside DEF Bears
<1>3. v.k = "atom" /\ f.k = "Unary" /\ f.op = "$" /\ g.k = "Index"
  BY DEF VariableOf, Atom, Indexing
<1>4. \/ Parse(BP_RECORD, <<f>> \o frames, 1, typed)
      \/ Parse(0, <<Items(<<>>, FALSE), g>> \o frames, 2, typed)
      \/ Go(Give(v), frames, 1, typed)
      \/ Fail_
  BY DEF ParsePlace
<1> HIDE DEF v, f, g
<1>5. CASE Parse(BP_RECORD, <<f>> \o frames, 1, typed)
  <2>1. Between(f, frames[1], View) /\ Asks(f) = BP_RECORD /\ BP_RECORD \in Nat /\ BP_RECORD > 0
    BY <1>2, <1>3 DEF Between, Top, Asks, UnaryBp, BP_RECORD
  <2> QED BY <1>1, <1>3, <1>5, <2>1, WaitingInside, AskBinds
<1>6. CASE Parse(0, <<Items(<<>>, FALSE), g>> \o frames, 2, typed)
  <2>1. Between(g, frames[1], View)
    BY <1>2, <1>3 DEF Between, Top
  <2> QED BY <1>1, <1>6, <2>1, WaitingInside, ItemsBind
<1>7. CASE Go(Give(v), frames, 1, typed)
  <2>1. Bears(Give(v), frames[1], View')
    BY <1>2, <1>3, ClosedBears DEF Closed, Top
  <2> QED BY <1>1, <1>7, <2>1, WaitingInside, GoBinds
<1> QED BY <1>4, <1>5, <1>6, <1>7, FailBinds

LEMMA LhsMissingBinds == ASSUME Here, BindInv, LhsMissing PROVE BindInv'
  BY FailBinds DEF LhsMissing

LEMMA LhsBinds == ASSUME Here, BindInv, ParseLhs PROVE BindInv'
  BY ParenthesisBinds, PrefixOperatorBinds, ParsePrefixBinds, GetlinePrefixBinds, GetlineFileBinds, AtomOrCallBinds,
     LhsMissingBinds, ParseArgsBinds, ParsePlaceBinds DEF ParseLhs

(* The rest of the functions that wait for an expression. *)
LEMMA FoldOnBinds == ASSUME Here, BindInv, FoldOn PROVE BindInv'
<1> DEFINE c == Fold(Top.bp, Top.stop, ctl.e)
<1>1. ctl.go = "give" /\ Top.k = "Fold" /\ Go(c, Tail(frames), 0, typed)
  BY DEF FoldOn, Given, At
<1>2. frames # <<>> /\ Top.k \in Inside
  BY <1>1, UnderExpr DEF ExprRuns, Inside, ExprKinds
<1>3. Tail(frames) # <<>> => AskedBy(Top.bp, Top.stop, Tail(frames)[1], View)
  BY <1>1, <1>2, Held DEF Between
<1>4. FoldedIn(ctl.e, Top.bp, View)
  BY <1>1, <1>2, Held DEF Bears
<1>5. c.go = "fold" /\ c.bp = Top.bp /\ c.stop = Top.stop /\ c.e = ctl.e
  BY DEF Fold
<1> HIDE DEF c
<1>6. Tail(frames) # <<>> => Bears(c, Tail(frames)[1], View)
  BY <1>3, <1>4, <1>5 DEF Bears
<1> QED BY <1>1, <1>2, <1>6, Held, StayBinds

(* A value is given to a caller inside an expression. *)
LEMMA GivenInside ==
    ASSUME Here, BindInv, ctl.go = "give", Top.k \in Inside
    PROVE  /\ frames # <<>> /\ Stream(Tail(frames)) /\ Bound(Tail(frames), View) /\ Bears(ctl, Top, View)
           /\ Tail(frames) # <<>> => Between(Top, Tail(frames)[1], View)
           /\ Top.k \in OperatorFrames => CompletesIn(ctl.e, Top, View)
<1>1. frames # <<>>
  BY UnderExpr DEF ExprRuns
<1> QED BY <1>1, Held DEF Bears

(* What is made of it goes to the next caller. *)
LEMMA ClosedReturns ==
    ASSUME Here, BindInv, frames # <<>>, NEW e, Closed(e), NEW n \in Nat, Return(e, n),
           Top.k \in {"In", "GetlinePlace", "GetlineFile", "Pipe", "Index", "Call"}
    PROVE  BindInv'
<1>1. Top.k \in Inside
  BY DEF Inside, ExprKinds
<1>2. Tail(frames) # <<>> => Tail(frames)[1].k \in {"Fold", "Incr", "In"}
  BY <1>1, Held DEF Between
<1> QED BY <1>1, <1>2, ClosedBears, ReturnBinds

LEMMA FoldedReturns ==
    ASSUME Here, BindInv, frames # <<>>, Top.k \in Inside, NEW e, Return(e, 0),
           Tail(frames) # <<>> => Tail(frames)[1].k = "Fold" /\ FoldedIn(e, Tail(frames)[1].bp, View)
    PROVE  BindInv'
<1>1. UNCHANGED lexvars /\ pos' = pos
  BY DEF Return, Go, Here
<1>2. View' = View
  BY <1>1, ViewStays
<1>3. Tail(frames) # <<>> => Bears(Give(e), Tail(frames)[1], View')
  BY <1>2, FoldedBears
<1> QED BY <1>3, ReturnBinds

LEMMA OperatorsInside == OperatorFrames \subseteq Inside
  BY DEF OperatorFrames, Inside, ExprKinds

LEMMA UnaryDoneBinds == ASSUME Here, BindInv, UnaryDone PROVE BindInv'
<1> DEFINE e == UnaryOf(Top.op, ctl.e)
<1>1. ctl.go = "give" /\ Top.k = "Unary" /\ Return(e, 0)
  BY DEF UnaryDone, Given, At
<1>2. Top.k \in Inside /\ Top.k \in OperatorFrames
  BY <1>1, OperatorsInside DEF OperatorFrames
<1>3. LeftBp(View.t) < UnaryBp(Top.op)
  BY <1>1, <1>2, GivenInside DEF CompletesIn, Asks
<1>4. e.k = "unary" /\ e.op = Top.op
  BY DEF UnaryOf
<1> HIDE DEF e
<1>5. \A bp : FoldedIn(e, bp, View)
  BY <1>3, <1>4 DEF FoldedIn, BindsLeft, BindsRight
<1>6. UNCHANGED lexvars /\ pos' = pos
  BY <1>1 DEF Return, Go, Here
<1>7. View' = View
  BY <1>6, ViewStays
<1>8. Tail(frames) # <<>> => Tail(frames)[1].k \in {"Fold", "Incr", "In"}
  BY <1>1, <1>2, GivenInside DEF Between
<1>9. Give(e).go = "give" /\ Give(e).e = e
  BY DEF Give
<1>10. Tail(frames) # <<>> => Bears(Give(e), Tail(frames)[1], View')
  BY <1>5, <1>7, <1>8, <1>9 DEF Bears, OperatorFrames
<1> QED BY <1>1, <1>2, <1>10, GivenInside, ReturnBinds

LEMMA IncrDoneBinds == ASSUME Here, BindInv, IncrDone PROVE BindInv'
<1> DEFINE e == IncrOf(Top.op, FALSE, ctl.e)
<1>1. ctl.go = "give" /\ Top.k = "Incr" /\ Return(e, 0)
  BY DEF IncrDone, Given, At
<1>2. Top.k \in Inside
  BY <1>1 DEF Inside, ExprKinds
<1>3. e.k = "incr" /\ ~e.post
  BY DEF IncrOf
<1>4. Give(e).go = "give" /\ Give(e).e = e
  BY DEF Give
<1> HIDE DEF e
<1>5. Tail(frames) # <<>> => Tail(frames)[1].k \in {"Fold", "Concat"}
  BY <1>1, <1>2, GivenInside DEF Between
<1>6. \A bp : FoldedIn(e, bp, View')
  BY <1>3, ClosedFolds DEF Closed
<1>7. Tail(frames) # <<>> => Bears(Give(e), Tail(frames)[1], View')
  BY <1>3, <1>4, <1>5, <1>6 DEF Bears, OperatorFrames
<1> QED BY <1>1, <1>2, <1>7, GivenInside, ReturnBinds

LEMMA ParenDoneBinds == ASSUME Here, BindInv, ParenDone PROVE BindInv'
<1> DEFINE f == [k |-> "InList"]
           fs == Tail(frames)
<1>1. ctl.go = "give" /\ Top.k = "Paren" /\ f.k = "InList"
  BY DEF ParenDone, Given, At
<1>2. Top.k \in Inside
  BY <1>1 DEF Inside, ExprKinds
<1>3. fs # <<>> => fs[1].k = "Fold"
  BY <1>1, <1>2, GivenInside DEF Between
<1>4. \/ Go(ctl, <<Items(<<>>, FALSE), f>> \o fs, 0, typed)
      \/ T = ")" /\ Return(ctl.e, 1)
      \/ Fail_
  BY DEF ParenDone
<1>5. CASE Go(ctl, <<Items(<<>>, FALSE), f>> \o fs, 0, typed)
  <2>1. Stream(fs) /\ Bound(fs, View)
    BY <1>1, <1>2, GivenInside
  <2> HIDE DEF f, fs
  <2>2. fs # <<>> /\ f.k \in Inside => Between(f, fs[1], View)
    BY <1>1, <1>3 DEF Between
  <2> QED BY <1>1, <1>5, <2>1, <2>2, ItemsBind
<1>6. CASE T = ")" /\ Return(ctl.e, 1)
  <2>1. pos' = pos + 1 /\ UNCHANGED <<tokens, lexed>> /\ pos \in Nat /\ pos >= 1
    BY <1>6 DEF Return, Go, lexvars, Here, BindInv
  <2>3. pos' > 1 /\ pos' - 1 = pos
    BY <2>1
  <2>4. Behind' = ")"
    BY <1>6, <2>1, <2>3 DEF Behind, T, TokenAt
  <2>5. (View').behind = ")"
    BY <2>4 DEF View
  <2>6. \A e, bp : FoldedIn(e, bp, View')
    BY <2>5 DEF FoldedIn
  <2>7. fs # <<>> => Bears(Give(ctl.e), fs[1], View')
    BY <1>3, <2>6, FoldedBears
  <2> QED BY <1>1, <1>2, <1>6, <2>7, GivenInside, ReturnBinds
<1> QED BY <1>4, <1>5, <1>6, FailBinds

(* The binding power of an operator token: every one is positive, and only *)
(* an assignment has less than 4.                                          *)
LEMMA OperatorBp ==
    ASSUME NEW op \in InfixTokens \cup {Concat}
    PROVE  BinaryBp(op).l \in Nat /\ BinaryBp(op).r \in Nat /\ BinaryBp(op).l > 4 /\ BinaryBp(op).r > 4
<1>1. /\ BP_CONCAT.l = 16 /\ BP_CONCAT.r = 17 /\ BP_CMP.l = 14 /\ BP_CMP.r = 15 /\ BP_AND.l = 8 /\ BP_AND.r = 9
      /\ BP_OR.l = 6 /\ BP_OR.r = 7 /\ BP_MATCH.l = 12 /\ BP_MATCH.r = 13
      /\ BP_ADDITION.l = 18 /\ BP_ADDITION.r = 19 /\ BP_MULTI.l = 20 /\ BP_MULTI.r = 21
      /\ BP_RAISE.l = 27 /\ BP_RAISE.r = 26
  BY DEF BP, BP_CONCAT, BP_CMP, BP_AND, BP_OR, BP_MATCH, BP_ADDITION, BP_MULTI, BP_RAISE
<1>2. BinaryBp(op) \in {BP_CONCAT, BP_CMP, BP_AND, BP_OR, BP_MATCH, BP_ADDITION, BP_MULTI, BP_RAISE}
  BY DEF BinaryBp, InfixTokens, CmpOps, MatchOps, Concat
<1> QED BY <1>1, <1>2

LEMMA ConcatBp == BinaryBp(Concat).l = 16 /\ BinaryBp(Concat).r = 17
<1>1. BinaryBp(Concat) = BP_CONCAT
  BY DEF BinaryBp, Concat, CmpOps, MatchOps
<1> QED BY <1>1 DEF BP_CONCAT, BP

LEMMA TokenOperator == \A t : BinaryOperator(t) \in InfixTokens \cup {Concat}
  BY DEF BinaryOperator

LEMMA LeftBpNat == ASSUME NEW t PROVE LeftBp(t) \in Nat /\ (LeftBp(t) < 2 => LeftBp(t) = 0)
<1>1. BinaryBp(BinaryOperator(t)).l \in Nat /\ BinaryBp(BinaryOperator(t)).l > 4
  BY OperatorBp, TokenOperator
<1>2. BP_TERNARY.l = 4 /\ BP_CONCAT.l = 16 /\ BP_IN.l = 10 /\ BP_ASSIGN.l = 2
  BY DEF BP, BP_TERNARY, BP_CONCAT, BP_IN, BP_ASSIGN
<1>3. LeftBp(t) \in {BP_INC_DEC, BinaryBp(BinaryOperator(t)).l, BP_TERNARY.l, BP_CONCAT.l, BP_IN.l, BP_ASSIGN.l,
                     BP_GROUPING, 0}
  BY DEF LeftBp
<1> QED BY <1>1, <1>2, <1>3 DEF BP_INC_DEC, BP_GROUPING

LEMMA ListInside ==
    ASSUME Here, BindInv, ctl.go = "list", Top.k \in {"InList", "Call", "Index"}
    PROVE  /\ frames # <<>> /\ Top.k \in Inside /\ Stream(Tail(frames)) /\ Bound(Tail(frames), View)
           /\ Tail(frames) # <<>> => Between(Top, Tail(frames)[1], View)
<1>1. frames # <<>> /\ Top.k \in Inside
  BY UnderArgs DEF Inside
<1> QED BY <1>1, Held

LEMMA InListDoneBinds == ASSUME Here, BindInv, InListDone PROVE BindInv'
<1> DEFINE f == [k |-> "In", es |-> ctl.es]
           fs == Tail(frames)
<1>1. ctl.go = "list" /\ Top.k = "InList" /\ f.k = "In"
  BY DEF InListDone, GivenList, At
<1>2. CASE Go(Enter("place"), <<f>> \o fs, 2, typed)
  <2>1. Stream(fs) /\ Bound(fs, View)
    BY <1>1, ListInside
  <2>2. fs # <<>> => Between(f, fs[1], View)
    BY <1>1, ListInside DEF Between
  <2> HIDE DEF f, fs
  <2>3. Bound(<<f>> \o fs, View) /\ (<<f>> \o fs)[1] = f
    BY <2>1, <2>2, BoundPush, StreamPush
  <2>4. Bears(Enter("place"), f, View')
    BY <1>1 DEF Bears, Enter
  <2> QED BY <1>2, <2>3, <2>4, GoBinds
<1>3. Go(Enter("place"), <<f>> \o fs, 2, typed) \/ Fail_
  BY DEF InListDone
<1> QED BY <1>2, <1>3, FailBinds

LEMMA InDoneBinds == ASSUME Here, BindInv, InDone PROVE BindInv'
<1> DEFINE e == InOf(ctl.e, Top.es)
<1>1. ctl.go = "give" /\ Top.k = "In" /\ (Return(e, 0) \/ Fail_)
  BY DEF InDone, Given, At
<1>2. Closed(e)
  BY DEF Closed, InOf
<1>3. frames # <<>>
  BY <1>1, UnderExpr DEF ExprRuns
<1> QED BY <1>1, <1>2, <1>3, ClosedReturns, FailBinds

LEMMA NextItemBinds == ASSUME Here, BindInv, NextItem PROVE BindInv'
<1> DEFINE es == Append(Top.es, ctl.e)
           f == Items(es, Top.arg)
           ty == Top.arg \/ typed
           fs == Tail(frames)
<1>1. ctl.go = "give" /\ Top.k = "Items" /\ f.k = "Items"
  BY DEF NextItem, Given, At, Items
<1>2. Top.k \in Inside
  BY <1>1 DEF Inside
<1>3. Stream(fs) /\ Bound(fs, View)
  BY <1>1, <1>2, GivenInside
<1>4. Parse(0, <<f>> \o fs, 1, ty) \/ Go(GiveList(es), fs, 0, typed)
  BY DEF NextItem
<1>5. CASE Parse(0, <<f>> \o fs, 1, ty)
  <2> HIDE DEF f, fs, ty
  <2>1. Between(f, fs[1], View) /\ f.k \notin OperatorFrames
    BY <1>1 DEF Between, OperatorFrames
  <2> QED BY <1>1, <1>3, <1>5, <2>1, AskBinds
<1>6. CASE Go(GiveList(es), fs, 0, typed)
  <2>1. Bears(GiveList(es), fs[1], View)
    BY DEF Bears, GiveList
  <2> QED BY <1>3, <1>6, <2>1, StayBinds
<1> QED BY <1>4, <1>5, <1>6

LEMMA CallDoneBinds == ASSUME Here, BindInv, CallDone PROVE BindInv'
<1> DEFINE e == CallOf(Top.how, Top.name, ctl.es)
<1>1. ctl.go = "list" /\ Top.k = "Call" /\ (Go(Give(e), Tail(frames), 1, Top.typed) \/ Fail_)
  BY DEF CallDone, GivenList, At
<1>2. CASE Go(Give(e), Tail(frames), 1, Top.typed)
  <2>1. Closed(e)
    BY DEF Closed, CallOf
  <2>2. Tail(frames) # <<>> => Tail(frames)[1].k = "Fold"
    BY <1>1, ListInside DEF Between
  <2>3. Tail(frames) # <<>> => Bears(Give(e), Tail(frames)[1], View')
    BY <2>1, <2>2, ClosedBears
  <2> QED BY <1>1, <1>2, <2>3, ListInside, GoBinds
<1> QED BY <1>1, <1>2, FailBinds

LEMMA IndexDoneBinds == ASSUME Here, BindInv, IndexDone PROVE BindInv'
<1> DEFINE x == IF IsVariable(Top.v) THEN IndexOf(Top.v, ctl.es) ELSE NestedOf(Top.v, ctl.es)
           f == Indexing(x, TRUE)
           fs == Tail(frames)
<1>1. ctl.go = "list" /\ Top.k = "Index"
  BY DEF IndexDone, GivenList, At
<1>2. \/ Parse(0, <<Items(<<>>, FALSE), f>> \o fs, 2, typed)
      \/ Return(x, 1)
      \/ Fail_
  BY DEF IndexDone
<1>3. CASE Parse(0, <<Items(<<>>, FALSE), f>> \o fs, 2, typed)
  <2>1. f.k = "Index"
    BY DEF Indexing
  <2>2. Stream(fs) /\ Bound(fs, View)
    BY <1>1, ListInside
  <2>3. fs # <<>> => fs[1].k \in {"Fold", "Incr", "In"}
    BY <1>1, ListInside DEF Between
  <2> HIDE DEF f, fs
  <2>4. fs # <<>> => Between(f, fs[1], View)
    BY <2>1, <2>3 DEF Between
  <2> QED BY <1>3, <2>2, <2>4, ItemsBind
<1>4. CASE Return(x, 1)
  <2>1. Closed(x)
    BY DEF Closed, IndexOf, NestedOf
  <2>2. frames # <<>>
    BY <1>1, ListInside
  <2> QED BY <1>1, <1>4, <2>1, <2>2, ClosedReturns
<1> QED BY <1>2, <1>3, <1>4, FailBinds

(* What follows a getline is concatenated with it. *)
LEMMA GetlineConcat ==
    ASSUME NEW g, g.k = "getline", NEW e, NEW bp, NEW v, LeftBp(v.t) < BP_CONCAT.r - 1
    PROVE  FoldedIn(BinaryOf(Concat, g, e), bp, v)
<1> DEFINE b == BinaryOf(Concat, g, e)
<1>1. b.k = "binary" /\ b.op = Concat /\ b.l.k = "getline"
  BY DEF BinaryOf
<1> HIDE DEF b
<1>2. BindsLeft(b, bp)
  BY <1>1 DEF BindsLeft
<1>3. LeftBp(v.t) \in Nat
  BY LeftBpNat
<1>4. LeftBp(v.t) < 16
  BY <1>3 DEF BP_CONCAT, BP
<1>5. BinaryBp(b.op).r > LeftBp(v.t) /\ BinaryBp(b.op).l \in Nat
  BY <1>1, <1>3, <1>4, ConcatBp
<1>6. BindsRight(b, LeftBp(v.t))
  BY <1>1, <1>5 DEF BindsRight
<1> QED BY <1>2, <1>5, <1>6 DEF FoldedIn, b

LEMMA GetlinePlaceDoneBinds == ASSUME Here, BindInv, GetlinePlaceDone PROVE BindInv'
<1> DEFINE g == GetlineOf("input", <<>>, <<>>)
           e == BinaryOf(Concat, g, ctl.e)
<1>1. ctl.go = "give" /\ Top.k = "GetlinePlace" /\ (Go(File(<<ctl.e>>), Tail(frames), 0, typed) \/ Return(e, 0))
  BY DEF GetlinePlaceDone, Given, At
<1>2. Top.k \in Inside /\ Top.k \in OperatorFrames
  BY <1>1, OperatorsInside DEF OperatorFrames
<1>3. Tail(frames) # <<>> => Tail(frames)[1].k = "Fold"
  BY <1>1, <1>2, GivenInside DEF Between
<1>4. CASE Go(File(<<ctl.e>>), Tail(frames), 0, typed)
  <2>1. Tail(frames) # <<>> => Bears(File(<<ctl.e>>), Tail(frames)[1], View)
    BY <1>3 DEF Bears, File
  <2> QED BY <1>1, <1>2, <1>4, <2>1, GivenInside, StayBinds
<1>5. CASE Return(e, 0)
  <2>1. LeftBp(View.t) < BP_CONCAT.r - 1
    BY <1>1, <1>2, GivenInside DEF CompletesIn, Asks
  <2>2. \A bp : FoldedIn(e, bp, View)
    BY <2>1, GetlineConcat DEF GetlineOf
  <2> HIDE DEF e
  <2> QED BY <1>1, <1>2, <1>3, <1>5, <2>2, GivenInside, FoldedReturns
<1> QED BY <1>1, <1>4, <1>5

LEMMA GetlineFileDoneBinds == ASSUME Here, BindInv, GetlineFileDone PROVE BindInv'
<1> DEFINE e == GetlineOf("file", Top.p, <<ctl.e>>)
<1>1. ctl.go = "give" /\ Top.k = "GetlineFile" /\ Return(e, 0)
  BY DEF GetlineFileDone, Given, At
<1>2. Closed(e) /\ frames # <<>>
  BY <1>1, UnderExpr DEF Closed, GetlineOf, ExprRuns
<1> QED BY <1>1, <1>2, ClosedReturns

LEMMA PipeDoneBinds == ASSUME Here, BindInv, PipeDone PROVE BindInv'
<1> DEFINE x == GetlineOf(Top.op, <<ctl.e>>, <<Top.l>>)
           g == GetlineOf(Top.op, <<>>, <<Top.l>>)
           e == BinaryOf(Concat, g, ctl.e)
<1>1. ctl.go = "give" /\ Top.k = "Pipe" /\ (Return(x, 0) \/ Return(e, 0))
  BY DEF PipeDone, Given, At
<1>2. Top.k \in Inside /\ Top.k \in OperatorFrames
  BY <1>1, OperatorsInside DEF OperatorFrames
<1>3. CASE Return(x, 0)
  <2>1. Closed(x) /\ frames # <<>>
    BY <1>1, UnderExpr DEF Closed, GetlineOf, ExprRuns
  <2> QED BY <1>1, <1>3, <2>1, ClosedReturns
<1>4. CASE Return(e, 0)
  <2>1. Tail(frames) # <<>> => Tail(frames)[1].k = "Fold"
    BY <1>1, <1>2, GivenInside DEF Between
  <2>2. LeftBp(View.t) < BP_CONCAT.r - 1
    BY <1>1, <1>2, GivenInside DEF CompletesIn, Asks
  <2>3. \A bp : FoldedIn(e, bp, View)
    BY <2>2, GetlineConcat DEF GetlineOf
  <2> HIDE DEF e
  <2> QED BY <1>1, <1>2, <1>4, <2>1, <2>3, GivenInside, FoldedReturns
<1> QED BY <1>1, <1>3, <1>4

LEMMA ConcatDoneBinds == ASSUME Here, BindInv, ConcatDone PROVE BindInv'
<1> DEFINE e == BinaryOf(Concat, Top.l, ctl.e)
<1>1. ctl.go = "give" /\ Top.k = "Concat" /\ Return(e, 0)
  BY DEF ConcatDone, Given, At
<1>2. Top.k \in Inside
  BY <1>1 DEF Inside, ExprKinds
<1>3. e.k = "binary" /\ e.op = Concat /\ e.r.k = "incr" /\ ~e.r.post
  BY <1>1, <1>2, GivenInside DEF Bears, BinaryOf
<1>4. Tail(frames) # <<>> => Tail(frames)[1].k = "Fold"
  BY <1>1, <1>2, GivenInside DEF Between
<1> HIDE DEF e
<1>5. \A bp : FoldedIn(e, bp, View)
  BY <1>3, ConcatBp DEF FoldedIn, BindsLeft, BindsRight, Prefixed
<1> QED BY <1>1, <1>2, <1>4, <1>5, GivenInside, FoldedReturns

LEMMA InfixDoneBinds == ASSUME Here, BindInv, InfixDone PROVE BindInv'
<1> DEFINE r == IF Top.op \in MatchOps /\ ctl.e.k = "atom" /\ ctl.e.a = "Regex"
                THEN Atom("TypedRegex", ctl.e.s) ELSE ctl.e
           e == BinaryOf(Top.op, Top.l, r)
           g == Tail(frames)[1]
<1>1. ctl.go = "give" /\ Top.k = "Infix" /\ Return(e, 0)
  BY DEF InfixDone, Given, At
<1>2. Top.k \in Inside /\ Top.k \in OperatorFrames
  BY <1>1, OperatorsInside DEF OperatorFrames
<1>3. e.k = "binary" /\ e.op = Top.op
  BY DEF BinaryOf
<1>4. LeftBp(View.t) < BinaryBp(Top.op).r
  BY <1>1, <1>2, GivenInside DEF CompletesIn, Asks
<1>5. Tail(frames) # <<>> => g.k = "Fold" /\ BinaryBp(Top.op).l >= g.bp /\ BinaryBp(Top.op).l \in Nat
  BY <1>1, <1>2, GivenInside DEF Between
<1> HIDE DEF e, g
<1>6. Tail(frames) # <<>> => FoldedIn(e, g.bp, View)
  BY <1>3, <1>4, <1>5 DEF FoldedIn, BindsLeft, BindsRight
<1> QED BY <1>1, <1>2, <1>5, <1>6, GivenInside, FoldedReturns DEF g

LEMMA AssignDoneBinds == ASSUME Here, BindInv, AssignDone PROVE BindInv'
<1> DEFINE e == AssignOf(Top.op, Top.p, ctl.e)
<1>1. ctl.go = "give" /\ Top.k = "Assign" /\ Return(e, 0)
  BY DEF AssignDone, Given, At
<1>2. Top.k \in Inside /\ Top.k \in OperatorFrames
  BY <1>1, OperatorsInside DEF OperatorFrames
<1>3. e.k = "assign"
  BY DEF AssignOf
<1>4. LeftBp(View.t) < BP_ASSIGN.r \/ Cut(View)
  BY <1>1, <1>2, GivenInside DEF CompletesIn, Asks
<1>5. Tail(frames) # <<>> => Tail(frames)[1].k = "Fold"
  BY <1>1, <1>2, GivenInside DEF Between
<1> HIDE DEF e
<1>6. \A bp : FoldedIn(e, bp, View)
  BY <1>3, <1>4 DEF FoldedIn, BindsLeft, BindsRight
<1> QED BY <1>1, <1>2, <1>5, <1>6, GivenInside, FoldedReturns

LEMMA TernaryAsks == BP_TERNARY.r \in Nat /\ BP_TERNARY.r > 0 /\ BP_TERNARY.l \in Nat
  BY DEF BP_TERNARY, BP

LEMMA ThenDoneBinds == ASSUME Here, BindInv, ThenDone PROVE BindInv'
<1> DEFINE f == [k |-> "Else", c |-> Top.c, t |-> ctl.e]
           fs == Tail(frames)
<1>1. ctl.go = "give" /\ Top.k = "Then" /\ f.k = "Else"
  BY DEF ThenDone, Given, At
<1>2. Parse(BP_TERNARY.r, <<f>> \o fs, 1, typed) \/ Fail_
  BY DEF ThenDone
<1>3. CASE Parse(BP_TERNARY.r, <<f>> \o fs, 1, typed)
  <2>1. Top.k \in Inside
    BY <1>1 DEF Inside, ExprKinds
  <2>2. Stream(fs) /\ Bound(fs, View) /\ (fs # <<>> => fs[1].k = "Fold" /\ BP_TERNARY.l >= fs[1].bp)
    BY <1>1, <2>1, GivenInside DEF Between
  <2> HIDE DEF f, fs
  <2>3. (fs # <<>> => Between(f, fs[1], View)) /\ Asks(f) = BP_TERNARY.r
    BY <1>1, <2>2 DEF Between, Asks
  <2> QED BY <1>1, <1>3, <2>2, <2>3, TernaryAsks, AskBinds
<1> QED BY <1>2, <1>3, FailBinds

LEMMA ElseDoneBinds == ASSUME Here, BindInv, ElseDone PROVE BindInv'
<1> DEFINE e == TernaryOf(Top.c, Top.t, ctl.e)
           g == Tail(frames)[1]
<1>1. ctl.go = "give" /\ Top.k = "Else" /\ Return(e, 0)
  BY DEF ElseDone, Given, At
<1>2. Top.k \in Inside /\ Top.k \in OperatorFrames
  BY <1>1, OperatorsInside DEF OperatorFrames
<1>3. e.k = "ternary"
  BY DEF TernaryOf
<1>4. LeftBp(View.t) < BP_TERNARY.r
  BY <1>1, <1>2, GivenInside DEF CompletesIn, Asks
<1>5. Tail(frames) # <<>> => g.k = "Fold" /\ BP_TERNARY.l >= g.bp
  BY <1>1, <1>2, GivenInside DEF Between
<1> HIDE DEF e, g
<1>6. Tail(frames) # <<>> => FoldedIn(e, g.bp, View)
  BY <1>3, <1>4, <1>5 DEF FoldedIn, BindsLeft, BindsRight
<1> QED BY <1>1, <1>2, <1>5, <1>6, GivenInside, FoldedReturns DEF g

LEMMA DoneBinds == ASSUME Here, BindInv, Done PROVE BindInv'
<1>1. CASE FoldOn \/ UnaryDone \/ IncrDone \/ ParenDone \/ InListDone \/ InDone \/ NextItem \/ CallDone \/ IndexDone
  BY <1>1, FoldOnBinds, UnaryDoneBinds, IncrDoneBinds, ParenDoneBinds, InListDoneBinds, InDoneBinds, NextItemBinds,
     CallDoneBinds, IndexDoneBinds
<1>2. CASE GetlinePlaceDone \/ GetlineFileDone \/ ConcatDone \/ InfixDone \/ AssignDone \/ ThenDone \/ ElseDone
           \/ PipeDone
  BY <1>2, GetlinePlaceDoneBinds, GetlineFileDoneBinds, ConcatDoneBinds, InfixDoneBinds, AssignDoneBinds,
     ThenDoneBinds, ElseDoneBinds, PipeDoneBinds
<1> QED BY <1>1, <1>2 DEF Done

(* The classes of tokens a fold looks at. *)
LEMMA Kinds ==
    /\ SuffixTokens \cap AssignTokens = {} /\ SuffixTokens \cap WriteKinds = {} /\ BinaryTokens \cap AssignTokens = {}
    /\ BinaryTokens \cap WriteKinds = {} /\ AssignTokens \cap WriteKinds = {}
    /\ {"?", "[", "in", "eof"} \cap (SuffixTokens \cup BinaryTokens \cup AssignTokens \cup WriteKinds) = {}
  BY DEF SuffixTokens, BinaryTokens, InfixTokens, CmpOps, MatchOps, ExprStart, AtomTokens, PlaceTokens, Specials,
         PrefixTokens, AssignTokens, WriteKinds

(* fold_rhs: what runs, and what it goes on with. *)
LEMMA FoldHolds ==
    ASSUME Here, BindInv, ctl.go = "fold"
    PROVE  /\ frames # <<>> /\ Stream(frames) /\ Bound(frames, View)
           /\ AskedBy(ctl.bp, ctl.stop, Top, View) /\ FoldedIn(L, ctl.bp, View) /\ ctl.bp \in Nat
           /\ Stream(Resume) /\ Bound(Resume, View) /\ Resume # <<>> /\ Resume[1].k = "Fold" /\ Resume[1].bp = ctl.bp
<1>1. frames # <<>>
  BY UnderExpr DEF ExprRuns
<1>2. Stream(frames) /\ Bound(frames, View) /\ Bears(ctl, Top, View)
  BY <1>1 DEF Here, Running, CallStack, BindInv
<1>3. AskedBy(ctl.bp, ctl.stop, Top, View) /\ FoldedIn(L, ctl.bp, View) /\ ctl.bp \in Nat
  BY <1>2 DEF Bears, L, AskedBy
<1> DEFINE f == Folding(ctl.bp, ctl.stop)
<1>4. f.k = "Fold" /\ f.bp = ctl.bp /\ f.stop = ctl.stop /\ Resume = <<f>> \o frames
  BY DEF Folding, Resume
<1> HIDE DEF f
<1>5. Between(f, frames[1], View)
  BY <1>3, <1>4 DEF Between, Top
<1> QED BY <1>1, <1>2, <1>3, <1>4, <1>5, StreamPush, BoundPush

LEMMA AskLater ==
    ASSUME NEW bp, NEW stop, NEW g, NEW v, NEW w, AskedBy(bp, stop, g, v), v.typed \subseteq w.typed
    PROVE  AskedBy(bp, stop, g, w)
  BY DEF AskedBy

(* The fold turns once more, with e. *)
LEMMA TurnBinds ==
    ASSUME Here, BindInv, ctl.go = "fold", NEW e, NEW n \in Nat, NEW ty, Go(Fold(ctl.bp, ctl.stop, e), frames, n, ty),
           FoldedIn(e, ctl.bp, View')
    PROVE  BindInv'
<1> DEFINE c == Fold(ctl.bp, ctl.stop, e)
<1>1. c.go = "fold" /\ c.bp = ctl.bp /\ c.stop = ctl.stop /\ c.e = e
  BY DEF Fold
<1>2. UNCHANGED lexvars /\ pos' = pos + n /\ pos \in Nat
  BY DEF Go, Here
<1>3. AskedBy(ctl.bp, ctl.stop, Top, View')
  BY <1>2, FoldHolds, ViewGrows, AskLater
<1> HIDE DEF c
<1>4. Bears(c, frames[1], View')
  BY <1>1, <1>3 DEF Bears, Top
<1> QED BY <1>4, FoldHolds, GoBinds DEF c

(* The fold calls the parser again from a frame f. *)
LEMMA RightOperandBinds ==
    ASSUME Here, BindInv, ctl.go = "fold", NEW bp \in Nat, bp > 0, NEW f, NEW n \in Nat, NEW ty,
           Parse(bp, <<f>> \o Resume, n, ty), Between(f, Resume[1], View),
           f.k \in OperatorFrames, bp = Asks(f)
    PROVE  BindInv'
<1>1. f.k \notin {"Fold", "Concat"}
  BY DEF OperatorFrames
<1> QED BY <1>1, FoldHolds, AskBinds

(* The next token binds less than the caller asks for. *)
LEMMA Looser ==
    ASSUME Breaks, ctl.bp \in Nat, ctl.bp > 0, T \notin {Eof, "Error"} PROVE LeftBp(T) < ctl.bp
<1>1. CASE T \in SuffixTokens
  <2>1. LeftBp(T) = BP_INC_DEC
    BY <1>1, Kinds DEF LeftBp
  <2>2. BP_INC_DEC < ctl.bp
    BY <1>1, Kinds DEF Breaks
  <2> QED BY <2>1, <2>2
<1>2. CASE T \in BinaryTokens \ SuffixTokens
  <2>1. LeftBp(T) = BinaryBp(BinaryOperator(T)).l
    BY <1>2, Kinds DEF LeftBp
  <2>2. BinaryBp(BinaryOperator(T)).l < ctl.bp
    BY <1>2, Kinds DEF Breaks
  <2> QED BY <2>1, <2>2
<1>3. CASE T \in AssignTokens
  <2>1. LeftBp(T) = BP_ASSIGN.l
    BY <1>3, Kinds DEF LeftBp
  <2>2. BP_ASSIGN.l < ctl.bp
    BY <1>3, Kinds DEF Breaks
  <2> QED BY <2>1, <2>2
<1>4. CASE T \in WriteKinds
  <2>1. LeftBp(T) = BP_CONCAT.l
    BY <1>4, Kinds DEF LeftBp
  <2>2. BP_CONCAT.l < ctl.bp
    BY <1>4, Kinds DEF Breaks
  <2> QED BY <2>1, <2>2
<1>5. CASE T \in {"?", "[", "in"}
  <2>1. T \notin SuffixTokens \cup BinaryTokens \cup AssignTokens \cup WriteKinds
    BY <1>5, Kinds
  <2>2. T = "?" => LeftBp(T) = BP_TERNARY.l /\ BP_TERNARY.l < ctl.bp
    BY <2>1 DEF LeftBp, Breaks
  <2>3. T = "[" => LeftBp(T) = BP_GROUPING /\ BP_GROUPING < ctl.bp
    BY <2>1 DEF LeftBp, Breaks
  <2>4. T # "in"
    BY <2>1 DEF Breaks
  <2> QED BY <1>5, <2>2, <2>3, <2>4
<1>6. CASE T \notin SuffixTokens \cup BinaryTokens \cup AssignTokens \cup WriteKinds \cup {"?", "[", "in"}
  <2>1. LeftBp(T) = 0
    BY <1>6 DEF LeftBp
  <2> QED BY <2>1
<1> QED BY <1>1, <1>2, <1>3, <1>4, <1>5, <1>6

(* The operand is done: the caller gets it. *)
LEMMA OperandDone ==
    ASSUME Here, BindInv, ctl.go = "fold", NEW ty, Go(Give(L), frames, 0, ty),
           Top.k \in OperatorFrames =>
              \/ ctl.stop = "question" /\ T = "?"
              \/ (ctl.bp > 0 => LeftBp(T) < ctl.bp)
    PROVE  BindInv'
<1>1. Give(L).go = "give" /\ Give(L).e = L
  BY DEF Give
<1>2. /\ AskedBy(ctl.bp, ctl.stop, Top, View) /\ FoldedIn(L, ctl.bp, View) /\ ctl.bp \in Nat
      /\ Bound(frames, View)
  BY FoldHolds
<1>3. Top.k \notin {"Fold", "Concat"}
  BY <1>2 DEF AskedBy
<1>4. ASSUME Top.k \in OperatorFrames PROVE CompletesIn(L, Top, View)
  <2>1. CASE ctl.stop # "question"
    <3>1. ctl.bp = Asks(Top) /\ ctl.bp > 0
      BY <1>2, <1>4, <2>1 DEF AskedBy
    <3>2. LeftBp(View.t) < Asks(Top)
      BY <1>4, <2>1, <3>1, ViewFields
    <3> QED BY <1>2, <3>1, <3>2 DEF CompletesIn, FoldedIn
  <2>2. CASE ctl.stop = "question"
    <3>1. Top.k = "Assign" /\ ctl.bp = BP_ASSIGN.l /\ View.typed # {}
      BY <1>2, <2>2 DEF AskedBy
    <3>2. BP_ASSIGN.l = 2 /\ BP_ASSIGN.r = 1 /\ Asks(Top) = BP_ASSIGN.r
      BY <3>1 DEF BP_ASSIGN, BP, Asks
    <3>3. View.behind = ")" \/ (BindsLeft(L, 2) /\ (L.k = "binary" => BinaryBp(L.op).l \in Nat))
      BY <1>2, <3>1, <3>2 DEF FoldedIn
    <3>4. View.behind = ")" \/ BindsLeft(L, 1)
      BY <3>3, TernaryAsks DEF BindsLeft, BP_INC_DEC
    <3>5. View.behind = ")" \/ BindsLeft(L, Asks(Top))
      BY <3>2, <3>4
    <3>6. LeftBp(View.t) < Asks(Top) \/ Cut(View)
      <4>1. CASE T = "?"
        BY <3>1, <4>1, ViewFields DEF Cut
      <4>2. CASE T # "?"
        <5>1. LeftBp(T) < 2
          BY <1>4, <3>1, <3>2, <4>2
        <5>2. LeftBp(T) = 0
          BY <5>1, LeftBpNat
        <5> QED BY <3>2, <5>2, ViewFields
      <4> QED BY <4>1, <4>2
    <3> QED BY <3>1, <3>5, <3>6 DEF CompletesIn
  <2> QED BY <2>1, <2>2
<1>5. Bears(Give(L), frames[1], View)
  BY <1>1, <1>3, <1>4 DEF Bears, Top
<1> QED BY <1>2, <1>5, StayBinds

LEMMA FoldEndBinds == ASSUME Here, BindInv, FoldStop \/ FoldError \/ FoldBreak PROVE BindInv'
<1>1. CASE FoldStop
  <2>1. ctl.go = "fold" /\ Go(Give(L), frames, 0, typed) /\ (T = Eof \/ Stops(ctl.stop, T))
    BY <1>1 DEF FoldStop, At
  <2>2. ASSUME Top.k \in OperatorFrames
        PROVE  (ctl.stop = "question" /\ T = "?") \/ (ctl.bp > 0 => LeftBp(T) < ctl.bp)
    <3>1. CASE T = Eof
      <4>1. LeftBp(T) = 0 /\ ctl.bp \in Nat
        BY <2>1, <3>1, Kinds, FoldHolds DEF LeftBp, Eof
      <4> QED BY <4>1
    <3>2. CASE Stops(ctl.stop, T)
      <4>1. ctl.stop = "question" \/ ctl.stop = "none"
        BY <2>1, <2>2, FoldHolds DEF AskedBy
      <4> QED BY <3>2, <4>1 DEF Stops
    <3> QED BY <2>1, <3>1, <3>2
  <2> QED BY <2>1, <2>2, OperandDone
<1>2. CASE FoldBreak
  <2>1. ctl.go = "fold" /\ Go(Give(L), frames, 0, FALSE) /\ Breaks /\ T \notin {Eof, "Error"}
    BY <1>2 DEF FoldBreak, At
  <2>2. ctl.bp > 0 => LeftBp(T) < ctl.bp
    BY <2>1, Looser, FoldHolds
  <2> QED BY <2>1, <2>2, OperandDone
<1>3. CASE FoldError
  BY <1>3, FailBinds DEF FoldError
<1> QED BY <1>1, <1>2, <1>3

LEMMA FoldSuffixBinds == ASSUME Here, BindInv, FoldSuffix PROVE BindInv'
<1> DEFINE e == IncrOf(T, TRUE, L)
           f == [k |-> "Concat", l |-> L]
<1>1. ctl.go = "fold" /\ T \in SuffixTokens /\ ~Breaks
  BY DEF FoldSuffix, FoldAt, At
<1>2. \/ Go(Fold(ctl.bp, ctl.stop, e), frames, 1, FALSE)
      \/ Go(Enter("prefix"), <<f>> \o Resume, 0, FALSE)
  BY DEF FoldSuffix
<1>3. e.k = "incr" /\ e.post /\ f.k = "Concat"
  BY DEF IncrOf
<1> HIDE DEF e, f
<1>4. CASE Go(Fold(ctl.bp, ctl.stop, e), frames, 1, FALSE)
  <2>1. ~(BP_INC_DEC < ctl.bp)
    BY <1>1, Kinds DEF Breaks
  <2>2. BP_INC_DEC >= ctl.bp
    BY <1>1, <2>1, FoldHolds DEF BP_INC_DEC
  <2>3. FoldedIn(e, ctl.bp, View')
    BY <1>3, <2>2 DEF FoldedIn, BindsLeft, BindsRight
  <2> QED BY <1>1, <1>4, <2>3, TurnBinds
<1>5. CASE Go(Enter("prefix"), <<f>> \o Resume, 0, FALSE)
  <2>1. Between(f, Resume[1], View)
    BY <1>1, <1>3, FoldHolds DEF Between
  <2>2. Bound(<<f>> \o Resume, View) /\ (<<f>> \o Resume)[1] = f
    BY <1>1, <2>1, FoldHolds, BoundPush, StreamPush
  <2>3. Bears(Enter("prefix"), f, View)
    BY <1>1, <1>3, ViewFields DEF Bears, Enter
  <2> QED BY <1>5, <2>2, <2>3, StayBinds
<1> QED BY <1>2, <1>4, <1>5

(* A typed regex that is assigned has been read. *)
LEMMA TypedRegexRead ==
    ASSUME UNCHANGED lexvars, pos \in Nat, pos >= 1, Stream(tokens), T = "=", TokenAt(pos + 1) = "TypedRegex",
           pos' = pos + 2
    PROVE  (View').typed # {}
<1>1. tokens[pos].t = "=" /\ tokens[pos + 1].t = "TypedRegex"
  BY TokenThere DEF T, Eof
<1>2. tokens' = tokens
  BY DEF lexvars
<1> DEFINE i == pos + 1
<1>3. i \in 2 .. pos' - 1 /\ i - 1 = pos
  BY <1>2
<1>4. tokens'[i].t = "TypedRegex" /\ tokens'[i - 1].t = "="
  BY <1>1, <1>2, <1>3
<1> HIDE DEF i
<1>5. i \in TypedAssigned'
  BY <1>3, <1>4 DEF TypedAssigned
<1> QED BY <1>5 DEF View

LEMMA FoldAssignBinds == ASSUME Here, BindInv, Stream(tokens), FoldAssign PROVE BindInv'
<1> DEFINE f == [k |-> "Assign", op |-> T, p |-> L]
           e == Atom("TypedRegex", tokens[pos + 1].s)
           c == Fold(BP_ASSIGN.l, "question", e)
<1>1. ctl.go = "fold" /\ f.k = "Assign"
  BY DEF FoldAssign, FoldAt, At
<1>2. \/ T = "=" /\ TokenAt(pos + 1) = "TypedRegex" /\ Go(c, <<f>> \o Resume, 2, TRUE)
      \/ Parse(BP_ASSIGN.r, <<f>> \o Resume, 1, T = "=")
      \/ Fail_
  BY DEF FoldAssign
<1>3. e.k = "atom" /\ c.go = "fold" /\ c.bp = BP_ASSIGN.l /\ c.stop = "question" /\ c.e = e
  BY DEF Atom, Fold
<1> HIDE DEF f, e, c
<1>4. Between(f, Resume[1], View)
  BY <1>1, FoldHolds DEF Between
<1>5. CASE T = "=" /\ TokenAt(pos + 1) = "TypedRegex" /\ Go(c, <<f>> \o Resume, 2, TRUE)
  <2>1. pos \in Nat /\ pos >= 1 /\ UNCHANGED lexvars /\ pos' = pos + 2
    BY <1>5 DEF Here, BindInv, Go
  <2>2. (View').typed # {}
    BY <1>5, <2>1, TypedRegexRead
  <2>3. FoldedIn(e, BP_ASSIGN.l, View') /\ BP_ASSIGN.l \in Nat
    BY <1>3, ClosedFolds DEF Closed, BP_ASSIGN, BP
  <2>4. Bears(c, f, View')
    BY <1>1, <1>3, <2>2, <2>3 DEF Bears, AskedBy
  <2>5. Bound(<<f>> \o Resume, View) /\ (<<f>> \o Resume)[1] = f
    BY <1>1, <1>4, FoldHolds, BoundPush, StreamPush
  <2> QED BY <1>5, <2>4, <2>5, GoBinds
<1>6. CASE Parse(BP_ASSIGN.r, <<f>> \o Resume, 1, T = "=")
  <2>1. f.k \in OperatorFrames /\ BP_ASSIGN.r = Asks(f) /\ BP_ASSIGN.r \in Nat /\ BP_ASSIGN.r > 0
    BY <1>1 DEF OperatorFrames, Asks, BP_ASSIGN, BP
  <2> QED BY <1>1, <1>4, <1>6, <2>1, RightOperandBinds
<1> QED BY <1>2, <1>5, <1>6, FailBinds

LEMMA FoldIndexBinds == ASSUME Here, BindInv, FoldIndex PROVE BindInv'
<1> DEFINE f == Indexing(L, FALSE)
<1>1. ctl.go = "fold" /\ f.k = "Index"
  BY DEF FoldIndex, FoldAt, At, Indexing
<1>2. Parse(0, <<Items(<<>>, FALSE), f>> \o Resume, 1, FALSE) \/ Fail_
  BY DEF FoldIndex
<1> HIDE DEF f
<1>3. Between(f, Resume[1], View)
  BY <1>1, FoldHolds DEF Between
<1> QED BY <1>1, <1>2, <1>3, FoldHolds, ItemsBind, FailBinds

LEMMA FoldInBinds == ASSUME Here, BindInv, FoldIn PROVE BindInv'
<1> DEFINE f == [k |-> "In", es |-> <<L>>]
<1>1. ctl.go = "fold" /\ f.k = "In" /\ Go(Enter("place"), <<f>> \o Resume, 1, FALSE)
  BY DEF FoldIn, FoldAt, At
<1> HIDE DEF f
<1>2. Between(f, Resume[1], View)
  BY <1>1, FoldHolds DEF Between
<1>3. Bound(<<f>> \o Resume, View) /\ (<<f>> \o Resume)[1] = f
  BY <1>1, <1>2, FoldHolds, BoundPush, StreamPush
<1>4. Bears(Enter("place"), f, View')
  BY <1>1 DEF Bears, Enter
<1> QED BY <1>1, <1>3, <1>4, GoBinds

LEMMA FoldInfixBinds == ASSUME Here, BindInv, FoldInfix PROVE BindInv'
<1> DEFINE op == BinaryOperator(T)
           f == [k |-> "Infix", op |-> op, l |-> L]
           n == IF op = Concat THEN 0 ELSE 1
           ty == op \in MatchOps
<1>1. ctl.go = "fold" /\ T \in BinaryTokens \ SuffixTokens /\ ~Breaks
  BY DEF FoldInfix, FoldAt, At
<1>2. Parse(BinaryBp(op).r, <<f>> \o Resume, n, ty) \/ Fail_
  BY DEF FoldInfix
<1>3. f.k = "Infix" /\ f.op = op /\ n \in Nat
  OBVIOUS
<1>4. BinaryBp(op).l \in Nat /\ BinaryBp(op).r \in Nat /\ BinaryBp(op).r > 0
  BY OperatorBp, TokenOperator
<1>5. ~(BinaryBp(op).l < ctl.bp)
  BY <1>1, Kinds DEF Breaks
<1> HIDE DEF op, f, n, ty
<1>6. BinaryBp(op).l >= ctl.bp
  BY <1>1, <1>4, <1>5, FoldHolds
<1>7. Between(f, Resume[1], View)
  BY <1>1, <1>3, <1>4, <1>6, FoldHolds DEF Between
<1>8. f.k \in OperatorFrames /\ BinaryBp(op).r = Asks(f)
  BY <1>3 DEF OperatorFrames, Asks
<1> QED BY <1>1, <1>2, <1>3, <1>4, <1>7, <1>8, RightOperandBinds, FailBinds

LEMMA FoldTernaryBinds == ASSUME Here, BindInv, FoldTernary PROVE BindInv'
<1> DEFINE f == [k |-> "Then", c |-> L]
<1>1. ctl.go = "fold" /\ T = "?" /\ ~Breaks /\ f.k = "Then"
  BY DEF FoldTernary, FoldAt, At
<1>2. Parse(BP_TERNARY.r, <<f>> \o Resume, 1, FALSE) \/ Fail_
  BY DEF FoldTernary
<1> HIDE DEF f
<1>3. ~(BP_TERNARY.l < ctl.bp)
  BY <1>1, Kinds DEF Breaks
<1>4. BP_TERNARY.l >= ctl.bp
  BY <1>1, <1>3, FoldHolds, TernaryAsks
<1>5. Between(f, Resume[1], View)
  BY <1>1, <1>4, FoldHolds DEF Between
<1>6. f.k \in OperatorFrames /\ BP_TERNARY.r = Asks(f)
  BY <1>1 DEF OperatorFrames, Asks
<1> QED BY <1>1, <1>2, <1>5, <1>6, TernaryAsks, RightOperandBinds, FailBinds

LEMMA FoldPipeBinds == ASSUME Here, BindInv, FoldPipe PROVE BindInv'
<1> DEFINE f == [k |-> "Pipe", op |-> T, l |-> L]
           e == GetlineOf(T, <<>>, <<L>>)
<1>1. ctl.go = "fold" /\ f.k = "Pipe"
  BY DEF FoldPipe, FoldAt, At
<1>2. \/ Parse(BP_CONCAT.r - 1, <<f>> \o Resume, 2, FALSE)
      \/ Go(Fold(ctl.bp, ctl.stop, e), frames, 2, FALSE)
      \/ Fail_
  BY DEF FoldPipe
<1>3. Closed(e)
  BY DEF Closed, GetlineOf
<1> HIDE DEF f, e
<1>4. CASE Parse(BP_CONCAT.r - 1, <<f>> \o Resume, 2, FALSE)
  <2>1. Between(f, Resume[1], View)
    BY <1>1, FoldHolds DEF Between
  <2>2. f.k \in OperatorFrames /\ BP_CONCAT.r - 1 = Asks(f)
    BY <1>1 DEF OperatorFrames, Asks
  <2>3. BP_CONCAT.r - 1 \in Nat /\ BP_CONCAT.r - 1 > 0
    BY DEF BP_CONCAT, BP
  <2> QED BY <1>1, <1>4, <2>1, <2>2, <2>3, RightOperandBinds
<1>5. CASE Go(Fold(ctl.bp, ctl.stop, e), frames, 2, FALSE)
  BY <1>1, <1>3, <1>5, ClosedFolds, TurnBinds
<1> QED BY <1>2, <1>4, <1>5, FailBinds

LEMMA PrattBinds == ASSUME Here, BindInv, Stream(tokens), PrattNext PROVE BindInv'
<1>1. CASE FoldRhs
  BY <1>1, FoldEndBinds, FoldSuffixBinds, FoldAssignBinds, FoldIndexBinds, FoldInBinds, FoldInfixBinds,
     FoldTernaryBinds, FoldPipeBinds DEF FoldRhs
<1> QED BY <1>1, LhsBinds, DoneBinds DEF PrattNext

-----------------------------------------------------------------------------
(* Statements and rules.  Their frames are outside of any expression: they *)
(* ask for an operand only through parse_expression.                       *)
Quiet(go) == go \in OtherRuns \cup {"top", "parsed"}

LEMMA OutsideWaits == \A go : Quiet(go) => Waits(Sort(go)) \cap Inside = {}
  BY DEF Quiet, OtherRuns, Waits, Sort, Inside, ExprKinds

LEMMA QuietBinds == ASSUME Here, BindInv, Moves, Quiet(ctl'.go) PROVE BindInv'
<1>1. CallStack(frames') /\ Takes(frames', Sort(ctl'.go))
  BY DEF Moves, Running, Quiet, OtherRuns
<1>2. frames' = <<>> \/ frames'[1].k \notin Inside
  BY <1>1, OutsideWaits DEF Takes
<1>3. Bound(frames', View')
  BY <1>1, <1>2, BoundOut DEF CallStack
<1>4. \A g, v : Bears(ctl', g, v)
  BY DEF Bears, Quiet, OtherRuns
<1>5. pos' >= 1
  BY DEF Moves, Here, BindInv, Passes
<1> QED BY <1>3, <1>4, <1>5 DEF BindInv

LEMMA QuietGo ==
    ASSUME Here, BindInv, Moves, NEW c, NEW fs, NEW n, NEW ty, Go(c, fs, n, ty), Quiet(c.go) PROVE BindInv'
<1>1. ctl' = c
  BY DEF Go
<1> QED BY <1>1, QuietBinds

LEMMA QuietEnter ==
    ASSUME Here, BindInv, Moves, NEW g, Quiet(g), NEW f, NEW fs, NEW n,
           Call(g, f, n) \/ Become(g, f, n) \/ Go(Enter(g), fs, n, FALSE)
    PROVE  BindInv'
<1>1. Enter(g).go = g
  BY DEF Enter
<1> QED BY <1>1, QuietGo DEF Call, Become

LEMMA QuietGives ==
    ASSUME Here, BindInv, Moves, NEW s, NEW fs, NEW n, NEW ty,
           Complete(s, fs, n) \/ Go(Simple(s), fs, n, ty) \/ Go(GiveBody(s), fs, n, ty)
    PROVE  BindInv'
<1>1. Quiet(Done_(s).go) /\ Quiet(Simple(s).go) /\ Quiet(GiveBody(s).go)
  BY DEF Quiet, OtherRuns, Done_, Simple, GiveBody
<1> QED BY <1>1, QuietGo DEF Complete

LEMMA OutsideAsks ==
    ASSUME Here, BindInv, NEW bp \in Nat, NEW f, f.k \notin Inside, NEW fs, Stream(fs), NEW n \in Nat, NEW ty,
           Parse(bp, <<f>> \o fs, n, ty)
    PROVE  BindInv'
<1>1. Bound(<<f>> \o fs, View) /\ Stream(<<f>> \o fs) /\ (<<f>> \o fs)[1] = f
  BY StreamPush, BoundOut
<1>2. f.k \notin {"Fold", "Concat"} /\ f.k \notin OperatorFrames
  BY OperatorsInside DEF Inside, ExprKinds
<1> QED BY <1>1, <1>2, ParseBinds

LEMMA ArgumentBinds ==
    ASSUME Here, BindInv, NEW f, f.k \notin Inside, NEW fs, Stream(fs), NEW n \in Nat, NEW ty, Argument(f, fs, n, ty)
    PROVE  BindInv'
<1> DEFINE g == Folding(0, "redirection")
           c == Lhs(0)
           gs == <<f>> \o fs
<1>1. Bound(gs, View) /\ Stream(gs) /\ gs[1] = f
  BY StreamPush, BoundOut
<1>2. f.k \notin {"Fold", "Concat"} /\ f.k \notin OperatorFrames
  BY OperatorsInside DEF Inside, ExprKinds
<1>3. g.k = "Fold" /\ g.bp = 0 /\ g.stop = "redirection" /\ c.go = "lhs"
  BY DEF Folding, Lhs
<1>4. Go(c, <<g, f>> \o fs, n, ty) /\ <<g, f>> \o fs = <<g>> \o gs
  BY PushBoth DEF Argument
<1> HIDE DEF g, c, gs
<1>5. Between(g, gs[1], View)
  BY <1>1, <1>2, <1>3 DEF Between, AskedBy
<1>6. Bound(<<g>> \o gs, View) /\ (<<g>> \o gs)[1] = g
  BY <1>1, <1>5, BoundPush, StreamPush
<1>7. Bears(c, g, View')
  BY <1>3 DEF Bears
<1>8. Go(c, <<g>> \o gs, n, ty)
  BY <1>4
<1> QED BY <1>6, <1>7, <1>8, GoBinds

(* The callers below those that run. *)
LEMMA Below ==
    ASSUME Here
    PROVE  /\ Stream(frames)
           /\ ctl.go \in OtherRuns \cup {"give", "list"} => Stream(Tail(frames))
<1>1. Stream(frames)
  BY DEF Here, Running, CallStack
<1>2. ctl.go \in OtherRuns \cup {"give", "list"} => frames # <<>>
  BY UnderExpr, UnderOther, UnderArgs DEF ExprRuns
<1> QED BY <1>1, <1>2, StreamPop

LEMMA OutsideFrames ==
    /\ \A name, es : Command(name, es).k \notin Inside
    /\ {"Expr", "Redirect", "Delete", "Condition", "Leave", "for", "Pattern"} \cap Inside = {}
  BY DEF Command, Inside, ExprKinds

LEMMA SimpleExpressionBinds == ASSUME Here, BindInv, Moves, SimpleExpression \/ ExpressionDone PROVE BindInv'
<1>1. CASE SimpleExpression
  <2> DEFINE f == [k |-> "Expr"]
  <2>1. Parse(0, <<f>> \o frames, 0, FALSE) /\ f.k = "Expr"
    BY <1>1 DEF SimpleExpression, Expression
  <2> HIDE DEF f
  <2> QED BY <2>1, Below, OutsideFrames, OutsideAsks
<1>2. CASE ExpressionDone
  BY <1>2, QuietGives DEF ExpressionDone
<1> QED BY <1>1, <1>2

LEMMA ParseCommandBinds == ASSUME Here, BindInv, Moves, ParseCommand PROVE BindInv'
<1> DEFINE f == Command(T, <<>>)
<1>1. f.k \notin Inside
  BY OutsideFrames
<1>2. \/ Call("args", f, 2)
      \/ Argument(f, frames, 1, FALSE)
      \/ Call("redirect", f, 1)
  BY DEF ParseCommand
<1> HIDE DEF f
<1>3. CASE Call("args", f, 2)
  <2>1. Go(Enter("args"), <<f>> \o frames, 2, FALSE)
    BY <1>3 DEF Call
  <2>2. Bound(<<f>> \o frames, View)
    BY <1>1, Below, StreamPush, BoundOut
  <2>3. \A g : Bears(Enter("args"), g, View')
    BY DEF Bears, Enter
  <2> QED BY <2>1, <2>2, <2>3, GoBinds
<1>4. CASE Call("redirect", f, 1)
  BY <1>4, QuietEnter DEF Quiet, OtherRuns
<1> QED BY <1>1, <1>2, <1>3, <1>4, Below, ArgumentBinds

LEMMA CommandArgsBind == ASSUME Here, BindInv, Moves, CommandArg \/ CommandArgs PROVE BindInv'
<1>1. Quiet("redirect")
  BY DEF Quiet, OtherRuns
<1>2. CASE CommandArg
  <2> DEFINE c == Command(Top.name, Append(Top.es, ctl.e))
  <2>1. ctl.go = "give" /\ (Argument(c, Tail(frames), 1, typed) \/ Become("redirect", c, 0))
    BY <1>2 DEF CommandArg, Given, At
  <2>2. c.k \notin Inside
    BY OutsideFrames
  <2> HIDE DEF c
  <2> QED BY <1>1, <2>1, <2>2, Below, ArgumentBinds, QuietEnter
<1>3. CASE CommandArgs
  <2>1. Become("redirect", Command(Top.name, ctl.es), 1) \/ Fail_
    BY <1>3 DEF CommandArgs
  <2> QED BY <1>1, <2>1, QuietEnter, FailBinds
<1> QED BY <1>2, <1>3

LEMMA RedirectBinds == ASSUME Here, BindInv, Moves, Redirect \/ RedirectDone PROVE BindInv'
<1>1. CASE Redirect
  <2> DEFINE f == [k |-> "Redirect", op |-> T]
             s == CommandOf(Top.name, Top.es, <<>>)
  <2>1. Parse(BP_CONCAT.r - 1, <<f>> \o frames, 1, FALSE) \/ Go(Simple(s), Tail(frames), 0, FALSE)
    BY <1>1 DEF Redirect
  <2>2. f.k \notin Inside /\ BP_CONCAT.r - 1 \in Nat
    BY OutsideFrames DEF BP_CONCAT, BP
  <2> HIDE DEF f, s
  <2> QED BY <2>1, <2>2, Below, OutsideAsks, QuietGives
<1>2. CASE RedirectDone
  <2>1. PICK s : Go(Simple(s), Tail(Tail(frames)), 0, FALSE)
    BY <1>2 DEF RedirectDone
  <2> QED BY <2>1, QuietGives
<1> QED BY <1>1, <1>2

LEMMA DeleteBinds == ASSUME Here, BindInv, Moves, ParseDelete \/ DeleteDone PROVE BindInv'
<1>1. CASE ParseDelete
  <2> DEFINE v == VariableOf(tokens[pos + 1])
             f == [k |-> "Delete", v |-> v]
             s == DeleteOf(v, <<>>)
  <2>1. \/ Parse(0, <<Items(<<>>, FALSE), f>> \o frames, 3, FALSE)
        \/ Go(Simple(s), frames, 2, FALSE)
        \/ Fail_
    BY <1>1 DEF ParseDelete
  <2>2. f.k \notin Inside
    BY OutsideFrames
  <2>3. Stream(frames) /\ Bound(frames, View)
    BY Below, BoundOut DEF BindInv
  <2> HIDE DEF f, s
  <2> QED BY <2>1, <2>2, <2>3, ItemsBind, QuietGives, FailBinds
<1>2. CASE DeleteDone
  <2>1. Go(Simple(DeleteOf(Top.v, <<ctl.es>>)), Tail(frames), 1, FALSE) \/ Fail_
    BY <1>2 DEF DeleteDone
  <2> QED BY <2>1, QuietGives, FailBinds
<1> QED BY <1>1, <1>2

LEMMA SimpleStatementBinds == ASSUME Here, BindInv, Moves, SimpleStatement PROVE BindInv'
  BY SimpleExpressionBinds, ParseCommandBinds, CommandArgsBind, RedirectBinds, DeleteBinds DEF SimpleStatement

LEMMA QuietNames ==
    \A g \in {"start", "redirect", "block", "statement", "stmtbody", "body", "switch", "forloop", "forupdate",
              "param", "top", "parsed"} : Quiet(g)
  BY DEF Quiet, OtherRuns

LEMMA BodyBinds == ASSUME Here, BindInv, Moves, Body PROVE BindInv'
<1>1. CASE ParseBody
  <2>1. Call("block", Block(0, <<>>), 1) \/ Fail_
    BY <1>1 DEF ParseBody
  <2> QED BY <2>1, QuietNames, QuietEnter, FailBinds
<1>2. CASE BlockSeparator \/ BlockStatement
  <2>1. CASE BlockSeparator
    <3>1. ctl.go = "block" /\ Go(ctl, frames, 1, FALSE)
      BY <2>1 DEF BlockSeparator, InBlock, At
    <3> QED BY <3>1, QuietNames, QuietGo
  <2>2. CASE BlockStatement
    <3>1. Go(Enter("statement"), frames, 0, FALSE)
      BY <2>2 DEF BlockStatement
    <3> QED BY <3>1, QuietNames, QuietEnter
  <2> QED BY <1>2, <2>1, <2>2
<1>3. CASE BlockOpen \/ BlockAppend
  <2>1. \/ Become("block", Block(Top.depth + 1, Top.b), 1)
        \/ Become("block", Block(Top.depth, Append(Top.b, ctl.s)), 0)
    BY <1>3 DEF BlockOpen, BlockAppend
  <2> QED BY <2>1, QuietNames, QuietEnter
<1>4. CASE BlockClose
  <2>1. Go(GiveBody(Top.b), Tail(frames), 1, FALSE) \/ Become("block", Block(Top.depth - 1, Top.b), 1)
    BY <1>4 DEF BlockClose
  <2> QED BY <2>1, QuietNames, QuietEnter, QuietGives
<1>5. CASE BlockUnclosed
  BY <1>5, FailBinds DEF BlockUnclosed
<1>6. CASE StatementBody
  <2>1. Go(Enter("body"), frames, 0, FALSE) \/ Call("statement", [k |-> "Single"], 0)
    BY <1>6 DEF StatementBody
  <2> QED BY <2>1, QuietNames, QuietEnter
<1>7. CASE SingleDone
  BY <1>7, QuietGives DEF SingleDone
<1> QED BY <1>1, <1>2, <1>3, <1>4, <1>5, <1>6, <1>7 DEF Body

(* Who asks for a condition. *)
LEMMA ConditionBinds ==
    ASSUME Here, BindInv, NEW of, NEW b, NEW fs, Stream(fs), NEW n \in Nat,
           Parse(0, <<[k |-> "Condition", of |-> of, b |-> b]>> \o fs, n, FALSE)
    PROVE  BindInv'
<1> DEFINE f == [k |-> "Condition", of |-> of, b |-> b]
<1>1. f.k \notin Inside /\ Parse(0, <<f>> \o fs, n, FALSE)
  BY OutsideFrames
<1> HIDE DEF f
<1> QED BY <1>1, OutsideAsks

LEMMA ConditionDoneBinds == ASSUME Here, BindInv, Moves, ConditionDone PROVE BindInv'
<1> DEFINE f == [k |-> Top.of, c |-> ctl.e]
           g == [k |-> "switch", e |-> ctl.e, branches |-> <<>>, default |-> <<>>, case |-> <<>>, b |-> <<>>]
<1>1. ctl.go = "give" /\ Top.k = "Condition"
  BY DEF ConditionDone, Given, At
<1>2. frames # <<>>
  BY <1>1, UnderExpr DEF ExprRuns
<1>3. 1 \in 1 .. Len(frames) /\ CallStack(frames)
  BY <1>2, StreamFacts DEF Here, Running, CallStack
<1>4. Top.of \in {"if", "while", "switch", "do"}
  BY <1>1, <1>3 DEF CallStack, FrameOK, Top
<1>5. \/ Fail_
      \/ Complete(DoOf(Top.b, ctl.e), Tail(frames), 1)
      \/ Become("stmtbody", f, 1)
      \/ Become("switch", g, 2)
  BY <1>4 DEF ConditionDone
<1> HIDE DEF f, g
<1> QED BY <1>5, QuietNames, QuietEnter, QuietGives, FailBinds

LEMMA LeaveBinds == ASSUME Here, BindInv, Moves, Leave \/ LeaveDone PROVE BindInv'
<1>1. CASE Leave
  <2> DEFINE f == [k |-> "Leave", t |-> T]
             s == LeaveOf(T, <<>>)
  <2>1. Complete(s, frames, 1) \/ Parse(0, <<f>> \o frames, 1, T = "return")
    BY <1>1 DEF Leave, Expression
  <2>2. f.k \notin Inside
    BY OutsideFrames
  <2> HIDE DEF f, s
  <2> QED BY <2>1, <2>2, Below, OutsideAsks, QuietGives
<1>2. CASE LeaveDone
  <2>1. Complete(LeaveOf(Top.t, <<ctl.e>>), Tail(frames), 0)
    BY <1>2 DEF LeaveDone
  <2> QED BY <2>1, QuietGives
<1> QED BY <1>1, <1>2

LEMMA ParseStatementBinds == ASSUME Here, BindInv, Moves, ParseStatement PROVE BindInv'
<1>1. CASE StartSimple \/ StartDo
  <2>1. Call("start", [k |-> "Simple"], 0) \/ Call("body", [k |-> "do"], 1)
    BY <1>1 DEF StartSimple, StartDo
  <2> QED BY <2>1, QuietNames, QuietEnter
<1>2. CASE SimpleDone \/ ElseBody \/ WhileBody
  <2>1. \/ Complete(ctl.s, Tail(frames), 0)
        \/ Complete(IfOf(Top.c, Top.b, <<ctl.b>>), Tail(frames), 0)
        \/ Complete(WhileOf(Top.c, ctl.b), Tail(frames), 0)
    BY <1>2 DEF SimpleDone, ElseBody, WhileBody
  <2> QED BY <2>1, QuietGives
<1>3. CASE StartConditional
  <2> DEFINE n == 1 + 1
  <2>1. Parse(0, <<[k |-> "Condition", of |-> T, b |-> <<>>]>> \o frames, n, FALSE) \/ Fail_
    BY <1>3 DEF StartConditional, Condition, Expression
  <2>2. n \in Nat
    OBVIOUS
  <2> HIDE DEF n
  <2> QED BY <2>1, <2>2, Below, ConditionBinds, FailBinds
<1>4. CASE ThenBody
  <2>1. \/ Become("stmtbody", [k |-> "else", c |-> Top.c, b |-> ctl.b], 1)
        \/ Complete(IfOf(Top.c, ctl.b, <<>>), Tail(frames), 0)
    BY <1>4 DEF ThenBody
  <2> QED BY <2>1, QuietNames, QuietEnter, QuietGives
<1>5. CASE DoBody
  <2>1. ctl.go \in OtherRuns
    BY <1>5 DEF DoBody, GivenBody, At, OtherRuns
  <2>2. Parse(0, <<[k |-> "Condition", of |-> "do", b |-> ctl.b]>> \o Tail(frames), 2, FALSE) \/ Fail_
    BY <1>5 DEF DoBody
  <2> QED BY <2>1, <2>2, Below, ConditionBinds, FailBinds
<1>6. CASE StatementMissing
  BY <1>6, FailBinds DEF StatementMissing
<1> QED BY <1>1, <1>2, <1>3, <1>4, <1>5, <1>6, ConditionDoneBinds, LeaveBinds DEF ParseStatement

LEMMA ForConditionBinds == ASSUME Here, BindInv, Moves, ForCondition PROVE BindInv'
<1> DEFINE n == Count(Count(0, {";"}), {"Newline"})
<1>1. ctl.go = "forloop" /\ (Go(Enter("forupdate"), frames, n, FALSE) \/ Parse(0, frames, n, FALSE))
  BY DEF ForCondition, At
<1>2. n \in Nat
  BY DEF Count
<1>3. Sort(ctl.go) = "for" /\ ctl.go \in OtherRuns
  BY <1>1 DEF Sort, OtherRuns
<1>4. frames # <<>> /\ frames[1].k = "for"
  BY <1>3, UnderOther DEF Waits, Top
<1>5. frames[1].k \notin {"Fold", "Concat"} /\ frames[1].k \notin OperatorFrames /\ Bound(frames, View)
  BY <1>4 DEF OperatorFrames, BindInv
<1> HIDE DEF n
<1> QED BY <1>1, <1>2, <1>5, Below, ParseBinds, QuietNames, QuietEnter

LEMMA ForStatementBinds == ASSUME Here, BindInv, Moves, ForStatement PROVE BindInv'
<1>1. CASE StartFor
  <2> DEFINE e == TokenAt(pos + 2) = "("
             n == IF e THEN 3 ELSE 2
             f == For(<<>>, <<>>)
             g == [k |-> "ForInit", enclosed |-> e]
  <2>1. Fail_ \/ Call("forloop", f, 2) \/ Call("start", g, n)
    BY <1>1 DEF StartFor
  <2> HIDE DEF e, n, f, g
  <2> QED BY <2>1, QuietNames, QuietEnter, FailBinds
<1>2. CASE ForInit
  <2> DEFINE f == For(<<ctl.s>>, <<>>)
             g == [k |-> "foreach", v |-> ctl.s.e.es[1], arr |-> ctl.s.e.v]
  <2>1. Fail_ \/ Become("forloop", f, 1) \/ Become("forloop", f, 0) \/ Become("stmtbody", g, 1)
    BY <1>2 DEF ForInit
  <2> HIDE DEF f, g
  <2> QED BY <2>1, QuietNames, QuietEnter, FailBinds
<1>3. CASE ForConditionDone
  BY <1>3, QuietNames, QuietEnter DEF ForConditionDone
<1>4. CASE ForUpdate
  <2> DEFINE n == Count(1, {"Newline"})
             f == Looping(Top.init, Top.c, <<>>)
  <2>1. Fail_ \/ Become("stmtbody", f, n + 1) \/ Go(Enter("start"), frames, n, FALSE)
    BY <1>4 DEF ForUpdate
  <2> HIDE DEF n, f
  <2> QED BY <2>1, QuietNames, QuietEnter, FailBinds
<1>5. CASE ForUpdateDone
  <2>1. Fail_ \/ Become("stmtbody", Looping(Top.init, Top.c, <<ctl.s>>), 1)
    BY <1>5 DEF ForUpdateDone
  <2> QED BY <2>1, QuietNames, QuietEnter, FailBinds
<1>6. CASE ForBody \/ ForEachBody
  <2>1. \/ Complete(ForOf(Top.init, Top.c, Top.update, ctl.b), Tail(frames), 0)
        \/ Complete(ForEachOf(Top.v, Top.arr, ctl.b), Tail(frames), 0)
    BY <1>6 DEF ForBody, ForEachBody
  <2> QED BY <2>1, QuietGives
<1> QED BY <1>1, <1>2, <1>3, <1>4, <1>5, <1>6, ForConditionBinds DEF ForStatement

LEMMA SwitchBinds == ASSUME Here, BindInv, Moves, Switch PROVE BindInv'
<1>1. CASE SwitchClose
  <2>1. Complete(SwitchOf(Flushed.e, Flushed.branches, Flushed.default), Tail(frames), 1)
    BY <1>1 DEF SwitchClose
  <2> QED BY <2>1, QuietGives
<1>2. CASE SwitchCase
  <2>1. Fail_ \/ Become("switch", [Flushed EXCEPT !.case = <<Atom(Next_, tokens[pos + 1].s)>>], 3)
    BY <1>2 DEF SwitchCase
  <2> QED BY <2>1, QuietNames, QuietEnter, FailBinds
<1>3. CASE SwitchDefault
  <2>1. Fail_ \/ Become("switch", [Flushed EXCEPT !.case = <<DefaultCase>>], 2)
    BY <1>3 DEF SwitchDefault
  <2> QED BY <2>1, QuietNames, QuietEnter, FailBinds
<1>4. CASE SwitchStatement
  <2>1. Fail_ \/ Go(Enter("statement"), frames, 0, FALSE)
    BY <1>4 DEF SwitchStatement
  <2> QED BY <2>1, QuietNames, QuietEnter, FailBinds
<1>5. CASE SwitchAppend
  <2>1. Become("switch", [Top EXCEPT !.b = Append(@, ctl.s)], 0)
    BY <1>5 DEF SwitchAppend
  <2> QED BY <2>1, QuietNames, QuietEnter
<1> QED BY <1>1, <1>2, <1>3, <1>4, <1>5 DEF Switch

(* An item of the program begins and ends without a caller. *)
LEMMA NobodyWaits ==
    ASSUME Here, BindInv, frames' = <<>>, \E n \in Nat : pos' = pos + n PROVE BindInv'
<1>1. pos' >= 1
  BY DEF Here, BindInv
<1> QED BY <1>1 DEF BindInv

LEMMA AgainBinds == ASSUME Here, BindInv, NEW n \in Nat, Again(n) PROVE BindInv'
<1>1. frames' = <<>> /\ pos' = pos + n
  BY DEF Again, Go
<1> QED BY <1>1, NobodyWaits

LEMMA ConcurrentBinds == ASSUME Here, BindInv, Concurrent PROVE BindInv'
<1>1. Fail_ \/ Again(1)
  BY DEF Concurrent
<1> QED BY <1>1, FailBinds, AgainBinds

LEMMA PatternBinds == ASSUME Here, BindInv, Moves, TopPattern \/ PatternDone PROVE BindInv'
<1>1. CASE TopPattern
  <2> DEFINE f == [k |-> "Pattern", from |-> <<>>]
  <2>1. Parse(0, <<f>> \o frames, 0, FALSE)
    BY <1>1 DEF TopPattern, Expression
  <2>2. f.k \notin Inside
    BY OutsideFrames
  <2> HIDE DEF f
  <2> QED BY <2>1, <2>2, Below, OutsideAsks
<1>2. CASE PatternDone
  <2> DEFINE p == Append(Top.from, ctl.e)
             f == [k |-> "Pattern", from |-> p]
             g == [k |-> "Rule", pattern |-> p]
  <2>1. ctl.go = "give" /\ (Parse(0, <<f>> \o Tail(frames), 1, FALSE) \/ Become("body", g, 0) \/ Again(0))
    BY <1>2 DEF PatternDone, Given, At
  <2>2. f.k \notin Inside
    BY OutsideFrames
  <2> HIDE DEF f, g
  <2> QED BY <2>1, <2>2, Below, OutsideAsks, QuietNames, QuietEnter, AgainBinds
<1> QED BY <1>1, <1>2

LEMMA DirectivesBind == ASSUME Here, BindInv, Moves, Load \/ Include \/ Namespace PROVE BindInv'
<1>1. \/ Fail_
      \/ Again(3)
      \/ Go(Panicked, frames, 2, FALSE)
      \/ UNCHANGED frames
  BY DEF Load, Include, Namespace
<1>2. ctl.go = "top"
  BY DEF Load, Include, Namespace, AtTop, At
<1>3. frames = <<>> /\ \E n \in Nat : pos' = pos + n
  BY <1>2, AtEntry DEF Moves, Passes
<1>4. UNCHANGED frames => frames' = <<>>
  BY <1>3
<1>5. Go(Panicked, frames, 2, FALSE) => UNCHANGED frames
  BY DEF Go
<1> QED BY <1>1, <1>3, <1>4, <1>5, NobodyWaits, FailBinds, AgainBinds

LEMMA FunctionsBind == ASSUME Here, BindInv, Moves, StartFunction \/ Parameter PROVE BindInv'
<1>1. CASE StartFunction
  <2> DEFINE f == Function(NameOf(tokens[pos + 1]), <<>>)
             n == Count(4, {"Newline"})
  <2>1. Fail_ \/ Call("body", f, n) \/ Call("param", f, 3)
    BY <1>1 DEF StartFunction
  <2> HIDE DEF f, n
  <2> QED BY <2>1, QuietNames, QuietEnter, FailBinds
<1>2. CASE Parameter
  <2> DEFINE f == Function(Top.name, Append(Top.args, NameOf(tokens[pos])))
             n == Count(2, {"Newline"})
  <2>1. Fail_ \/ Become("param", f, 2) \/ Become("body", f, n)
    BY <1>2 DEF Parameter
  <2> HIDE DEF f, n
  <2> QED BY <2>1, QuietNames, QuietEnter, FailBinds
<1> QED BY <1>1, <1>2

LEMMA TopBinds == ASSUME Here, BindInv, Moves, ParseTop, ~Concurrent PROVE BindInv'
<1>1. CASE TopBody \/ TopSpecial
  <2>1. \/ Call("body", [k |-> "Rule", pattern |-> <<>>], 0)
        \/ Call("body", [k |-> "Special", part |-> T], 1)
    BY <1>1 DEF TopBody, TopSpecial
  <2> QED BY <2>1, QuietNames, QuietEnter
<1>2. CASE RuleDone \/ SpecialDone \/ FunctionDone
  <2>1. Again(0)
    BY <1>2 DEF RuleDone, SpecialDone, FunctionDone
  <2> QED BY <2>1, AgainBinds
<1>3. CASE TopSeparator \/ TopMissing
  <2>1. Fail_ \/ Again(1)
    BY <1>3 DEF TopSeparator, TopMissing
  <2> QED BY <2>1, FailBinds, AgainBinds
<1>4. CASE TopEnd
  BY <1>4, QuietNames, QuietEnter DEF TopEnd
<1> QED BY <1>1, <1>2, <1>3, <1>4, PatternBinds, DirectivesBind, FunctionsBind DEF ParseTop

LEMMA RulesBind == ASSUME Here, BindInv, Stream(tokens), RulesNext PROVE BindInv'
<1>1. CASE Concurrent
  BY <1>1, ConcurrentBinds
<1>2. CASE ~Concurrent
  <2>1. Moves
    BY <1>2, RulesMove
  <2> QED BY <1>2, <2>1, TopBinds, PrattBinds, SimpleStatementBinds, BodyBinds, ParseStatementBinds,
             ForStatementBinds, SwitchBinds DEF RulesNext
<1> QED BY <1>1, <1>2

LEMMA BindInit == FrontInit => BindInv
  BY DEF FrontInit, RulesInit, BindInv

LEMMA BindStep == FrontInv /\ BindInv /\ [FrontNext]_frontvars => BindInv'
<1> SUFFICES ASSUME FrontInv, BindInv, [FrontNext]_frontvars PROVE BindInv'
  OBVIOUS
<1>1. Here /\ Stream(tokens)
  BY DEF FrontInv
<1>2. CASE Lex
  <2>1. lexed = "lexing" /\ UNCHANGED prattvars
    BY <1>2 DEF Lex, LexNext, SkipBlanks, Newline, TokenRule, ParseString, ParseTypedRegex, ParseRegexOrOp,
           Unexpected, LexEnd, Reading
  <2>2. frames = <<>> /\ frames' = frames /\ pos' = pos + 0
    BY <1>1, <2>1, AtEntry DEF prattvars, Here, FrontInv
  <2> QED BY <1>1, <2>2, NobodyWaits
<1>3. CASE ParseProgram
  BY <1>1, <1>3, RulesBind DEF ParseProgram
<1>4. CASE Reprint
  BY <1>4 DEF Reprint, RulesInit, BindInv
<1>5. CASE Stop \/ UNCHANGED frontvars
  <2>1. UNCHANGED lexvars /\ UNCHANGED <<pos, frames, ctl, typed>>
    BY <1>5 DEF Stop, frontvars, prattvars
  <2>2. View' = View
    BY <2>1, ViewStays
  <2> QED BY <2>1, <2>2 DEF BindInv, Top
<1> QED BY <1>2, <1>3, <1>4, <1>5 DEF FrontNext

LEMMA OperandsBound == FrontInv /\ BindInv => OperandsBind
<1> SUFFICES ASSUME FrontInv, BindInv PROVE OperandsBind
  OBVIOUS
<1>1. Here
  BY DEF FrontInv
<1>2. Cut(View) = CutShort
  BY ViewFields DEF Cut, CutShort
<1>3. \A e, bp : FoldedIn(e, bp, View) => Folded(e, bp)
  BY <1>2, ViewFields DEF FoldedIn, Folded
<1>4. \A e, f : CompletesIn(e, f, View) => Completes(e, f)
  BY <1>2, ViewFields DEF CompletesIn, Completes
<1>5. ASSUME At("give"), frames # <<>>, Top.k \in OperatorFrames PROVE Completes(ctl.e, Top)
  <2>1. ctl.go = "give" /\ Bears(ctl, Top, View)
    BY <1>5 DEF At, BindInv
  <2> QED BY <1>4, <1>5, <2>1 DEF Bears
<1>6. ASSUME At("fold") PROVE Folded(L, ctl.bp)
  <2>1. ctl.go = "fold"
    BY <1>6 DEF At
  <2> QED BY <1>1, <1>3, <2>1, FoldHolds
<1> QED BY <1>5, <1>6 DEF OperandsBind

(* fold_rhs and parse_infix_op of parser/src/pratt.rs: of two operators *)
(* the operand between them goes to the one that binds more, and to the    *)
(* left one if they associate to the left, for every source and however    *)
(* deep its operators are nested.                                          *)
THEOREM OperandsAlwaysBind == FrontSpec => []OperandsBind
<1>1. FrontInit => FrontInv /\ BindInv
  BY FrontInit_, BindInit
<1>2. FrontInv /\ BindInv /\ [FrontNext]_frontvars => FrontInv' /\ BindInv'
  BY FrontStep, BindStep
<1>3. FrontInv /\ BindInv => OperandsBind
  BY OperandsBound
<1> QED BY <1>1, <1>2, <1>3, PTL DEF FrontSpec
-----------------------------------------------------------------------------
(* How long the parser takes.  A step passes a token, and calls no more    *)
(* than a few functions on the way, or it leaves less work.                *)
Falls == Effort' < Effort

LEMMA Works ==
    ASSUME NEW k
    PROVE  /\ \A go : WorkOf(go, k) \in 0 .. 117
           /\ \A go \in {"failed", "panicked", "parsed"} : WorkOf(go, k) = 0
           /\ \A go \in {"prefix", "place", "body", "param"} : WorkOf(go, k) = 1
           /\ WorkOf("lhs", k) = 2
           /\ WorkOf("start", k) = 30 /\ WorkOf("statement", k) = 50 /\ WorkOf("stmtbody", k) = 70
           /\ \A go \in {"top", "block", "switch", "redirect", "forupdate"} : WorkOf(go, k) = 102
           /\ WorkOf("forloop", k) = 103
           /\ \A go \in {"list", "simple", "done", "body!"} : WorkOf(go, k) = 104
           /\ WorkOf("args", k) = 106 /\ WorkOf("file", k) = 110 /\ WorkOf("fold", k) = 117
           /\ WorkOf("give", k) = IF k = "Fold" THEN 108 ELSE IF k = "Paren" THEN 116 ELSE 105
  BY DEF WorkOf

LEMMA GoFalls ==
    ASSUME FrontInv, NEW c, NEW fs, NEW n \in Nat, NEW ty, Go(c, fs, n, ty), Len(fs) \in Nat,
           10 * Len(fs) + WorkOf(c.go, fs[1].k) < 200 * n + 10 * Len(frames) + WorkOf(ctl.go, Top.k)
    PROVE  Falls
<1>1. ctl' = c /\ frames' = fs /\ pos' = pos + n /\ UNCHANGED lexvars
  BY DEF Go
<1>2. tokens' = tokens /\ Top' = fs[1]
  BY <1>1 DEF lexvars, Top
<1>3. Len(frames) \in Nat /\ Len(tokens) \in Nat /\ pos \in Nat
  BY StreamFacts DEF FrontInv, Here, Running, CallStack
<1> DEFINE w == WorkOf(ctl.go, Top.k)
           v == WorkOf(c.go, fs[1].k)
<1>4. w \in 0 .. 117 /\ v \in 0 .. 117
  BY Works
<1>5. Effort = 200 * (Len(tokens) + 1 - pos) + 10 * Len(frames) + w
  BY DEF Effort
<1>6. Effort' = 200 * (Len(tokens) + 1 - (pos + n)) + 10 * Len(fs) + v
  BY <1>1, <1>2 DEF Effort
<1>7. 10 * Len(fs) + v < 200 * n + 10 * Len(frames) + w
  OBVIOUS
<1> HIDE DEF w, v
<1> QED BY <1>3, <1>4, <1>5, <1>6, <1>7 DEF Falls

LEMMA Lengths ==
    ASSUME NEW s, Stream(s)
    PROVE  /\ Len(s) \in Nat /\ Len(<<>>) = 0
           /\ \A x : /\ Stream(<<x>> \o s) /\ Len(<<x>> \o s) = Len(s) + 1
                     /\ (<<x>> \o s)[1] = x
           /\ \A x, y : /\ Stream(<<x, y>> \o s) /\ Len(<<x, y>> \o s) = Len(s) + 2
                        /\ (<<x, y>> \o s)[1] = x
<1>1. ASSUME NEW x, NEW y
      PROVE  /\ Stream(<<x, y>> \o s) /\ Len(<<x, y>> \o s) = Len(s) + 2 /\ (<<x, y>> \o s)[1] = x
  <2> DEFINE r == <<y>> \o s
  <2>1. Stream(r) /\ Len(r) = Len(s) + 1
    BY StreamPush
  <2>2. <<x, y>> \o s = <<x>> \o r
    BY PushBoth
  <2> HIDE DEF r
  <2>3. Stream(<<x>> \o r) /\ Len(<<x>> \o r) = Len(r) + 1 /\ (<<x>> \o r)[1] = x
    BY <2>1, StreamPush
  <2>4. Len(s) \in Nat /\ Len(r) + 1 = Len(s) + 2
    BY <2>1, StreamFacts
  <2> QED BY <2>2, <2>3, <2>4
<1> QED BY <1>1, StreamPush, StreamFacts

(* A step that passes a token. *)
LEMMA PassFalls ==
    ASSUME FrontInv, NEW c, NEW fs, NEW n \in Nat, n >= 1, NEW ty, Go(c, fs, n, ty), Stream(fs),
           Len(fs) <= Len(frames) + 8
    PROVE  Falls
<1> DEFINE w == WorkOf(ctl.go, Top.k)
           v == WorkOf(c.go, fs[1].k)
<1>1. Len(frames) \in Nat /\ Len(fs) \in Nat
  BY StreamFacts DEF FrontInv, Here, Running, CallStack
<1>2. w \in 0 .. 117 /\ v \in 0 .. 117
  BY Works
<1>3. SUFFICES 10 * Len(fs) + v < 200 * n + 10 * Len(frames) + w
  BY <1>1, GoFalls
<1> HIDE DEF w, v
<1> QED BY <1>1, <1>2

LEMMA ParsePasses ==
    ASSUME FrontInv, NEW bp, NEW fs, NEW n \in Nat, n >= 1, NEW ty, Parse(bp, fs, n, ty), Stream(fs),
           Len(fs) <= Len(frames) + 7
    PROVE  Falls
<1> DEFINE f == Folding(bp, "none")
           c == Lhs(bp)
<1>1. Go(c, <<f>> \o fs, n, ty)
  BY DEF Parse
<1> HIDE DEF f, c
<1>2. Stream(<<f>> \o fs) /\ Len(<<f>> \o fs) = Len(fs) + 1 /\ Len(fs) \in Nat /\ Len(frames) \in Nat
  BY Lengths, StreamFacts DEF FrontInv, Here, Running, CallStack
<1>3. Len(<<f>> \o fs) <= Len(frames) + 8
  BY <1>2
<1> QED BY <1>1, <1>2, <1>3, PassFalls

(* A step that passes none: the callers stay, one is called, one is given  *)
(* its value, one goes on.                                                 *)
LEMMA StayFalls ==
    ASSUME FrontInv, NEW c, NEW n \in Nat, NEW ty, Go(c, frames, n, ty),
           WorkOf(c.go, Top.k) < WorkOf(ctl.go, Top.k)
    PROVE  Falls
<1> DEFINE w == WorkOf(ctl.go, Top.k)
           v == WorkOf(c.go, Top.k)
<1>1. Len(frames) \in Nat /\ frames[1] = Top
  BY StreamFacts DEF FrontInv, Here, Running, CallStack, Top
<1>2. w \in Nat /\ v \in Nat /\ v < w
  BY Works
<1>3. SUFFICES 10 * Len(frames) + v < 200 * n + 10 * Len(frames) + w
  BY <1>1, GoFalls
<1> HIDE DEF w, v
<1> QED BY <1>1, <1>2

LEMMA PushFalls ==
    ASSUME FrontInv, NEW c, NEW f, NEW n \in Nat, NEW ty, Go(c, <<f>> \o frames, n, ty),
           WorkOf(c.go, f.k) + 10 < WorkOf(ctl.go, Top.k)
    PROVE  Falls
<1> DEFINE w == WorkOf(ctl.go, Top.k)
           v == WorkOf(c.go, f.k)
           fs == <<f>> \o frames
<1>1. Len(frames) \in Nat /\ Len(fs) \in Nat /\ Len(fs) = Len(frames) + 1 /\ fs[1] = f
  BY Lengths, StreamFacts DEF FrontInv, Here, Running, CallStack
<1>2. w \in 0 .. 117 /\ v \in 0 .. 117 /\ v + 10 < w
  BY Works
<1> HIDE DEF fs
<1>3. SUFFICES 10 * Len(fs) + v < 200 * n + 10 * Len(frames) + w
  BY <1>1, GoFalls DEF fs
<1> HIDE DEF w, v
<1> QED BY <1>1, <1>2

LEMMA PopFalls ==
    ASSUME FrontInv, frames # <<>>, NEW c, NEW n \in Nat, NEW ty, Go(c, Tail(frames), n, ty),
           WorkOf(c.go, Tail(frames)[1].k) < WorkOf(ctl.go, Top.k) + 10
    PROVE  Falls
<1> DEFINE w == WorkOf(ctl.go, Top.k)
           fs == Tail(frames)
           v == WorkOf(c.go, fs[1].k)
<1>1. Len(frames) \in Nat /\ Len(fs) \in Nat /\ Len(fs) = Len(frames) - 1
  BY StreamPop, StreamFacts DEF FrontInv, Here, Running, CallStack
<1>2. w \in 0 .. 117 /\ v \in 0 .. 117
  BY Works
<1>4. v < w + 10
  OBVIOUS
<1> HIDE DEF fs
<1>3. SUFFICES 10 * Len(fs) + v < 200 * n + 10 * Len(frames) + w
  BY <1>1, GoFalls DEF fs
<1> HIDE DEF w, v
<1> QED BY <1>1, <1>2, <1>4

LEMMA SwapFalls ==
    ASSUME FrontInv, frames # <<>>, NEW c, NEW f, NEW n \in Nat, NEW ty, Go(c, <<f>> \o Tail(frames), n, ty),
           WorkOf(c.go, f.k) < WorkOf(ctl.go, Top.k)
    PROVE  Falls
<1> DEFINE w == WorkOf(ctl.go, Top.k)
           v == WorkOf(c.go, f.k)
           r == Tail(frames)
           fs == <<f>> \o r
<1>1. Stream(r) /\ Len(r) = Len(frames) - 1 /\ Len(frames) \in Nat /\ Len(frames) >= 1
  BY StreamPop DEF FrontInv, Here, Running, CallStack
<1> HIDE DEF r
<1>2. Len(fs) = Len(frames) /\ fs[1] = f
  BY <1>1, Lengths
<1>3. w \in 0 .. 117 /\ v \in 0 .. 117 /\ v < w
  BY Works
<1> HIDE DEF fs
<1>4. SUFFICES 10 * Len(fs) + v < 200 * n + 10 * Len(frames) + w
  BY <1>1, <1>2, GoFalls DEF fs, r
<1> HIDE DEF w, v
<1> QED BY <1>1, <1>2, <1>3

LEMMA FailFalls == ASSUME FrontInv, Fail_, ctl.go \notin {"failed", "panicked", "parsed"} PROVE Falls
<1>1. Go(Failed, frames, 0, typed) /\ Failed.go = "failed"
  BY DEF Fail_, Failed
<1>2. WorkOf(Failed.go, Top.k) = 0
  BY <1>1, Works
<1>3. WorkOf(ctl.go, Top.k) > 0
  BY DEF WorkOf
<1> QED BY <1>1, <1>2, <1>3, StayFalls

(* The callers of a function that has one. *)
LEMMA Called ==
    ASSUME FrontInv
    PROVE  /\ Stream(frames) /\ Len(frames) \in Nat
           /\ ctl.go \in ExprRuns \cup OtherRuns \cup {"args", "list"} =>
                 frames # <<>> /\ Stream(Tail(frames)) /\ Len(Tail(frames)) = Len(frames) - 1 /\ Len(frames) >= 1
<1>1. Here /\ Stream(frames) /\ Len(frames) \in Nat
  BY StreamFacts DEF FrontInv, Here, Running, CallStack
<1>2. ctl.go \in ExprRuns \cup OtherRuns \cup {"args", "list"} => frames # <<>>
  BY <1>1, UnderExpr, UnderOther, UnderArgs
<1> QED BY <1>1, <1>2, StreamPop

LEMMA CallPasses ==
    ASSUME FrontInv, NEW f, NEW fs, Stream(fs), Len(fs) <= Len(frames) + 1, NEW n \in Nat, n >= 1, NEW ty,
           NEW c, Go(c, <<f>> \o fs, n, ty)
    PROVE  Falls
<1> DEFINE gs == <<f>> \o fs
<1>1. Stream(gs) /\ Len(gs) = Len(fs) + 1 /\ Len(fs) \in Nat /\ Len(frames) \in Nat
  BY Lengths DEF FrontInv, Here, Running, CallStack
<1>2. Go(c, gs, n, ty)
  OBVIOUS
<1> HIDE DEF gs
<1>3. Len(gs) <= Len(frames) + 8
  BY <1>1
<1> QED BY <1>1, <1>2, <1>3, PassFalls

LEMMA AskPasses ==
    ASSUME FrontInv, NEW f, NEW fs, Stream(fs), Len(fs) <= Len(frames) + 1, NEW n \in Nat, n >= 1, NEW ty,
           NEW bp, Parse(bp, <<f>> \o fs, n, ty)
    PROVE  Falls
<1> DEFINE gs == <<f>> \o fs
<1>1. Stream(gs) /\ Len(gs) = Len(fs) + 1 /\ Len(fs) \in Nat /\ Len(frames) \in Nat
  BY Lengths DEF FrontInv, Here, Running, CallStack
<1>2. Parse(bp, gs, n, ty)
  OBVIOUS
<1> HIDE DEF gs
<1>3. Len(gs) <= Len(frames) + 7
  BY <1>1
<1> QED BY <1>1, <1>2, <1>3, ParsePasses

LEMMA PairPasses ==
    ASSUME FrontInv, NEW g, NEW f, NEW fs, Stream(fs), Len(fs) <= Len(frames) + 1, NEW n \in Nat, n >= 1, NEW ty,
           NEW bp, Parse(bp, <<g, f>> \o fs, n, ty)
    PROVE  Falls
<1> DEFINE gs == <<g, f>> \o fs
<1>1. Stream(gs) /\ Len(gs) = Len(fs) + 2 /\ Len(fs) \in Nat /\ Len(frames) \in Nat
  BY Lengths DEF FrontInv, Here, Running, CallStack
<1>2. Parse(bp, gs, n, ty)
  OBVIOUS
<1> HIDE DEF gs
<1>3. Len(gs) <= Len(frames) + 7
  BY <1>1
<1> QED BY <1>1, <1>2, <1>3, ParsePasses

(* The same callers, or all but the first, and a token passed. *)
LEMMA OnPasses ==
    ASSUME FrontInv, NEW c, NEW fs, Stream(fs), Len(fs) <= Len(frames) + 1, NEW n \in Nat, n >= 1, NEW ty,
           Go(c, fs, n, ty)
    PROVE  Falls
<1>1. Len(fs) \in Nat /\ Len(frames) \in Nat
  BY Lengths DEF FrontInv, Here, Running, CallStack
<1>2. Len(fs) <= Len(frames) + 8
  BY <1>1
<1> QED BY <1>2, PassFalls

LEMMA Names ==
    /\ \A bp : Lhs(bp).go = "lhs"
    /\ \A bp, stop, e : Fold(bp, stop, e).go = "fold"
    /\ \A g : Enter(g).go = g
    /\ \A p : File(p).go = "file"
    /\ \A e : Give(e).go = "give"
    /\ \A es : GiveList(es).go = "list"
    /\ \A s : Simple(s).go = "simple" /\ Done_(s).go = "done" /\ GiveBody(s).go = "body!"
  BY DEF Lhs, Fold, Enter, File, Give, GiveList, Simple, Done_, GiveBody

(* Who waits is below what runs. *)
LEMMA LessOne == ASSUME FrontInv PROVE Len(frames) <= Len(frames) + 1
  BY Called

LEMMA ParenthesisFalls == ASSUME FrontInv, Parenthesis PROVE Falls
<1> DEFINE f == [k |-> "Paren", bp |-> ctl.bp]
           ty == FALSE
<1>1. Parse(0, <<f>> \o frames, 1, ty)
  BY DEF Parenthesis
<1> HIDE DEF f, ty
<1> QED BY <1>1, Called, LessOne, AskPasses

LEMMA PrefixOperatorFalls == ASSUME FrontInv, PrefixOperator PROVE Falls
<1>1. ctl.go = "lhs" /\ Go(Enter("prefix"), frames, 0, typed) /\ Enter("prefix").go = "prefix"
  BY Names DEF PrefixOperator, At
<1>2. WorkOf(Enter("prefix").go, Top.k) < WorkOf(ctl.go, Top.k)
  BY <1>1, Works
<1> QED BY <1>1, <1>2, StayFalls

LEMMA ParsePrefixFalls == ASSUME FrontInv, ParsePrefix PROVE Falls
<1> DEFINE f == [k |-> "Incr", op |-> T]
           g == [k |-> "Unary", op |-> T]
           c == Enter("place")
           bp == UnaryBp(T)
           ty == FALSE
<1>1. Go(c, <<f>> \o frames, 1, ty) \/ Parse(bp, <<g>> \o frames, 1, ty)
  BY DEF ParsePrefix
<1> HIDE DEF f, g, c, bp, ty
<1> QED BY <1>1, Called, LessOne, CallPasses, AskPasses

LEMMA GetlinePrefixFalls == ASSUME FrontInv, GetlinePrefix PROVE Falls
<1> DEFINE f == [k |-> "GetlinePlace"]
           c == File(<<>>)
           bp == BP_CONCAT.r - 1
           ty == FALSE
<1>1. Go(c, frames, 1, ty) \/ Parse(bp, <<f>> \o frames, 1, ty)
  BY DEF GetlinePrefix
<1> HIDE DEF f, c, bp, ty
<1> QED BY <1>1, Called, LessOne, CallPasses, AskPasses, OnPasses

LEMMA GetlineFileFalls == ASSUME FrontInv, BindInv, GetlineFile PROVE Falls
<1> DEFINE f == [k |-> "GetlineFile", p |-> ctl.p]
           c == Give(GetlineOf("input", ctl.p, <<>>))
           bp == BP_CMP.r
<1>1. ctl.go = "file" /\ (Parse(bp, <<f>> \o frames, 1, typed) \/ Go(c, frames, 0, typed))
  BY DEF GetlineFile, At
<1>2. c.go = "give"
  BY Names
<1>3. Top.k = "Fold"
  BY <1>1, WaitingInside DEF FrontInv
<1> HIDE DEF f, c, bp
<1>4. CASE Parse(bp, <<f>> \o frames, 1, typed)
  BY <1>4, Called, LessOne, AskPasses
<1>5. CASE Go(c, frames, 0, typed)
  <2>1. WorkOf(c.go, Top.k) < WorkOf(ctl.go, Top.k)
    BY <1>1, <1>2, <1>3, Works
  <2> QED BY <1>5, <2>1, StayFalls
<1> QED BY <1>1, <1>4, <1>5

LEMMA AtomOrCallFalls == ASSUME FrontInv, AtomOrCall PROVE Falls
<1> DEFINE f == [k |-> "Call", how |-> T, name |-> NameOf(tokens[pos]), typed |-> typed]
           c == Enter("args")
           d == Give(VariableOf(tokens[pos]))
           e == Give(Atom(T, tokens[pos].s))
<1>1. /\ ctl.go = "lhs"
      /\ Go(c, <<f>> \o frames, 2, typed) \/ Go(d, frames, 1, typed) \/ Go(e, frames, 1, typed) \/ Fail_
  BY DEF AtomOrCall, At
<1> HIDE DEF f, c, d, e
<1> QED BY <1>1, Called, LessOne, CallPasses, AskPasses, OnPasses, FailFalls

LEMMA ParseArgsFalls == ASSUME FrontInv, ParseArgs PROVE Falls
<1> DEFINE f == Items(<<>>, TRUE)
           g == Folding(0, "none")
           c == Lhs(0)
           d == GiveList(<<>>)
           gs == <<f>> \o frames
<1>1. ctl.go = "args" /\ (Go(d, frames, 0, typed) \/ Go(c, <<g>> \o gs, 0, TRUE))
  BY DEF ParseArgs, At, Parse
<1>2. c.go = "lhs" /\ d.go = "list"
  BY Names
<1>3. Stream(gs) /\ Len(gs) = Len(frames) + 1
  BY Called, Lengths
<1> HIDE DEF f, g, c, d, gs
<1>4. CASE Go(d, frames, 0, typed)
  <2>1. WorkOf(d.go, Top.k) < WorkOf(ctl.go, Top.k)
    BY <1>1, <1>2, Works
  <2> QED BY <1>4, <2>1, StayFalls
<1>5. CASE Go(c, <<g>> \o gs, 0, TRUE)
  <2> DEFINE hs == <<g>> \o gs
  <2>1. Len(hs) \in Nat /\ Len(hs) = Len(frames) + 2 /\ Len(frames) \in Nat
    BY <1>3, Called, Lengths
  <2> HIDE DEF hs
  <2>2. WorkOf(c.go, hs[1].k) = 2 /\ WorkOf(ctl.go, Top.k) = 106
    BY <1>1, <1>2, Works
  <2>3. 10 * Len(hs) + WorkOf(c.go, hs[1].k) < 200 * 0 + 10 * Len(frames) + WorkOf(ctl.go, Top.k)
    BY <2>1, <2>2
  <2>4. Go(c, hs, 0, TRUE)
    BY <1>5 DEF hs
  <2> QED BY <2>1, <2>3, <2>4, GoFalls
<1> QED BY <1>1, <1>4, <1>5

LEMMA ParsePlaceFalls == ASSUME FrontInv, ParsePlace PROVE Falls
<1> DEFINE f == [k |-> "Unary", op |-> "$"]
           v == VariableOf(tokens[pos])
           g == Items(<<>>, FALSE)
           h == Indexing(v, TRUE)
           c == Give(v)
<1>1. ctl.go = "place" /\ (\/ Parse(BP_RECORD, <<f>> \o frames, 1, typed)
                           \/ Parse(0, <<g, h>> \o frames, 2, typed)
                           \/ Go(c, frames, 1, typed)
                           \/ Fail_)
  BY DEF ParsePlace, At
<1> HIDE DEF f, v, g, h, c
<1> QED BY <1>1, Called, LessOne, CallPasses, AskPasses, PairPasses, OnPasses, FailFalls

LEMMA LhsFalls == ASSUME FrontInv, BindInv, ParseLhs PROVE Falls
<1>1. CASE LhsMissing
  <2>1. ctl.go = "lhs" /\ Fail_
    BY <1>1 DEF LhsMissing, At
  <2> QED BY <2>1, FailFalls
<1> QED BY <1>1, ParenthesisFalls, PrefixOperatorFalls, ParsePrefixFalls, GetlinePrefixFalls, GetlineFileFalls,
           AtomOrCallFalls, ParseArgsFalls, ParsePlaceFalls DEF ParseLhs

(* An operand is given back to the fold, or the prefix, that waits for it. *)
LEMMA BelowOperand ==
    ASSUME FrontInv, BindInv, ctl.go = "give", Top.k \in ExprKinds \ {"Fold", "Paren"}
    PROVE  Tail(frames)[1].k \in {"Fold", "Incr", "In", "Concat"}
<1>1. Here /\ Top.k \in Inside /\ Answer(Top.k) = "expr"
  BY ExprFrame DEF FrontInv, Inside
<1>2. frames # <<>> /\ Takes(Tail(frames), "expr")
  BY <1>1, UnderExpr DEF ExprRuns
<1>3. Tail(frames) # <<>>
  BY <1>2 DEF Takes
<1>4. Between(Top, Tail(frames)[1], View)
  BY <1>1, <1>2, <1>3, Held
<1> QED BY <1>4 DEF Between, ExprKinds

LEMMA ReturnFalls ==
    ASSUME FrontInv, BindInv, ctl.go = "give", Top.k \in ExprKinds \ {"Fold", "Paren"}, NEW e, NEW n \in Nat,
           Return(e, n)
    PROVE  Falls
<1> DEFINE c == Give(e)
           k == Tail(frames)[1].k
<1>1. Go(c, Tail(frames), n, typed) /\ c.go = "give"
  BY Names DEF Return
<1>2. k \in {"Fold", "Incr", "In", "Concat"} /\ frames # <<>>
  BY BelowOperand, Called DEF ExprRuns
<1>3. Top.k \notin {"Fold", "Paren"} /\ k # "Paren"
  BY <1>2
<1> HIDE DEF c, k
<1>4. WorkOf(c.go, k) <= 108 /\ WorkOf(c.go, k) \in Nat /\ WorkOf(ctl.go, Top.k) = 105
  BY <1>1, <1>3, Works
<1>5. WorkOf(c.go, k) < WorkOf(ctl.go, Top.k) + 10
  BY <1>4
<1> QED BY <1>1, <1>2, <1>5, PopFalls DEF k

LEMMA ReturnPasses ==
    ASSUME FrontInv, ctl.go \in {"give", "list"}, NEW e, NEW n \in Nat, n >= 1, Return(e, n) PROVE Falls
<1> DEFINE c == Give(e)
           fs == Tail(frames)
<1>1. Go(c, fs, n, typed)
  BY DEF Return
<1>2. Stream(fs) /\ Len(fs) <= Len(frames) + 1
  BY Called DEF ExprRuns
<1> HIDE DEF c, fs
<1> QED BY <1>1, <1>2, OnPasses

(* The callers below the first. *)
LEMMA FewerCallers ==
    ASSUME FrontInv, ctl.go \in ExprRuns \cup OtherRuns \cup {"args", "list"}
    PROVE  Stream(Tail(frames)) /\ Len(Tail(frames)) <= Len(frames) + 1
  BY Called

LEMMA FoldOnFalls == ASSUME FrontInv, FoldOn PROVE Falls
<1> DEFINE c == Fold(Top.bp, Top.stop, ctl.e)
<1>1. ctl.go = "give" /\ Top.k = "Fold" /\ Go(c, Tail(frames), 0, typed) /\ c.go = "fold"
  BY Names DEF FoldOn, Given, At
<1> HIDE DEF c
<1>2. frames # <<>>
  BY <1>1, Called DEF ExprRuns
<1>3. WorkOf(c.go, Tail(frames)[1].k) < WorkOf(ctl.go, Top.k) + 10
  BY <1>1, Works
<1> QED BY <1>1, <1>2, <1>3, PopFalls

(* The operators, once they have their operands. *)
LEMMA OperandsFall ==
    ASSUME FrontInv, BindInv,
           UnaryDone \/ IncrDone \/ InDone \/ GetlineFileDone \/ ConcatDone \/ InfixDone \/ AssignDone \/ ElseDone
           \/ PipeDone
    PROVE  Falls
<1>1. ctl.go = "give" /\ Top.k \in ExprKinds \ {"Fold", "Paren"}
  BY DEF UnaryDone, IncrDone, InDone, GetlineFileDone, ConcatDone, InfixDone, AssignDone, ElseDone, PipeDone,
         Given, At, ExprKinds
<1>2. Fail_ \/ \E e : Return(e, 0)
  BY DEF UnaryDone, IncrDone, InDone, GetlineFileDone, ConcatDone, InfixDone, AssignDone, ElseDone, PipeDone
<1> QED BY <1>1, <1>2, ReturnFalls, FailFalls

LEMMA ParenDoneFalls == ASSUME FrontInv, ParenDone PROVE Falls
<1> DEFINE g == Items(<<>>, FALSE)
           f == [k |-> "InList"]
           r == Tail(frames)
           fs == <<g, f>> \o r
<1>1. ctl.go = "give" /\ Top.k = "Paren" /\ (Go(ctl, fs, 0, typed) \/ Return(ctl.e, 1) \/ Fail_)
  BY DEF ParenDone, Given, At
<1>2. CASE Go(ctl, fs, 0, typed)
  <2>1. Stream(r) /\ Len(r) = Len(frames) - 1 /\ Len(frames) \in Nat /\ Len(frames) >= 1
    BY <1>1, Called DEF ExprRuns
  <2>2. g.k = "Items"
    BY DEF Items
  <2> HIDE DEF g, f, r
  <2>3. Len(fs) = Len(r) + 2 /\ fs[1] = g
    BY <2>1, Lengths
  <2>4. Len(fs) \in Nat /\ Len(fs) = Len(frames) + 1
    BY <2>1, <2>3
  <2>5. WorkOf(ctl.go, fs[1].k) = 105 /\ WorkOf(ctl.go, Top.k) = 116
    BY <1>1, <2>2, <2>3, Works
  <2> HIDE DEF fs
  <2>6. 10 * Len(fs) + WorkOf(ctl.go, fs[1].k) < 200 * 0 + 10 * Len(frames) + WorkOf(ctl.go, Top.k)
    BY <2>1, <2>4, <2>5
  <2> QED BY <1>2, <2>4, <2>6, GoFalls
<1> HIDE DEF fs
<1> QED BY <1>1, <1>2, ReturnPasses, FailFalls

LEMMA InListDoneFalls == ASSUME FrontInv, InListDone PROVE Falls
<1> DEFINE f == [k |-> "In", es |-> ctl.es]
           c == Enter("place")
           r == Tail(frames)
<1>1. ctl.go = "list" /\ (Go(c, <<f>> \o r, 2, typed) \/ Fail_)
  BY DEF InListDone, GivenList, At
<1>2. Stream(r) /\ Len(r) <= Len(frames) + 1
  BY <1>1, FewerCallers DEF ExprRuns
<1> HIDE DEF r, f, c
<1> QED BY <1>1, <1>2, CallPasses, FailFalls

LEMMA NextItemFalls == ASSUME FrontInv, NextItem PROVE Falls
<1> DEFINE es == Append(Top.es, ctl.e)
           f == Items(es, Top.arg)
           c == GiveList(es)
           ty == Top.arg \/ typed
           r == Tail(frames)
<1>1. ctl.go = "give" /\ Top.k = "Items" /\ (Parse(0, <<f>> \o r, 1, ty) \/ Go(c, r, 0, typed))
  BY DEF NextItem, Given, At
<1>2. c.go = "list" /\ frames # <<>> /\ ctl.go \in ExprRuns
  BY <1>1, Names, Called DEF ExprRuns
<1>3. Stream(r) /\ Len(r) <= Len(frames) + 1
  BY <1>2, FewerCallers
<1>4. CASE Parse(0, <<f>> \o r, 1, ty)
  <2> HIDE DEF f, ty, r
  <2> QED BY <1>3, <1>4, AskPasses
<1>5. CASE Go(c, r, 0, typed)
  <2> HIDE DEF c
  <2>1. WorkOf(c.go, r[1].k) < WorkOf(ctl.go, Top.k) + 10
    BY <1>1, <1>2, Works
  <2> QED BY <1>2, <1>5, <2>1, PopFalls
<1> QED BY <1>1, <1>4, <1>5

LEMMA CallDoneFalls == ASSUME FrontInv, CallDone PROVE Falls
<1> DEFINE c == Give(CallOf(Top.how, Top.name, ctl.es))
           r == Tail(frames)
<1>1. ctl.go = "list" /\ (Go(c, r, 1, Top.typed) \/ Fail_)
  BY DEF CallDone, GivenList, At
<1>2. Stream(r) /\ Len(r) <= Len(frames) + 1
  BY <1>1, FewerCallers DEF ExprRuns
<1> HIDE DEF r, c
<1> QED BY <1>1, <1>2, OnPasses, FailFalls

LEMMA IndexDoneFalls == ASSUME FrontInv, IndexDone PROVE Falls
<1> DEFINE x == IF IsVariable(Top.v) THEN IndexOf(Top.v, ctl.es) ELSE NestedOf(Top.v, ctl.es)
           g == Items(<<>>, FALSE)
           h == Indexing(x, TRUE)
           r == Tail(frames)
<1>1. ctl.go = "list" /\ (Fail_ \/ Parse(0, <<g, h>> \o r, 2, typed) \/ Return(x, 1))
  BY DEF IndexDone, GivenList, At
<1>2. Stream(r) /\ Len(r) <= Len(frames) + 1
  BY <1>1, FewerCallers DEF ExprRuns
<1> HIDE DEF r, x, g, h
<1> QED BY <1>1, <1>2, PairPasses, ReturnPasses, FailFalls

LEMMA GetlinePlaceDoneFalls == ASSUME FrontInv, BindInv, GetlinePlaceDone PROVE Falls
<1> DEFINE c == File(<<ctl.e>>)
           e == BinaryOf(Concat, GetlineOf("input", <<>>, <<>>), ctl.e)
<1>1. ctl.go = "give" /\ Top.k = "GetlinePlace" /\ (Go(c, Tail(frames), 0, typed) \/ Return(e, 0))
  BY DEF GetlinePlaceDone, Given, At
<1>2. c.go = "file" /\ frames # <<>> /\ Top.k \in ExprKinds \ {"Fold", "Paren"}
  BY <1>1, Names, Called DEF ExprRuns, ExprKinds
<1> HIDE DEF c, e
<1>3. WorkOf(c.go, Tail(frames)[1].k) < WorkOf(ctl.go, Top.k) + 10
  BY <1>1, <1>2, Works
<1> QED BY <1>1, <1>2, <1>3, PopFalls, ReturnFalls

LEMMA ThenDoneFalls == ASSUME FrontInv, ThenDone PROVE Falls
<1> DEFINE f == [k |-> "Else", c |-> Top.c, t |-> ctl.e]
           r == Tail(frames)
<1>1. ctl.go = "give" /\ ctl.go \in ExprRuns /\ (Parse(BP_TERNARY.r, <<f>> \o r, 1, typed) \/ Fail_)
  BY DEF ThenDone, Given, At, ExprRuns
<1>2. Stream(r) /\ Len(r) <= Len(frames) + 1
  BY <1>1, FewerCallers DEF ExprRuns
<1> HIDE DEF r, f
<1> QED BY <1>1, <1>2, AskPasses, FailFalls

LEMMA DoneFalls == ASSUME FrontInv, BindInv, Done PROVE Falls
  BY FoldOnFalls, OperandsFall, ParenDoneFalls, InListDoneFalls, NextItemFalls, CallDoneFalls, IndexDoneFalls,
     GetlinePlaceDoneFalls, ThenDoneFalls DEF Done

LEMMA Resumed ==
    ASSUME FrontInv PROVE Stream(Resume) /\ Len(Resume) = Len(frames) + 1 /\ Len(Resume) <= Len(frames) + 1
<1> DEFINE f == Folding(ctl.bp, ctl.stop)
<1>1. Resume = <<f>> \o frames
  BY DEF Resume
<1> HIDE DEF f
<1>2. Stream(<<f>> \o frames) /\ Len(<<f>> \o frames) = Len(frames) + 1 /\ Len(frames) \in Nat
  BY Called, Lengths
<1> QED BY <1>1, <1>2

LEMMA FoldEndFalls == ASSUME FrontInv, FoldStop \/ FoldError \/ FoldBreak PROVE Falls
<1> DEFINE c == Give(L)
<1>1. ctl.go = "fold" /\ (Go(c, frames, 0, typed) \/ (\E x : Go(c, frames, 0, x)) \/ Fail_)
  BY DEF FoldStop, FoldError, FoldBreak, At
<1>2. c.go = "give"
  BY Names
<1> HIDE DEF c
<1>3. WorkOf(c.go, Top.k) < WorkOf(ctl.go, Top.k)
  BY <1>1, <1>2, Works
<1> QED BY <1>1, <1>3, StayFalls, FailFalls

LEMMA FoldSuffixFalls == ASSUME FrontInv, FoldSuffix PROVE Falls
<1> DEFINE c == Fold(ctl.bp, ctl.stop, IncrOf(T, TRUE, L))
           p == Enter("prefix")
           f == [k |-> "Concat", l |-> L]
           ty == FALSE
           fs == <<f>> \o Resume
<1>1. ctl.go = "fold" /\ (Go(c, frames, 1, ty) \/ Go(p, fs, 0, ty))
  BY DEF FoldSuffix, FoldAt, At
<1>2. p.go = "prefix"
  BY Names
<1> HIDE DEF c, p, f, ty
<1>3. Len(fs) = Len(Resume) + 1 /\ Len(Resume) = Len(frames) + 1 /\ Len(frames) \in Nat
  BY Resumed, Lengths, Called
<1> HIDE DEF fs
<1>4. Len(fs) \in Nat /\ Len(fs) = Len(frames) + 2
  BY <1>3
<1>5. WorkOf(p.go, fs[1].k) = 1 /\ WorkOf(ctl.go, Top.k) = 117
  BY <1>1, <1>2, Works
<1>6. 10 * Len(fs) + WorkOf(p.go, fs[1].k) < 200 * 0 + 10 * Len(frames) + WorkOf(ctl.go, Top.k)
  BY <1>3, <1>4, <1>5
<1>7. CASE Go(c, frames, 1, ty)
  BY <1>7, Called, LessOne, OnPasses
<1>8. CASE Go(p, fs, 0, ty)
  BY <1>4, <1>6, <1>8, GoFalls
<1> QED BY <1>1, <1>7, <1>8

LEMMA FoldAssignFalls == ASSUME FrontInv, FoldAssign PROVE Falls
<1> DEFINE f == [k |-> "Assign", op |-> T, p |-> L]
           c == Fold(BP_ASSIGN.l, "question", Atom("TypedRegex", tokens[pos + 1].s))
           yes == TRUE
           ty == (T = "=")
           r == Resume
<1>1. /\ ctl.go = "fold"
      /\ Fail_ \/ Go(c, <<f>> \o r, 2, yes) \/ Parse(BP_ASSIGN.r, <<f>> \o r, 1, ty)
  BY DEF FoldAssign, FoldAt, At
<1>2. Stream(r) /\ Len(r) <= Len(frames) + 1
  BY Resumed
<1> HIDE DEF f, c, yes, ty, r
<1> QED BY <1>1, <1>2, CallPasses, AskPasses, FailFalls

LEMMA FoldIndexFalls == ASSUME FrontInv, FoldIndex PROVE Falls
<1> DEFINE g == Items(<<>>, FALSE)
           h == Indexing(L, FALSE)
           ty == FALSE
           r == Resume
<1>1. ctl.go = "fold" /\ (Parse(0, <<g, h>> \o r, 1, ty) \/ Fail_)
  BY DEF FoldIndex, FoldAt, At
<1>2. Stream(r) /\ Len(r) <= Len(frames) + 1
  BY Resumed
<1> HIDE DEF g, h, ty, r
<1> QED BY <1>1, <1>2, PairPasses, FailFalls

LEMMA FoldInFalls == ASSUME FrontInv, FoldIn PROVE Falls
<1> DEFINE f == [k |-> "In", es |-> <<L>>]
           c == Enter("place")
           ty == FALSE
           r == Resume
<1>1. Go(c, <<f>> \o r, 1, ty)
  BY DEF FoldIn
<1>2. Stream(r) /\ Len(r) <= Len(frames) + 1
  BY Resumed
<1> HIDE DEF f, c, ty, r
<1> QED BY <1>1, <1>2, CallPasses

(* A concatenation passes no token, but its operand begins with one. *)
LEMMA FoldInfixFalls == ASSUME FrontInv, FoldInfix PROVE Falls
<1> DEFINE op == BinaryOperator(T)
           f == [k |-> "Infix", op |-> op, l |-> L]
           bp == BinaryBp(op).r
           g == Folding(bp, "none")
           c == Lhs(bp)
           n == IF op = Concat THEN 0 ELSE 1
           ty == op \in MatchOps
           r == Resume
           q == <<f>> \o r
           fs == <<g>> \o q
<1>1. ctl.go = "fold" /\ (Fail_ \/ Go(c, fs, n, ty))
  BY DEF FoldInfix, FoldAt, At, Parse
<1>2. n \in Nat /\ c.go = "lhs"
  BY Names
<1>3. Stream(r) /\ Len(r) = Len(frames) + 1 /\ Len(frames) \in Nat
  BY Resumed, Called
<1> HIDE DEF op, f, bp, g, c, n, ty, r
<1>4. Stream(q) /\ Len(q) = Len(r) + 1
  BY <1>3, Lengths
<1> HIDE DEF q
<1>5. Len(fs) = Len(q) + 1
  BY <1>4, Lengths
<1> HIDE DEF fs
<1>6. Len(fs) \in Nat /\ Len(fs) = Len(frames) + 3
  BY <1>3, <1>4, <1>5
<1>7. WorkOf(c.go, fs[1].k) = 2 /\ WorkOf(ctl.go, Top.k) = 117
  BY <1>1, <1>2, Works
<1>8. 10 * Len(fs) + WorkOf(c.go, fs[1].k) < 200 * n + 10 * Len(frames) + WorkOf(ctl.go, Top.k)
  BY <1>2, <1>3, <1>6, <1>7
<1>9. CASE Fail_
  BY <1>1, <1>9, FailFalls
<1> QED BY <1>1, <1>2, <1>6, <1>8, <1>9, GoFalls

LEMMA FoldTernaryFalls == ASSUME FrontInv, FoldTernary PROVE Falls
<1> DEFINE f == [k |-> "Then", c |-> L]
           ty == FALSE
           r == Resume
<1>1. ctl.go = "fold" /\ (Fail_ \/ Parse(BP_TERNARY.r, <<f>> \o r, 1, ty))
  BY DEF FoldTernary, FoldAt, At
<1>2. Stream(r) /\ Len(r) <= Len(frames) + 1
  BY Resumed
<1> HIDE DEF f, ty, r
<1> QED BY <1>1, <1>2, AskPasses, FailFalls

LEMMA FoldPipeFalls == ASSUME FrontInv, FoldPipe PROVE Falls
<1> DEFINE f == [k |-> "Pipe", op |-> T, l |-> L]
           c == Fold(ctl.bp, ctl.stop, GetlineOf(T, <<>>, <<L>>))
           bp == BP_CONCAT.r - 1
           ty == FALSE
           r == Resume
<1>1. ctl.go = "fold" /\ (Fail_ \/ Parse(bp, <<f>> \o r, 2, ty) \/ Go(c, frames, 2, ty))
  BY DEF FoldPipe, FoldAt, At
<1>2. Stream(r) /\ Len(r) <= Len(frames) + 1
  BY Resumed
<1> HIDE DEF f, c, bp, ty, r
<1> QED BY <1>1, <1>2, Called, LessOne, AskPasses, OnPasses, FailFalls

LEMMA PrattFalls == ASSUME FrontInv, BindInv, PrattNext PROVE Falls
<1>1. FoldRhs => Falls
  BY FoldEndFalls, FoldSuffixFalls, FoldAssignFalls, FoldIndexFalls, FoldInFalls, FoldInfixFalls,
     FoldTernaryFalls, FoldPipeFalls DEF FoldRhs
<1> QED BY <1>1, LhsFalls, DoneFalls DEF PrattNext

(* Functions of statements and rules. *)
LEMMA CallFalls ==
    ASSUME FrontInv, NEW g, NEW f, NEW n \in Nat, Call(g, f, n),
           n >= 1 \/ WorkOf(g, f.k) + 10 < WorkOf(ctl.go, Top.k)
    PROVE  Falls
<1> DEFINE c == Enter(g)
           ty == FALSE
<1>1. Go(c, <<f>> \o frames, n, ty) /\ c.go = g
  BY Names DEF Call
<1> HIDE DEF c, ty
<1>2. CASE n >= 1
  BY <1>1, <1>2, Called, LessOne, CallPasses
<1>3. CASE WorkOf(g, f.k) + 10 < WorkOf(ctl.go, Top.k)
  <2>1. WorkOf(c.go, f.k) + 10 < WorkOf(ctl.go, Top.k)
    BY <1>1, <1>3
  <2> QED BY <1>1, <2>1, PushFalls
<1> QED BY <1>2, <1>3

LEMMA BecomeFalls ==
    ASSUME FrontInv, ctl.go \in ExprRuns \cup OtherRuns \cup {"args", "list"}, NEW g, NEW f, NEW n \in Nat,
           Become(g, f, n), n >= 1 \/ WorkOf(g, f.k) < WorkOf(ctl.go, Top.k)
    PROVE  Falls
<1> DEFINE c == Enter(g)
           ty == FALSE
           r == Tail(frames)
<1>1. Go(c, <<f>> \o r, n, ty) /\ c.go = g
  BY Names DEF Become
<1>2. frames # <<>> /\ Stream(r) /\ Len(r) <= Len(frames) + 1
  BY Called, FewerCallers
<1>3. CASE n >= 1
  <2> HIDE DEF c, ty, r
  <2> QED BY <1>1, <1>2, <1>3, CallPasses
<1>4. CASE WorkOf(g, f.k) < WorkOf(ctl.go, Top.k)
  <2> HIDE DEF c, ty
  <2>1. WorkOf(c.go, f.k) < WorkOf(ctl.go, Top.k)
    BY <1>1, <1>4
  <2> QED BY <1>1, <1>2, <2>1, SwapFalls
<1> QED BY <1>3, <1>4

LEMMA EnterFalls ==
    ASSUME FrontInv, NEW g, NEW n \in Nat, Go(Enter(g), frames, n, FALSE),
           n >= 1 \/ WorkOf(g, Top.k) < WorkOf(ctl.go, Top.k)
    PROVE  Falls
<1> DEFINE c == Enter(g)
           ty == FALSE
<1>1. Go(c, frames, n, ty) /\ c.go = g
  BY Names
<1> HIDE DEF c, ty
<1>2. CASE n >= 1
  BY <1>1, <1>2, Called, LessOne, OnPasses
<1>3. CASE WorkOf(g, Top.k) < WorkOf(ctl.go, Top.k)
  BY <1>1, <1>3, StayFalls
<1> QED BY <1>2, <1>3

(* A statement or a body, complete or simple, is given to the caller below *)
(* the one that is done.                                                   *)
LEMMA GivenFalls ==
    ASSUME FrontInv, ctl.go \in {"give", "simple", "done", "body!", "redirect", "list", "switch"}, NEW n \in Nat,
           NEW s, Go(Simple(s), Tail(frames), n, FALSE) \/ Go(GiveBody(s), Tail(frames), n, FALSE)
                  \/ Go(Done_(s), Tail(frames), n, FALSE)
    PROVE  Falls
<1> DEFINE ty == FALSE
           k == Tail(frames)[1].k
<1>1. PICK c : Go(c, Tail(frames), n, ty) /\ c.go \in {"simple", "body!", "done"}
  BY Names
<1>2. frames # <<>>
  BY Called DEF ExprRuns, OtherRuns
<1> HIDE DEF k
<1>3. WorkOf(c.go, k) = 104
  BY <1>1, Works
<1>4. WorkOf(ctl.go, Top.k) \in 102 .. 117
  BY Works
<1>5. WorkOf(c.go, k) < WorkOf(ctl.go, Top.k) + 10
  BY <1>3, <1>4
<1> HIDE DEF ty
<1> QED BY <1>1, <1>2, <1>5, PopFalls DEF k

LEMMA CompleteFalls ==
    ASSUME FrontInv, ctl.go \in {"give", "simple", "body!", "switch"}, NEW n \in Nat, NEW s,
           Complete(s, Tail(frames), n)
    PROVE  Falls
<1> DEFINE m == Count(n, StmtEnd)
<1>1. Go(Done_(s), Tail(frames), m, FALSE)
  BY DEF Complete
<1>2. m \in Nat
  BY DEF Count
<1> HIDE DEF m
<1> QED BY <1>1, <1>2, GivenFalls

(* An expression is asked for, behind a token or with work to do.  *)
LEMMA ExpressionFalls ==
    ASSUME FrontInv, NEW bp, NEW f, NEW n \in Nat, NEW ty, Parse(bp, <<f>> \o frames, n, ty),
           n >= 1 \/ ctl.go \in {"start", "top"}
    PROVE  Falls
<1>1. CASE n >= 1
  BY <1>1, Called, LessOne, AskPasses
<1>2. CASE ctl.go \in {"start", "top"}
  <2> DEFINE g == Folding(bp, "none")
             c == Lhs(bp)
             q == <<f>> \o frames
             fs == <<g>> \o q
  <2>1. Go(c, fs, n, ty) /\ c.go = "lhs"
    BY Names DEF Parse
  <2> HIDE DEF g, c
  <2>2. Stream(q) /\ Len(q) = Len(frames) + 1 /\ Len(frames) \in Nat
    BY Called, Lengths
  <2> HIDE DEF q
  <2>3. Len(fs) = Len(q) + 1
    BY <2>2, Lengths
  <2> HIDE DEF fs
  <2>4. Len(fs) \in Nat /\ Len(fs) = Len(frames) + 2
    BY <2>2, <2>3
  <2> DEFINE w == WorkOf(ctl.go, Top.k)
             v == WorkOf(c.go, fs[1].k)
  <2>5. v = 2 /\ w \in {30, 102}
    BY <1>2, <2>1, Works
  <2>6. SUFFICES 10 * Len(fs) + v < 200 * n + 10 * Len(frames) + w
    BY <2>1, <2>4, GoFalls
  <2> HIDE DEF v, w
  <2> QED BY <2>2, <2>4, <2>5
<1> QED BY <1>1, <1>2

LEMMA SimpleExpressionFalls == ASSUME FrontInv, SimpleExpression \/ ExpressionDone PROVE Falls
<1>1. CASE SimpleExpression
  <2> DEFINE f == [k |-> "Expr"]
             ty == FALSE
  <2>1. ctl.go = "start" /\ Parse(0, <<f>> \o frames, 0, ty)
    BY <1>1 DEF SimpleExpression, Expression, At
  <2> HIDE DEF f, ty
  <2> QED BY <2>1, ExpressionFalls
<1>2. CASE ExpressionDone
  <2>1. ctl.go = "give" /\ Go(Simple(ExprStmt(ctl.e)), Tail(frames), 0, FALSE)
    BY <1>2 DEF ExpressionDone, Given, At
  <2> QED BY <2>1, GivenFalls
<1> QED BY <1>1, <1>2

LEMMA ArgumentPasses ==
    ASSUME FrontInv, NEW f, NEW fs, Stream(fs), Len(fs) <= Len(frames) + 1, NEW n \in Nat, n >= 1, NEW ty,
           Argument(f, fs, n, ty)
    PROVE  Falls
<1> DEFINE g == Folding(0, "redirection")
           c == Lhs(0)
           gs == <<g, f>> \o fs
<1>1. Go(c, gs, n, ty)
  BY DEF Argument
<1> HIDE DEF g, c
<1>2. Stream(gs) /\ Len(gs) = Len(fs) + 2 /\ Len(fs) \in Nat /\ Len(frames) \in Nat
  BY Lengths, Called
<1> HIDE DEF gs
<1>3. Len(gs) <= Len(frames) + 8
  BY <1>2
<1> QED BY <1>1, <1>2, <1>3, PassFalls

LEMMA CommandFalls == ASSUME FrontInv, ParseCommand \/ CommandArg \/ CommandArgs PROVE Falls
<1>1. CASE ParseCommand
  <2> DEFINE f == Command(T, <<>>)
             ty == FALSE
  <2>1. Call("args", f, 2) \/ Argument(f, frames, 1, ty) \/ Call("redirect", f, 1)
    BY <1>1 DEF ParseCommand
  <2> HIDE DEF f, ty
  <2> QED BY <2>1, CallFalls, Called, LessOne, ArgumentPasses
<1>2. CASE CommandArg
  <2> DEFINE f == Command(Top.name, Append(Top.es, ctl.e))
             r == Tail(frames)
  <2>1. ctl.go = "give" /\ ctl.go \in ExprRuns /\ Top.k = "Command"
    BY <1>2 DEF CommandArg, Given, At, ExprRuns
  <2>2. Argument(f, r, 1, typed) \/ Become("redirect", f, 0)
    BY <1>2 DEF CommandArg
  <2>3. Stream(r) /\ Len(r) <= Len(frames) + 1
    BY <2>1, FewerCallers
  <2> HIDE DEF f, r
  <2>4. WorkOf("redirect", f.k) < WorkOf(ctl.go, Top.k)
    BY <2>1, Works
  <2> QED BY <2>1, <2>2, <2>3, <2>4, ArgumentPasses, BecomeFalls
<1>3. CASE CommandArgs
  <2> DEFINE f == Command(Top.name, ctl.es)
  <2>1. ctl.go = "list" /\ (Become("redirect", f, 1) \/ Fail_)
    BY <1>3 DEF CommandArgs, GivenList, At
  <2> HIDE DEF f
  <2> QED BY <2>1, BecomeFalls, FailFalls
<1> QED BY <1>1, <1>2, <1>3

LEMMA RedirectFalls == ASSUME FrontInv, Redirect PROVE Falls
<1> DEFINE f == [k |-> "Redirect", op |-> T]
           s == CommandOf(Top.name, Top.es, <<>>)
           bp == BP_CONCAT.r - 1
           ty == FALSE
<1>1. ctl.go = "redirect" /\ (Parse(bp, <<f>> \o frames, 1, ty) \/ Go(Simple(s), Tail(frames), 0, FALSE))
  BY DEF Redirect, At
<1> HIDE DEF f, s, bp, ty
<1>2. CASE Parse(bp, <<f>> \o frames, 1, ty)
  BY <1>2, ExpressionFalls
<1>3. CASE Go(Simple(s), Tail(frames), 0, FALSE)
  BY <1>1, <1>3, GivenFalls
<1> QED BY <1>1, <1>2, <1>3

(* Two callers are done. *)
LEMMA RedirectDoneFalls == ASSUME FrontInv, RedirectDone PROVE Falls
<1> DEFINE c == Simple(CommandOf(frames[2].name, frames[2].es, <<Top.op, ctl.e>>))
           r == Tail(frames)
           fs == Tail(r)
           ty == FALSE
<1>1. ctl.go = "give" /\ Top.k = "Redirect" /\ Go(c, fs, 0, ty) /\ c.go = "simple"
  BY Names DEF RedirectDone, Given, At
<1>2. Here /\ Answer(Top.k) = "redirect" /\ ctl.go \in ExprRuns
  BY <1>1 DEF FrontInv, Answer, ExprRuns
<1>3. Takes(r, "redirect")
  BY <1>2, UnderExpr
<1>4. r # <<>>
  BY <1>3 DEF Takes
<1>5. Stream(r) /\ Len(r) = Len(frames) - 1 /\ Len(frames) \in Nat
  BY <1>2, Called
<1> HIDE DEF c, r, ty
<1>6. Len(fs) \in Nat /\ Len(fs) = Len(r) - 1
  BY <1>4, <1>5, StreamPop, StreamFacts
<1> HIDE DEF fs
<1>7. WorkOf(c.go, fs[1].k) = 104 /\ WorkOf(ctl.go, Top.k) = 105
  BY <1>1, Works
<1>8. 10 * Len(fs) + WorkOf(c.go, fs[1].k) < 200 * 0 + 10 * Len(frames) + WorkOf(ctl.go, Top.k)
  BY <1>5, <1>6, <1>7
<1> QED BY <1>1, <1>6, <1>8, GoFalls

LEMMA DeleteFalls == ASSUME FrontInv, ParseDelete \/ DeleteDone PROVE Falls
<1>1. CASE ParseDelete
  <2> DEFINE v == VariableOf(tokens[pos + 1])
             f == [k |-> "Delete", v |-> v]
             g == Items(<<>>, FALSE)
             c == Simple(DeleteOf(v, <<>>))
             ty == FALSE
  <2>1. ctl.go = "start" /\ (Parse(0, <<g, f>> \o frames, 3, ty) \/ Go(c, frames, 2, ty) \/ Fail_)
    BY <1>1 DEF ParseDelete, At
  <2> HIDE DEF f, g, c, ty
  <2> QED BY <2>1, Called, LessOne, PairPasses, OnPasses, FailFalls
<1>2. CASE DeleteDone
  <2>1. ctl.go = "list" /\ (Go(Simple(DeleteOf(Top.v, <<ctl.es>>)), Tail(frames), 1, FALSE) \/ Fail_)
    BY <1>2 DEF DeleteDone, GivenList, At
  <2> QED BY <2>1, GivenFalls, FailFalls
<1> QED BY <1>1, <1>2

LEMMA SimpleStatementFalls == ASSUME FrontInv, SimpleStatement PROVE Falls
  BY SimpleExpressionFalls, CommandFalls, RedirectFalls, RedirectDoneFalls, DeleteFalls DEF SimpleStatement

LEMMA BodyFalls == ASSUME FrontInv, Body PROVE Falls
<1>1. CASE ParseBody
  <2>1. ctl.go = "body" /\ (Call("block", Block(0, <<>>), 1) \/ Fail_)
    BY <1>1 DEF ParseBody, At
  <2> QED BY <2>1, CallFalls, FailFalls
<1>2. CASE BlockSeparator \/ BlockStatement \/ BlockOpen \/ BlockClose \/ BlockUnclosed
  <2> DEFINE ty == FALSE
             f == Block(Top.depth + 1, Top.b)
             g == Block(Top.depth - 1, Top.b)
  <2>1. /\ ctl.go = "block" /\ ctl.go \in OtherRuns
        /\ \/ Go(ctl, frames, 1, ty)
           \/ Go(Enter("statement"), frames, 0, FALSE)
           \/ Become("block", f, 1)
           \/ Go(GiveBody(Top.b), Tail(frames), 1, ty)
           \/ Become("block", g, 1)
           \/ Fail_
    BY <1>2 DEF BlockSeparator, BlockStatement, BlockOpen, BlockClose, BlockUnclosed, InBlock, At, OtherRuns
  <2>2. WorkOf("statement", Top.k) < WorkOf(ctl.go, Top.k)
    BY <2>1, Works
  <2>3. CASE Go(GiveBody(Top.b), Tail(frames), 1, ty)
    <3> DEFINE c == GiveBody(Top.b)
               r == Tail(frames)
    <3>1. Stream(r) /\ Len(r) <= Len(frames) + 1
      BY <2>1, FewerCallers
    <3> HIDE DEF c, r, ty
    <3>2. Go(c, r, 1, ty)
      BY <2>3 DEF c, r
    <3> QED BY <3>1, <3>2, OnPasses
  <2> HIDE DEF ty, f, g
  <2>4. CASE Go(ctl, frames, 1, ty)
    BY <2>4, Called, LessOne, OnPasses
  <2>5. CASE Go(Enter("statement"), frames, 0, FALSE)
    BY <2>2, <2>5, EnterFalls
  <2>6. CASE Become("block", f, 1) \/ Become("block", g, 1)
    BY <2>1, <2>6, BecomeFalls
  <2>7. CASE Fail_
    BY <2>1, <2>7, FailFalls
  <2> QED BY <2>1, <2>3, <2>4, <2>5, <2>6, <2>7
<1>3. CASE BlockAppend
  <2> DEFINE f == Block(Top.depth, Append(Top.b, ctl.s))
  <2>1. ctl.go = "done" /\ ctl.go \in OtherRuns /\ Become("block", f, 0)
    BY <1>3 DEF BlockAppend, GivenDone, At, OtherRuns
  <2> HIDE DEF f
  <2>2. WorkOf("block", f.k) < WorkOf(ctl.go, Top.k)
    BY <2>1, Works
  <2> QED BY <2>1, <2>2, BecomeFalls
<1>4. CASE StatementBody
  <2> DEFINE f == [k |-> "Single"]
  <2>1. ctl.go = "stmtbody" /\ (Go(Enter("body"), frames, 0, FALSE) \/ Call("statement", f, 0))
    BY <1>4 DEF StatementBody, At
  <2> HIDE DEF f
  <2>2. WorkOf("body", Top.k) < WorkOf(ctl.go, Top.k) /\ WorkOf("statement", f.k) + 10 < WorkOf(ctl.go, Top.k)
    BY <2>1, Works
  <2> QED BY <2>1, <2>2, EnterFalls, CallFalls
<1>5. CASE SingleDone
  <2>1. ctl.go = "done" /\ Go(GiveBody(<<ctl.s>>), Tail(frames), 0, FALSE)
    BY <1>5 DEF SingleDone, GivenDone, At
  <2> QED BY <2>1, GivenFalls
<1> QED BY <1>1, <1>2, <1>3, <1>4, <1>5 DEF Body

LEMMA ConditionFalls ==
    ASSUME FrontInv, NEW of, NEW b, NEW fs, Stream(fs), Len(fs) <= Len(frames) + 1, NEW n \in Nat, n >= 1,
           Parse(0, <<[k |-> "Condition", of |-> of, b |-> b]>> \o fs, n, FALSE)
    PROVE  Falls
<1> DEFINE f == [k |-> "Condition", of |-> of, b |-> b]
           ty == FALSE
<1>1. Parse(0, <<f>> \o fs, n, ty)
  OBVIOUS
<1> HIDE DEF f, ty
<1> QED BY <1>1, AskPasses

LEMMA ConditionDoneFalls == ASSUME FrontInv, ConditionDone PROVE Falls
<1> DEFINE f == [k |-> Top.of, c |-> ctl.e]
           g == [k |-> "switch", e |-> ctl.e, branches |-> <<>>, default |-> <<>>, case |-> <<>>, b |-> <<>>]
           s == DoOf(Top.b, ctl.e)
<1>1. ctl.go = "give" /\ Top.k = "Condition" /\ ctl.go \in ExprRuns /\ Here
  BY DEF ConditionDone, Given, At, ExprRuns, FrontInv
<1>2. Top.of \in {"if", "while", "switch", "do"}
  BY <1>1, UnderExpr DEF FrameOK
<1>3. Fail_ \/ Complete(s, Tail(frames), 1) \/ Become("stmtbody", f, 1) \/ Become("switch", g, 2)
  BY <1>2 DEF ConditionDone
<1> HIDE DEF f, g, s
<1>4. CASE Complete(s, Tail(frames), 1)
  BY <1>1, <1>4, CompleteFalls
<1>5. CASE Become("stmtbody", f, 1) \/ Become("switch", g, 2)
  BY <1>1, <1>5, BecomeFalls
<1> QED BY <1>1, <1>3, <1>4, <1>5, FailFalls

LEMMA BranchesFall == ASSUME FrontInv, ThenBody \/ ElseBody \/ WhileBody \/ ForBody \/ ForEachBody PROVE Falls
<1> DEFINE f == [k |-> "else", c |-> Top.c, b |-> ctl.b]
<1>1. ctl.go = "body!" /\ ctl.go \in OtherRuns /\ (Become("stmtbody", f, 1) \/ \E s : Complete(s, Tail(frames), 0))
  BY DEF ThenBody, ElseBody, WhileBody, ForBody, ForEachBody, GivenBody, At, OtherRuns
<1> HIDE DEF f
<1>2. CASE Become("stmtbody", f, 1)
  BY <1>1, <1>2, BecomeFalls
<1>3. CASE \E s : Complete(s, Tail(frames), 0)
  BY <1>1, <1>3, CompleteFalls
<1> QED BY <1>1, <1>2, <1>3

LEMMA DoBodyFalls == ASSUME FrontInv, DoBody PROVE Falls
<1> DEFINE r == Tail(frames)
           b == ctl.b
           of == "do"
           n == 2
<1>1. ctl.go = "body!" /\ ctl.go \in OtherRuns
  BY DEF DoBody, GivenBody, At, OtherRuns
<1>2. \/ Parse(0, <<[k |-> "Condition", of |-> of, b |-> b]>> \o r, n, FALSE)
      \/ Fail_
  BY DEF DoBody
<1>3. Stream(r) /\ Len(r) <= Len(frames) + 1 /\ n \in Nat /\ n >= 1
  BY <1>1, FewerCallers
<1> HIDE DEF r, b, of, n
<1>4. CASE Parse(0, <<[k |-> "Condition", of |-> of, b |-> b]>> \o r, n, FALSE)
  BY <1>3, <1>4, ConditionFalls
<1> QED BY <1>1, <1>2, <1>4, FailFalls

LEMMA LeaveFalls == ASSUME FrontInv, Leave \/ LeaveDone PROVE Falls
<1>1. CASE Leave
  <2> DEFINE f == [k |-> "Leave", t |-> T]
             s == LeaveOf(T, <<>>)
             n == Count(1, StmtEnd)
             ty == FALSE
             c == Done_(s)
             x == (T = "return")
  <2>1. Go(c, frames, n, ty) \/ Parse(0, <<f>> \o frames, 1, x)
    BY <1>1 DEF Leave, Expression, Complete
  <2>2. n \in Nat /\ n >= 1
    BY DEF Count
  <2> HIDE DEF f, s, n, ty, c, x
  <2>3. CASE Go(c, frames, n, ty)
    BY <2>2, <2>3, Called, LessOne, OnPasses
  <2>4. CASE Parse(0, <<f>> \o frames, 1, x)
    BY <2>4, ExpressionFalls
  <2> QED BY <2>1, <2>3, <2>4
<1>2. CASE LeaveDone
  <2>1. ctl.go = "give" /\ Complete(LeaveOf(Top.t, <<ctl.e>>), Tail(frames), 0)
    BY <1>2 DEF LeaveDone, Given, At
  <2> QED BY <2>1, CompleteFalls
<1> QED BY <1>1, <1>2

LEMMA ParseStatementFalls == ASSUME FrontInv, ParseStatement PROVE Falls
<1>1. CASE StartSimple
  <2> DEFINE f == [k |-> "Simple"]
  <2>1. ctl.go = "statement" /\ Call("start", f, 0)
    BY <1>1 DEF StartSimple, Statement, At
  <2> HIDE DEF f
  <2>2. WorkOf("start", f.k) + 10 < WorkOf(ctl.go, Top.k)
    BY <2>1, Works
  <2> QED BY <2>1, <2>2, CallFalls
<1>2. CASE SimpleDone
  <2>1. ctl.go = "simple" /\ Complete(ctl.s, Tail(frames), 0)
    BY <1>2 DEF SimpleDone, GivenSimple, At
  <2> QED BY <2>1, CompleteFalls
<1>3. CASE StartConditional
  <2> DEFINE n == 1 + 1
             b == <<>>
  <2>1. ctl.go = "statement" /\ (Parse(0, <<[k |-> "Condition", of |-> T, b |-> b]>> \o frames, n, FALSE) \/ Fail_)
    BY <1>3 DEF StartConditional, Statement, At, Condition, Expression
  <2>2. n \in Nat /\ n >= 1
    OBVIOUS
  <2> HIDE DEF n, b
  <2> QED BY <2>1, <2>2, Called, LessOne, ConditionFalls, FailFalls
<1>4. CASE StartDo
  <2>1. Call("body", [k |-> "do"], 1)
    BY <1>4 DEF StartDo
  <2> QED BY <2>1, CallFalls
<1>5. CASE StatementMissing
  <2>1. ctl.go = "statement" /\ Fail_
    BY <1>5 DEF StatementMissing, At
  <2> QED BY <2>1, FailFalls
<1> QED BY <1>1, <1>2, <1>3, <1>4, <1>5, ConditionDoneFalls, BranchesFall, DoBodyFalls, LeaveFalls DEF ParseStatement

LEMMA ForConditionFalls == ASSUME FrontInv, ForCondition PROVE Falls
<1> DEFINE n == Count(Count(0, {";"}), {"Newline"})
           g == Folding(0, "none")
           c == Lhs(0)
           ty == FALSE
<1>1. ctl.go = "forloop" /\ (Go(Enter("forupdate"), frames, n, FALSE) \/ Go(c, <<g>> \o frames, n, ty))
  BY DEF ForCondition, At, Parse
<1>2. n \in Nat /\ c.go = "lhs"
  BY Names DEF Count
<1> HIDE DEF n, g, c, ty
<1>3. WorkOf("forupdate", Top.k) < WorkOf(ctl.go, Top.k) /\ WorkOf(c.go, g.k) + 10 < WorkOf(ctl.go, Top.k)
  BY <1>1, <1>2, Works
<1>4. CASE Go(Enter("forupdate"), frames, n, FALSE)
  BY <1>2, <1>3, <1>4, EnterFalls
<1>5. CASE Go(c, <<g>> \o frames, n, ty)
  BY <1>2, <1>3, <1>5, PushFalls
<1> QED BY <1>1, <1>4, <1>5

LEMMA ForStatementFalls == ASSUME FrontInv, ForStatement PROVE Falls
<1>1. CASE StartFor
  <2> DEFINE e == TokenAt(pos + 2) = "("
             n == IF e THEN 3 ELSE 2
             f == For(<<>>, <<>>)
             g == [k |-> "ForInit", enclosed |-> e]
  <2>1. ctl.go = "statement" /\ (Fail_ \/ Call("forloop", f, 2) \/ Call("start", g, n))
    BY <1>1 DEF StartFor, Statement, At
  <2>2. n \in Nat /\ n >= 1
    OBVIOUS
  <2> HIDE DEF e, n, f, g
  <2> QED BY <2>1, <2>2, CallFalls, FailFalls
<1>2. CASE ForInit
  <2> DEFINE f == For(<<ctl.s>>, <<>>)
             g == [k |-> "foreach", v |-> ctl.s.e.es[1], arr |-> ctl.s.e.v]
  <2>1. /\ ctl.go = "simple" /\ ctl.go \in OtherRuns
        /\ Fail_ \/ Become("forloop", f, 1) \/ Become("forloop", f, 0) \/ Become("stmtbody", g, 1)
    BY <1>2 DEF ForInit, GivenSimple, At, OtherRuns
  <2> HIDE DEF f, g
  <2>2. WorkOf("forloop", f.k) < WorkOf(ctl.go, Top.k)
    BY <2>1, Works
  <2> QED BY <2>1, <2>2, BecomeFalls, FailFalls
<1>3. CASE ForConditionDone
  <2> DEFINE f == For(Top.init, <<ctl.e>>)
  <2>1. ctl.go = "give" /\ ctl.go \in ExprRuns /\ Top.k = "for" /\ Become("forupdate", f, 0)
    BY <1>3 DEF ForConditionDone, Given, At, ExprRuns
  <2> HIDE DEF f
  <2>2. WorkOf("forupdate", f.k) < WorkOf(ctl.go, Top.k)
    BY <2>1, Works
  <2> QED BY <2>1, <2>2, BecomeFalls
<1>4. CASE ForUpdate
  <2> DEFINE n == Count(1, {"Newline"})
             m == n + 1
             f == Looping(Top.init, Top.c, <<>>)
  <2>1. /\ ctl.go = "forupdate" /\ ctl.go \in OtherRuns
        /\ Fail_ \/ Become("stmtbody", f, m) \/ Go(Enter("start"), frames, n, FALSE)
    BY <1>4 DEF ForUpdate, At, OtherRuns
  <2>2. n \in Nat /\ n >= 1 /\ m \in Nat /\ m >= 1
    BY DEF Count
  <2> HIDE DEF n, m, f
  <2>3. CASE Become("stmtbody", f, m)
    BY <2>1, <2>2, <2>3, BecomeFalls
  <2>4. CASE Go(Enter("start"), frames, n, FALSE)
    BY <2>2, <2>4, EnterFalls
  <2> QED BY <2>1, <2>3, <2>4, FailFalls
<1>5. CASE ForUpdateDone
  <2> DEFINE f == Looping(Top.init, Top.c, <<ctl.s>>)
  <2>1. ctl.go = "simple" /\ ctl.go \in OtherRuns /\ (Fail_ \/ Become("stmtbody", f, 1))
    BY <1>5 DEF ForUpdateDone, GivenSimple, At, OtherRuns
  <2> HIDE DEF f
  <2> QED BY <2>1, BecomeFalls, FailFalls
<1> QED BY <1>1, <1>2, <1>3, <1>4, <1>5, ForConditionFalls, BranchesFall DEF ForStatement

LEMMA SwitchFalls == ASSUME FrontInv, Switch PROVE Falls
<1>1. CASE SwitchClose
  <2> DEFINE s == SwitchOf(Flushed.e, Flushed.branches, Flushed.default)
  <2>1. ctl.go = "switch" /\ Complete(s, Tail(frames), 1)
    BY <1>1 DEF SwitchClose, At
  <2> HIDE DEF s
  <2> QED BY <2>1, CompleteFalls
<1>2. CASE SwitchCase
  <2> DEFINE f == [Flushed EXCEPT !.case = <<Atom(Next_, tokens[pos + 1].s)>>]
  <2>1. ctl.go = "switch" /\ ctl.go \in OtherRuns /\ (Fail_ \/ Become("switch", f, 3))
    BY <1>2 DEF SwitchCase, At, OtherRuns
  <2> HIDE DEF f
  <2> QED BY <2>1, BecomeFalls, FailFalls
<1>3. CASE SwitchDefault
  <2> DEFINE f == [Flushed EXCEPT !.case = <<DefaultCase>>]
  <2>1. ctl.go = "switch" /\ ctl.go \in OtherRuns /\ (Fail_ \/ Become("switch", f, 2))
    BY <1>3 DEF SwitchDefault, At, OtherRuns
  <2> HIDE DEF f
  <2> QED BY <2>1, BecomeFalls, FailFalls
<1>4. CASE SwitchStatement
  <2>1. ctl.go = "switch" /\ (Fail_ \/ Go(Enter("statement"), frames, 0, FALSE))
    BY <1>4 DEF SwitchStatement, At
  <2>2. WorkOf("statement", Top.k) < WorkOf(ctl.go, Top.k)
    BY <2>1, Works
  <2> QED BY <2>1, <2>2, EnterFalls, FailFalls
<1>5. CASE SwitchAppend
  <2> DEFINE f == [Top EXCEPT !.b = Append(@, ctl.s)]
  <2>1. ctl.go = "done" /\ ctl.go \in OtherRuns /\ Become("switch", f, 0)
    BY <1>5 DEF SwitchAppend, GivenDone, At, OtherRuns
  <2> HIDE DEF f
  <2>2. WorkOf("switch", f.k) < WorkOf(ctl.go, Top.k)
    BY <2>1, Works
  <2> QED BY <2>1, <2>2, BecomeFalls
<1> QED BY <1>1, <1>2, <1>3, <1>4, <1>5 DEF Switch

(* A rule, a pattern or a separator is behind the parser: it is at the top *)
(* of the program again.                                                   *)
LEMMA AgainFalls ==
    ASSUME FrontInv, NEW n \in Nat, Again(n), n >= 1 \/ WorkOf(ctl.go, Top.k) > 102
    PROVE  Falls
<1> DEFINE c == Enter("top")
           fs == <<>>
           ty == FALSE
           w == WorkOf(ctl.go, Top.k)
           v == WorkOf(c.go, fs[1].k)
<1>1. Go(c, fs, n, ty) /\ c.go = "top"
  BY Names DEF Again
<1>2. Len(fs) = 0 /\ Len(fs) \in Nat /\ Len(frames) \in Nat
  BY Called, Lengths
<1> HIDE DEF c, fs, ty
<1>3. v = 102 /\ w \in 0 .. 117
  BY <1>1, Works
<1>4. SUFFICES 10 * Len(fs) + v < 200 * n + 10 * Len(frames) + w
  BY <1>1, <1>2, GoFalls
<1>5. n >= 1 \/ w > 102
  OBVIOUS
<1> HIDE DEF v, w
<1> QED BY <1>2, <1>3, <1>5

LEMMA PatternFalls == ASSUME FrontInv, TopPattern \/ PatternDone PROVE Falls
<1>1. CASE TopPattern
  <2> DEFINE f == [k |-> "Pattern", from |-> <<>>]
             ty == FALSE
  <2>1. ctl.go = "top" /\ Parse(0, <<f>> \o frames, 0, ty)
    BY <1>1 DEF TopPattern, AtTop, At, Expression
  <2> HIDE DEF f, ty
  <2> QED BY <2>1, ExpressionFalls
<1>2. CASE PatternDone
  <2> DEFINE p == Append(Top.from, ctl.e)
             f == [k |-> "Pattern", from |-> p]
             g == [k |-> "Rule", pattern |-> p]
             r == Tail(frames)
             ty == FALSE
  <2>1. ctl.go = "give" /\ ctl.go \in ExprRuns /\ Top.k = "Pattern"
    BY <1>2 DEF PatternDone, Given, At, ExprRuns
  <2>2. Parse(0, <<f>> \o r, 1, ty) \/ Become("body", g, 0) \/ Again(0)
    BY <1>2 DEF PatternDone
  <2>3. Stream(r) /\ Len(r) <= Len(frames) + 1
    BY <2>1, FewerCallers
  <2> HIDE DEF f, g, r, ty
  <2>4. WorkOf("body", g.k) < WorkOf(ctl.go, Top.k) /\ WorkOf(ctl.go, Top.k) > 102
    BY <2>1, Works
  <2>5. CASE Parse(0, <<f>> \o r, 1, ty)
    BY <2>3, <2>5, AskPasses
  <2>6. CASE Become("body", g, 0)
    BY <2>1, <2>4, <2>6, BecomeFalls
  <2>7. CASE Again(0)
    BY <2>4, <2>7, AgainFalls
  <2> QED BY <2>2, <2>5, <2>6, <2>7
<1> QED BY <1>1, <1>2

LEMMA RuleFalls == ASSUME FrontInv, TopBody \/ TopSpecial \/ RuleDone \/ SpecialDone \/ FunctionDone PROVE Falls
<1>1. CASE TopBody
  <2> DEFINE f == [k |-> "Rule", pattern |-> <<>>]
  <2>1. ctl.go = "top" /\ Call("body", f, 0)
    BY <1>1 DEF TopBody, AtTop, At
  <2> HIDE DEF f
  <2>2. WorkOf("body", f.k) + 10 < WorkOf(ctl.go, Top.k)
    BY <2>1, Works
  <2> QED BY <2>1, <2>2, CallFalls
<1>2. CASE TopSpecial
  <2> DEFINE f == [k |-> "Special", part |-> T]
  <2>1. Call("body", f, 1)
    BY <1>2 DEF TopSpecial
  <2> HIDE DEF f
  <2> QED BY <2>1, CallFalls
<1>3. CASE RuleDone \/ SpecialDone \/ FunctionDone
  <2>1. ctl.go = "body!" /\ Again(0)
    BY <1>3 DEF RuleDone, SpecialDone, FunctionDone, GivenBody, At
  <2>2. WorkOf(ctl.go, Top.k) > 102
    BY <2>1, Works
  <2> QED BY <2>1, <2>2, AgainFalls
<1> QED BY <1>1, <1>2, <1>3

LEMMA DirectiveFalls ==
    ASSUME FrontInv, Load \/ Include \/ Concurrent \/ TopSeparator \/ TopMissing \/ TopEnd PROVE Falls
<1>1. CASE Load \/ Concurrent \/ TopSeparator \/ TopMissing
  <2>1. ctl.go = "top" /\ (Fail_ \/ \E n \in Nat : n >= 1 /\ Again(n))
    <3>1. CASE Load
      BY <3>1 DEF Load, AtTop, At
    <3>2. CASE Concurrent
      BY <3>2 DEF Concurrent, AtTop, At
    <3>3. CASE TopSeparator
      BY <3>3 DEF TopSeparator, AtTop, At
    <3>4. CASE TopMissing
      BY <3>4 DEF TopMissing, At
    <3> QED BY <1>1, <3>1, <3>2, <3>3, <3>4
  <2>2. CASE \E n \in Nat : n >= 1 /\ Again(n)
    BY <2>2, AgainFalls
  <2> QED BY <2>1, <2>2, FailFalls
<1>2. CASE Include
  <2> DEFINE c == Panicked
             ty == FALSE
  <2>1. ctl.go = "top" /\ (Fail_ \/ Go(c, frames, 2, ty))
    BY <1>2 DEF Include, AtTop, At
  <2> HIDE DEF c, ty
  <2>2. CASE Go(c, frames, 2, ty)
    BY <2>2, Called, LessOne, OnPasses
  <2> QED BY <2>1, <2>2, FailFalls
<1>3. CASE TopEnd
  <2>1. ctl.go = "top" /\ Go(Enter("parsed"), frames, 0, FALSE)
    BY <1>3 DEF TopEnd, AtTop, At
  <2>2. WorkOf("parsed", Top.k) < WorkOf(ctl.go, Top.k)
    BY <2>1, Works
  <2> QED BY <2>1, <2>2, EnterFalls
<1> QED BY <1>1, <1>2, <1>3

LEMMA NamespaceFalls == ASSUME FrontInv, Namespace PROVE Falls
<1>1. ctl.go = "top" /\ (Fail_ \/ (pos' = pos + 3 /\ UNCHANGED <<lexvars, frames, ctl, typed>>))
  BY DEF Namespace, AtTop, At
<1>2. CASE pos' = pos + 3 /\ UNCHANGED <<lexvars, frames, ctl, typed>>
  <2> DEFINE w == WorkOf(ctl.go, Top.k)
             a == 10 * Len(frames)
  <2>1. tokens' = tokens /\ pos' = pos + 3 /\ Len(frames') = Len(frames) /\ WorkOf(ctl.go, Top.k)' = w
    BY <1>2 DEF lexvars, Top, WorkOf
  <2>2. Len(tokens) \in Nat /\ pos \in 1 .. Len(tokens) + 1 /\ Len(frames) \in Nat /\ w \in 0 .. 117
    BY Works, Called, StreamFacts DEF FrontInv
  <2>3. pos \in Nat /\ a \in Nat
    BY <2>2
  <2>4. /\ Effort = 200 * (Len(tokens) + 1 - pos) + a + w
        /\ Effort' = 200 * (Len(tokens) + 1 - (pos + 3)) + a + w
    BY <2>1 DEF Effort
  <2> HIDE DEF w, a
  <2> QED BY <2>2, <2>3, <2>4 DEF Falls
<1> QED BY <1>1, <1>2, FailFalls

LEMMA FunctionFalls == ASSUME FrontInv, StartFunction \/ Parameter PROVE Falls
<1>1. CASE StartFunction
  <2> DEFINE f == Function(NameOf(tokens[pos + 1]), <<>>)
             n == Count(4, {"Newline"})
  <2>1. ctl.go = "top" /\ (Fail_ \/ Call("body", f, n) \/ Call("param", f, 3))
    BY <1>1 DEF StartFunction, AtTop, At
  <2>2. n \in Nat /\ n >= 1
    BY DEF Count
  <2> HIDE DEF f, n
  <2> QED BY <2>1, <2>2, CallFalls, FailFalls
<1>2. CASE Parameter
  <2> DEFINE f == Function(Top.name, Append(Top.args, NameOf(tokens[pos])))
             n == Count(2, {"Newline"})
  <2>1. ctl.go = "param" /\ ctl.go \in OtherRuns
    BY <1>2 DEF Parameter, At, OtherRuns
  <2>2. Fail_ \/ Become("param", f, 2) \/ Become("body", f, n)
    BY <1>2 DEF Parameter
  <2>3. n \in Nat /\ n >= 1
    BY DEF Count
  <2> HIDE DEF f, n
  <2> QED BY <2>1, <2>2, <2>3, BecomeFalls, FailFalls
<1> QED BY <1>1, <1>2

LEMMA RulesFall == ASSUME FrontInv, BindInv, RulesNext PROVE Falls
<1>1. CASE ParseTop
  BY <1>1, PatternFalls, RuleFalls, DirectiveFalls, NamespaceFalls, FunctionFalls DEF ParseTop
<1> QED BY <1>1, PrattFalls, SimpleStatementFalls, BodyFalls, ParseStatementFalls, ForStatementFalls,
           SwitchFalls DEF RulesNext

LEMMA EffortIsNat == FrontInv => Effort \in Nat
<1> SUFFICES ASSUME FrontInv PROVE Effort \in Nat
  OBVIOUS
<1> DEFINE w == WorkOf(ctl.go, Top.k)
<1>1. Len(tokens) \in Nat /\ pos \in 1 .. Len(tokens) + 1 /\ Len(frames) \in Nat /\ w \in 0 .. 117
  BY Works, Called, StreamFacts DEF FrontInv
<1>2. Effort = 200 * (Len(tokens) + 1 - pos) + 10 * Len(frames) + w
  BY DEF Effort
<1> HIDE DEF w
<1> QED BY <1>1, <1>2

(* Whatever the program, each step of the parser passes a token or leaves  *)
(* less to do before one is passed: no rule of parse_statement, parse_top  *)
(* (parser/src/lib.rs) or parse_rhs (pratt.rs) calls itself, through any   *)
(* others, on the token on which it was called for more than a few dozen   *)
(* steps.  That is what EveryParseAnswers needs, but for the fairness.     *)
THEOREM ParserAnswers == FrontSpec => ParserReadsOn
<1>1. FrontInit => FrontInv /\ BindInv
  BY FrontInit_, BindInit
<1>2. FrontInv /\ BindInv /\ [FrontNext]_frontvars => FrontInv' /\ BindInv'
  BY FrontStep, BindStep
<1>3. FrontInv => Effort \in Nat
  BY EffortIsNat
<1>4. FrontInv /\ BindInv /\ (Effort \in Nat)' /\ [FrontNext]_frontvars =>
          [ParseProgram => Effort' \in Nat /\ Effort' < Effort]_frontvars
  <2>1. ASSUME FrontInv, BindInv, ParseProgram PROVE Effort' < Effort
    BY <2>1, RulesFall DEF ParseProgram, Falls
  <2> QED BY <2>1
<1> QED BY <1>1, <1>2, <1>3, <1>4, PTL DEF FrontSpec, ParserReadsOn
=============================================================================
