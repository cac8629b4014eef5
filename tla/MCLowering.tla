----------------------------- MODULE MCLowering -----------------------------
(***************************************************************************)
(* Instances of Lowering for TLC: the families of programs the runs lower. *)
(* An expression's leaves matter to the lowering only by whether they are  *)
(* immediates, so most shapes are built over one variable.                 *)
(***************************************************************************)
EXTENDS Lowering

User(id)    == [k |-> "user", id |-> id]
Builtin     == [k |-> "builtin", n |-> 1]
Index(args) == [k |-> "userindex", id |-> "a", args |-> args]
NRIndex(args) == [k |-> "builtinindex", n |-> 2, args |-> args]
Record(e)   == [k |-> "record", e |-> e]
Chained     == [k |-> "todo"]

Leaf(a)     == [k |-> "atom", a |-> a]
X           == Leaf(User("x"))
One         == Leaf([k |-> "int", n |-> 1])
Cnt(v)      == Leaf([k |-> "cnt", v |-> v])
Regex(v)    == Leaf([k |-> "regex", v |-> v])
Un(e)       == [k |-> "unary", op |-> "Negative", e |-> e]
Bin(l, r)   == [k |-> "binary", op |-> "Add", l |-> l, r |-> r]
Tern(c,t,f) == [k |-> "ternary", c |-> c, t |-> t, f |-> f]
Asg(op,p,e) == [k |-> "assign", op |-> op, p |-> p, e |-> e]
Inc(post,p) == [k |-> "incr", op |-> "Add", post |-> post, p |-> p]
Getline     == [k |-> "todo"]

ES(e)        == [k |-> "expr", e |-> e]
Prints(args)  == [k |-> "command", name |-> "print", args |-> args, redir |-> <<>>]
PrintsTo(args, e) == [k |-> "command", name |-> "print", args |-> args, redir |-> <<e>>]
While_(c, b) == [k |-> "while", c |-> c, body |-> b]
Do_(c, b)    == [k |-> "dowhile", c |-> c, body |-> b]
For_(i, c, u, b) == [k |-> "for", init |-> i, cond |-> c, update |-> u, body |-> b]
If_(c, b)    == [k |-> "if", c |-> c, body |-> b, orelse |-> <<>>]
IfElse(c, b, e) == [k |-> "if", c |-> c, body |-> b, orelse |-> <<e>>]
Next_        == [k |-> "todo"]

SeqSet(s) == {s[i] : i \in 1 .. Len(s)}

-----------------------------------------------------------------------------
(* The closure of a family under sub-expressions and sub-statements.       *)
RECURSIVE SubExprs(_)
PlaceExprs(p) == CASE p.k \in {"userindex", "builtinindex"} -> SeqSet(p.args)
                   [] p.k = "record" -> {p.e}
                   [] OTHER -> {}
SubExprs(e) ==
    {e} \cup UNION {SubExprs(x) : x \in
        CASE e.k = "unary" -> {e.e}
          [] e.k = "binary" -> {e.l, e.r}
          [] e.k = "ternary" -> {e.c, e.t, e.f}
          [] e.k = "assign" -> {e.e} \cup PlaceExprs(e.p)
          [] e.k = "incr" -> PlaceExprs(e.p)
          [] OTHER -> {}}

RECURSIVE SubStmts(_)
SubStmts(s) ==
    {s} \cup UNION {SubStmts(x) : x \in
        CASE s.k \in {"while", "dowhile"} -> SeqSet(s.body)
          [] s.k = "if" -> SeqSet(s.body) \cup UNION {SeqSet(b) : b \in SeqSet(s.orelse)}
          [] s.k = "for" -> SeqSet(s.body) \cup SeqSet(s.init) \cup SeqSet(s.update)
          [] OTHER -> {}}

StmtExprs(s) == CASE s.k \in {"if", "while", "dowhile"} -> {s.c}
                  [] s.k = "for" -> SeqSet(s.cond)
                  [] s.k = "expr" -> {s.e}
                  [] s.k = "command" -> SeqSet(s.args) \cup SeqSet(s.redir)
                  [] OTHER -> {}

StmtsOf(programs) == UNION {UNION {SubStmts(s) : s \in SeqSet(p)} : p \in programs}
ExprsOf(programs) == UNION {SubExprs(e) : e \in UNION {StmtExprs(s) : s \in StmtsOf(programs)}}

-----------------------------------------------------------------------------
(* Families. *)

Grow(es) == es \cup {Un(e) : e \in es} \cup {Bin(l, r) : l, r \in es}
Shapes1 == Grow({X})          \* 3 shapes
Shapes2 == Grow(Shapes1)      \* 13 shapes, up to three operands alive at once
Shapes3 == Grow(Shapes2)      \* 183 shapes, up to four

(* Flat: everything that opens no register scope (no call window, no       *)
(* ternary, no else), after a first statement that has left registers on   *)
(* the free list.                                                          *)
FlatPlaces == {User("x"), User("y"), Builtin, Record(Un(X))}
FlatExprs ==
    Shapes3 \cup {Bin(One, Cnt("c")), Regex("d"), Bin(Regex("d"), Cnt("c"))}
    \cup {Asg(op, p, e) : op \in {"Set", "Add"}, p \in FlatPlaces, e \in Shapes1}
    \cup {Inc(post, p) : post \in BOOLEAN, p \in FlatPlaces}
    \cup {Asg("Set", User("x"), Asg("Add", User("y"), Un(X))), Un(Inc(TRUE, User("y"))), Getline}
FlatBodies == {<<>>, <<ES(X)>>, <<ES(Un(X)), ES(Bin(Un(X), Un(X)))>>}
FlatStmts ==
    {ES(e) : e \in FlatExprs}
    \cup {If_(c, b) : c \in Shapes1, b \in FlatBodies}
    \cup {While_(c, b) : c \in Shapes1, b \in FlatBodies}
    \cup {Do_(c, b) : c \in Shapes1, b \in FlatBodies}
    \cup {For_(i, c, u, b) : i \in {<<>>, <<ES(Inc(TRUE, User("x")))>>}, c \in {<<>>, <<Un(X)>>},
                             u \in {<<>>, <<ES(Inc(FALSE, User("x")))>>},
                             b \in FlatBodies}
    \cup {If_(X, <<While_(Un(X), <<If_(X, <<>>), ES(Un(X))>>)>>), Next_}
FlatPrograms ==
    {<<s>> : s \in FlatStmts}
    \cup {<<ES(e), s>> : e \in {Un(X), Bin(Bin(Un(X), Un(X)), Un(Un(X)))}, s \in FlatStmts}
FlatStatements  == StmtsOf(FlatPrograms)
FlatExpressions == ExprsOf(FlatPrograms)

(* What the proofs assume of a flat body holds of this family. *)
ASSUME FlatInstance == FlatOver(FlatStatements, FlatExpressions)

(* Scoped: call windows, ternaries and elses, nested in each other.        *)
Scoped1 == {Tern(c, t, f) : c \in {X, Un(X)}, t \in Shapes1, f \in Shapes1}
ScopedExprs ==
    Scoped1 \cup {Tern(Un(X), t, f) : t, f \in {Tern(X, Un(X), X), Bin(Un(X), Un(X))}}
    \cup {Bin(l, r) : l, r \in {Un(X), Tern(X, Bin(Un(X), Un(X)), X)}}
    \cup {Asg(op, p, e) : op \in {"Set", "Add"}, e \in Shapes1,
                          p \in {Index(<<Un(X)>>), NRIndex(<<X, Bin(Un(X), Un(X))>>)}}
    \cup {Inc(post, p) : post \in BOOLEAN, p \in {Index(<<>>), NRIndex(<<Un(X)>>), Chained}}
    \cup {Asg("Set", Chained, X)}
ScopedStmts ==
    {ES(e) : e \in ScopedExprs}
    \cup {Prints(args) : args \in {<<>>} \cup {<<e>> : e \in Shapes2 \cup ScopedExprs}
                                 \cup {<<e, f>> : e, f \in Shapes1 \cup Scoped1}}
    \cup {PrintsTo(<<e>>, f) : e, f \in {X, Un(X), Bin(Un(X), Un(X))}}
    \cup {PrintsTo(<<>>, Cnt("c")), Prints(<<X, X, X, X, X, X, X, X, X>>)}
ElseStmts ==
    {IfElse(c, b, e) : c \in Shapes1, b, e \in FlatBodies}
    \cup {IfElse(X, <<IfElse(X, <<>>, <<ES(Un(X))>>)>>, <<Prints(<<X>>)>>),
          While_(Un(X), <<IfElse(X, <<ES(X)>>, <<ES(X)>>)>>)}
(* Both constants, in both orders and again. *)
ConstStmts ==
    {ES(Bin(Bin(Cnt(v), Cnt(w)), Regex(v))) : v, w \in {"c", "d"}}

(* What the proofs assume of a program that passes no arguments holds of   *)
(* more than the flat family: ternaries and elses, nested.                 *)
ScopedPrograms == {<<ES(Tern(c, t, f))>> : c \in Shapes1, t, f \in Scoped1}
                  \cup {<<IfElse(c, b, <<IfElse(X, b, e)>>)>> : c \in Shapes1, b, e \in FlatBodies}
ASSUME WindowlessInstance == WindowlessOver(StmtsOf(ScopedPrograms), ExprsOf(ScopedPrograms))

(* A command as the update of a for is not lowered. *)
CallStmts == {For_(<<>>, c, <<Prints(<<X>>)>>, b) : c \in {<<>>, <<Un(X)>>}, b \in FlatBodies}
             \cup ScopedStmts \cup ConstStmts \cup {While_(Un(X), <<Prints(<<Un(X)>>)>>), Do_(X, <<PrintsTo(<<X>>, Un(X))>>)}

(* An element is assigned in the second arm of a ternary beside another    *)
(* operand: the first arm may have left the free list in another order.    *)
ElementStmts ==
    {ES(Bin(Tern(X, t, Asg("Set", Index(<<i>>), e)), r)) :
        t \in {Un(X), Bin(Un(X), Un(X)), Bin(X, Bin(Un(X), Un(X)))},
        i, e \in Shapes1, r \in {X, Un(X)}}

AllPrograms    == {<<s>> : s \in FlatStmts \cup CallStmts \cup ElseStmts \cup ElementStmts}
                  \cup {<<ES(Un(X)), s>> : s \in ElseStmts}
AllStatements  == StmtsOf(AllPrograms)
AllExpressions == ExprsOf(AllPrograms)

(* The two constants are equal to `==` of Value but hash differently.      *)
LooseConsts == {<<"c", "d">>, <<"d", "c">>}

=============================================================================
