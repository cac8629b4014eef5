----------------------------- MODULE MCFrontend ------------------------------
(***************************************************************************)
(* Instances of Frontend for TLC: the families of sources the runs lex,    *)
(* parse, print and parse again.                                           *)
(***************************************************************************)
EXTENDS FrontendTrees

Vars     == {"w", "x", "y", "z"}
MCLetters == Vars \cup Keywords \cup DOMAIN Directives \cup {"awk", "::", "f", "g", "n"}
MCDigits == {"1", "2"}

In(s) == <<" ">> \o s \o <<" ">>

(* The operators of the chains; a ternary is one with its middle operand.  *)
Plain == {<<"+">>, <<"*">>, <<"/">>, <<"=", "=">>, <<"<">>, <<"~">>, <<"&", "&">>, <<"|", "|">>, <<>>}
Choice == <<"?", " ", "1", " ", ":">>
Chained == Plain \cup {<<"=">>, Choice}

(* x o y o z o w, every operator beside every other. *)
Pairs == {<<"x">> \o In(o) \o <<"y">> \o In(p) \o <<"z">> : o \in Chained, p \in Chained}
Chains == Pairs \cup {c \o In(q) \o <<"w">> : c \in
                          {<<"x">> \o In(o) \o <<"y">> \o In(p) \o <<"z">> :
                               o \in Chained, p \in {<<"*">>, <<"=">>, <<"~">>, <<>>, Choice}}, q \in Chained}

(* (x o y) o z and x o (y o z). *)
Grouped == {<<"(", "x">> \o In(o) \o <<"y", ")">> \o In(p) \o <<"z">> : o \in Plain, p \in Chained}
           \cup {<<"x">> \o In(o) \o <<"(", "y">> \o In(p) \o <<"z", ")">> : o \in Chained, p \in Chained}

(* Operands of every other kind, before and behind an operator. *)
Operands ==
    {<<"+", "+", "x">>, <<"x", "+", "+">>, <<"$", "x">>, <<"$", "x", "+", "+">>, <<"-", "-", "$", "x">>,
     <<"!", "x">>, <<"-", "x">>, <<"$", "(", "x", " ", "+", " ", "1", ")">>,
     <<"x", "[", "1", "]">>, <<"x", "[", "y", ",", "z", "]", "[", "1", "]">>,
     <<"x", "[", "y", "[", "1", "]", "]">>, <<"x", "[", "1", "]", "+", "+">>,
     <<"+", "+", "x", "[", "1", "]">>, <<"+", "+", "x", "[", "1", "]", "[", "2", "]">>,
     <<"f", "(", ")">>, <<"f", "(", "x", ",", " ", "@", "/", "y", "/", ")">>, <<"@", "f", "(", "x", " ", "y", ")">>,
     <<"f", "(", "x", " ", "=", " ", "y", ")", "[", "1", "]">>, <<"NR">>, <<"1", "2">>, <<"\"", "w", "\"">>}

Beside == {<<>>, <<"*">>, <<"=", "=">>, <<"=">>, <<"~">>}
Mixed == {<<"y">> \o In(o) \o e : o \in Beside \ {<<>>}, e \in Operands}
         \cup {e \o In(o) \o <<"z">> : o \in Beside, e \in Operands}

(* The forms that are none of these, and the texts that are errors. *)
Forms ==
    {<<"f", "(", "@", "/", "x", "/", " ", "?", "1", ":", "2", ")">>,
     <<"x", " ", "in", " ", "y", " ", "&", "&", "\n", "z">>,
     <<"(", "x", ",", " ", "y", ")", " ", "in", " ", "z", " ", "|", "|", " ", "w">>,
     <<"x", " ", "~", " ", "/", "y", "/">>, <<"/", "x", "/", " ", "/", "y", "/">>,
     <<"x", "[", "1", "]", "/", "y", "/", "1">>, <<"f", "(", "x", ")", "/", "y", "/", "z">>,
     <<"x", " ", "/", "=", " ", "y">>, <<"x", " ", "*", "*", "=", " ", "y">>, <<"x", " ", "-", "1">>,
     <<"x", " ", "=", " ", "@", "/", "y", "/">>, <<"x", " ", "=", " ", "@", "/", "y", "/", " ", "?", " ", "1", ":", "2">>,
     <<"@", "/", "x", "/", " ", "y">>, <<"x", " ", "~", " ", "@", "/", "y", "/", " ", "z">>,
     <<"getline">>, <<"getline", " ", "x">>, <<"getline", " ", "x", " ", "<", " ", "y">>, <<"getline", " ", "<", " ", "y">>,
     <<"getline", " ", "$", "1", " ", "+", " ", "2">>, <<"getline", " ", "x", "=", "1">>, <<"getline", " ", "x", "+", "+">>,
     <<"x", " ", "|", " ", "getline">>, <<"x", " ", "|", "&", " ", "getline", " ", "y">>,
     <<"x", " ", "|", " ", "getline", " ", "y", "+", "+">>, <<"x", " ", "|", " ", "y">>,
     <<"x", " ", ">", " ", "y">>, <<"x", " ", ">", ">", " ", "y">>, <<"1", "+", "+", "x">>, <<"1", " ", "=", " ", "x">>,
     <<"x", "#", "y", "\n", "\n">>, <<"x", "\\\n", "+", "\t", "y">>,
     <<"(", "x">>, <<"(", "x", ",", "y", ")">>, <<"f", "(", "x">>, <<"x", "[", "1">>, <<"1", "[", "2", "]">>, <<"x", " ", "?", "y">>,
     <<"@", "NR", "(", ")">>, <<"NR", "(", ")">>, <<"ARGIND">>, <<"@", "load">>, <<"+", "+", "1">>, <<"x", " ", "in", " ", "$", "1">>,
     <<"\"", "x">>, <<"/", "x">>, <<"/", "x", "\n", "/">>, <<"@", "/", "x">>, <<"x", "@">>, <<"&">>, <<"x", " ", "&">>, <<>>, <<"x", " ", "+">>}


(* As a pattern, and as the argument of a command, where a > redirects.    *)
Whatever(texts) == {[text |-> t, meant |-> Anything] : t \in texts}
Printing(texts) == {<<"{", "print", " ">> \o t \o <<"}">> : t \in texts}
Redirected == {t \o In(<<o>>) \o <<"w">> : t \in Pairs, o \in {">", "|"}}
Expressions == Whatever(Chains \cup Grouped \cup Mixed \cup Forms
                        \cup Printing(Pairs \cup Mixed \cup Redirected))

-----------------------------------------------------------------------------
(* Programs and the AST they mean: texts are written with the trees.       *)

V(v) == Atom("Variable", <<"awk", "::", v>>)
N(n) == Atom("Number", <<n>>)
Written(t, s) == [t |-> t, s |-> s, open |-> FALSE]

(* The statements that are no other's body. *)
Print1 == CommandOf("print", <<V("y")>>, <<>>)
Basic == {Written(<<"x">>, ExprStmt(V("x"))), Written(<<"print", " ", "y">>, Print1)}
Simples ==
    Basic \cup
    {Written(<<"print">>, CommandOf("print", <<>>, <<>>)),
     Written(<<"print", " ", "x", ",", "\n", "y">>, CommandOf("print", <<V("x"), V("y")>>, <<>>)),
     Written(<<"print", "(", "x", ",", "y", ")", ">", "\"", "z", "\"">>,
             CommandOf("print", <<V("x"), V("y")>>, <<">", Atom("String", <<"z">>)>>)),
     Written(<<"print", " ", "x", " ", "y", " ", ">", ">", " ", "z", " ", "w">>,
             CommandOf("print", <<BinaryOf(Concat, V("x"), V("y"))>>, <<">>", BinaryOf(Concat, V("z"), V("w"))>>)),
     Written(<<"print", " ", "|", " ", "z">>, CommandOf("print", <<>>, <<"|", V("z")>>)),
     Written(<<"printf", " ", "(", "x", ")", "|", "&", "y">>, CommandOf("printf", <<V("x")>>, <<"|&", V("y")>>)),
     Written(<<"delete", " ", "x">>, DeleteOf(V("x"), <<>>)),
     Written(<<"delete", " ", "x", "[", "1", ",", "y", "]">>, DeleteOf(V("x"), <<<<N("1"), V("y")>>>>)),
     Written(<<"getline">>, ExprStmt(GetlineOf("input", <<>>, <<>>))),
     Written(<<"exit">>, LeaveOf("exit", <<>>)), Written(<<"exit", " ", "1">>, LeaveOf("exit", <<N("1")>>)),
     Written(<<"do", "{", "x", "}", "while", "(", "z", ")", ";">>, DoOf(<<ExprStmt(V("x"))>>, V("z"))),
     Written(<<"next">>, LeaveOf("next", <<>>)), Written(<<"nextfile">>, LeaveOf("nextfile", <<>>))}

(* What may stand only in a loop, in a loop or a switch, in a function. *)
Continue_ == Written(<<"continue">>, LeaveOf("continue", <<>>))
Break_ == Written(<<"break">>, LeaveOf("break", <<>>))
Returns ==
    {Written(<<"return">>, LeaveOf("return", <<>>)), Written(<<"return", " ", "x">>, LeaveOf("return", <<V("x")>>)),
     Written(<<"return", " ", "@", "/", "y", "/">>, LeaveOf("return", <<Atom("TypedRegex", <<"y">>)>>))}

(* The bodies they make: open, when an else behind the body would be       *)
(* taken by it.                                                            *)
Ended_(S) == {[t |-> s.t \o e, b |-> <<s.s>>, open |-> FALSE] : s \in S, e \in {<<";">>, <<"\n">>}}
Braced(t, b) == [t |-> <<"{">> \o t \o <<"}">>, b |-> b, open |-> FALSE]
Blocks(S) == {Braced(<<"\n">> \o s.t, <<s.s>>) : s \in S}
Bodies1 ==
    Ended_(Basic) \cup Blocks(Basic)
    \cup {Braced(<<"\n">>, <<>>), Braced(<<"x", ";", ";", "print", " ", "y", "\n">>, <<ExprStmt(V("x")), Print1>>),
          Braced(<<"{", "x", "}", "{", "{", "print", " ", "y", "}", "}">>, <<ExprStmt(V("x")), Print1>>)}

(* Every statement with bodies of Bs; a branch before an else comes from   *)
(* Thens.                                                                  *)
If_(Bs) == {[t |-> <<"if", "(", "x", ")">> \o b.t, s |-> IfOf(V("x"), b.b, <<>>), open |-> TRUE] : b \in Bs}
IfElse(Thens, Bs) ==
    {[t |-> <<"if", " ", "(", "x", ")", " ">> \o a.t \o <<"else", "\n">> \o b.t, s |-> IfOf(V("x"), a.b, <<b.b>>),
      open |-> b.open] : a \in {a \in Thens : ~a.open}, b \in Bs}
While_(Bs) == {[t |-> <<"while", "(", "y", ")">> \o b.t, s |-> WhileOf(V("y"), b.b), open |-> b.open] : b \in Bs}
Do_(Bs) == {[t |-> <<"do", "\n">> \o b.t \o <<"while", "(", "z", ")", "\n">>, s |-> DoOf(b.b, V("z")), open |-> FALSE] :
               b \in {b \in Bs : Head(b.t) = "{"}}

Init_ == ExprStmt(AssignOf("=", V("x"), N("1")))
Heads == {[t |-> <<"x", "=", "1", ";", "x", ";", "x", "+", "+">>,
           i |-> <<Init_>>, c |-> <<V("x")>>, u |-> <<ExprStmt(IncrOf("++", TRUE, V("x")))>>],
          [t |-> <<";", ";">>, i |-> <<>>, c |-> <<>>, u |-> <<>>],
          [t |-> <<"print", " ", "y", ";", "\n", ";", "\n", "print", " ", "y">>,
           i |-> <<Print1>>, c |-> <<>>, u |-> <<Print1>>],
          [t |-> <<";", "x", " ", "in", " ", "y", ";">>, i |-> <<>>, c |-> <<InOf(V("y"), <<V("x")>>)>>, u |-> <<>>]}
For_(Bs) ==
    {[t |-> <<"for", "(">> \o h.t \o <<")">> \o b.t, s |-> ForOf(h.i, h.c, h.u, b.b), open |-> b.open] : h \in Heads, b \in Bs}
    \cup {[t |-> <<"for", " ", "(", "x", " ", "in", " ", "y", ")">> \o b.t, s |-> ForEachOf(V("x"), V("y"), b.b), open |-> b.open] :
              b \in Bs}

Case(a) == <<"case", " ", a, ":", "\n">>
Default_ == <<"default", ":">>
Branch(a, b) == <<N(a), b>>
Switches(b) ==
    {Written(<<"switch", "(", "x", ")", "{", "\n">> \o w[1] \o <<"}">>, SwitchOf(V("x"), w[2], w[3])) : w \in
       {<<<<>>, <<>>, <<>>>>, <<Default_ \o b.t, <<>>, <<Default(b.b, 0)>>>>,
        <<Case("1") \o b.t \o Case("2"), <<Branch("1", b.b), Branch("2", <<>>)>>, <<>>>>,
        <<Case("1") \o Case("2") \o b.t \o Default_, <<Branch("1", <<>>), Branch("2", b.b)>>, <<Default(<<>>, 2)>>>>,
        <<Case("1") \o b.t \o Default_ \o b.t \o Case("2") \o b.t,
          <<Branch("1", b.b), Branch("2", b.b)>>, <<Default(b.b, 1)>>>>,
        <<Default_ \o b.t \o b.t \o Case("2") \o b.t, <<Branch("2", b.b)>>, <<Default(b.b \o b.b, 0)>>>>}}

Compounds(Thens, Bs) == If_(Bs) \cup IfElse(Thens, Bs) \cup While_(Bs) \cup Do_(Bs) \cup For_(Bs)
Level1 == Compounds(Bodies1, Bodies1) \cup UNION {Switches(b) : b \in Ended_(Basic)}

(* Each compound statement in each other one. *)
OneBody == {Braced(<<"x">>, <<ExprStmt(V("x"))>>), [t |-> <<"print", " ", "y", ";">>, b |-> <<Print1>>, open |-> FALSE]}
Inner == Compounds(OneBody, OneBody) \cup UNION {Switches(b) : b \in OneBody \ {Braced(<<"x">>, <<ExprStmt(V("x"))>>)}}
Bodies2 == {[t |-> s.t, b |-> <<s.s>>, open |-> s.open] : s \in Inner} \cup Blocks(Inner)
Level2 == Compounds(Bodies2, OneBody) \cup Compounds(OneBody, Bodies2)
          \cup UNION {Switches(b) : b \in {b \in Bodies2 : Head(b.t) # "{"}}
Left == LET b == Ended_({Continue_, Break_}) \cup Blocks({Continue_, Break_})
        IN  While_(b) \cup Do_(b) \cup For_(b) \cup UNION {Switches(e) : e \in Ended_({Break_})}

InRule(b) == [text |-> <<"{">> \o b.t \o <<"\n", "w", "}">>,
              meant |-> Tree([EmptyAst EXCEPT !.rules = <<RuleOf(<<>>, <<<<b.s, ExprStmt(V("w"))>>>>)>>])]
InFunction(b) == [text |-> <<"function", " ", "f", "(", ")", "{">> \o b.t \o <<"\n", "w", "}">>,
                  meant |-> Tree([EmptyAst EXCEPT !.functions =
                      <<"awk", "::", "f">> :> [args |-> <<>>, b |-> <<b.s, ExprStmt(V("w"))>>]])]
Statements == {InRule(s) : s \in Simples \cup Left \cup Level1 \cup Level2} \cup {InFunction(s) : s \in Returns}
-----------------------------------------------------------------------------
(* Items of a program: the text, the entry of the AST that grows, and by   *)
(* how much in the namespace ns of the place.                              *)

Q(ns, v) == Atom("Variable", <<ns, "::", v>>)
Only(ns, v) == <<ExprStmt(Q(ns, v))>>
Item(t, part, X(_)) == [t |-> t, part |-> part, x |-> [ns \in {"awk", "n"} |-> X(ns)]]

Annotated(i) == [i EXCEPT !.t = <<"@", "concurrent", " ">> \o @, !.part = "concurrent"]
RuleItems ==
    {Item(<<"x", "\n">>, "rules", LAMBDA ns : RuleOf(<<Q(ns, "x")>>, <<>>)),
     Item(<<"x", ",", "y", ";">>, "rules", LAMBDA ns : RuleOf(<<Q(ns, "x"), Q(ns, "y")>>, <<>>)),
     Item(<<"{", "}">>, "rules", LAMBDA ns : RuleOf(<<>>, <<<<>>>>)),
     Item(<<"x", "{", "y", "}">>, "rules", LAMBDA ns : RuleOf(<<Q(ns, "x")>>, <<Only(ns, "y")>>)),
     Item(<<"awk", "::", "x", ",", "y", " ", "{", "z", "}">>, "rules",
          LAMBDA ns : RuleOf(<<V("x"), Q(ns, "y")>>, <<Only(ns, "z")>>))}
OtherItems ==
    {Item(<<"@", "load", " ", "\"", "w", "\"", "\n">>, "loads", LAMBDA ns : <<"w">>),
     Item(<<"function", " ", "f", "(", ")", "\n", "{", "x", "}">>, "functions",
          LAMBDA ns : <<<<ns, "::", "f">>, [args |-> <<>>, b |-> Only(ns, "x")]>>),
     Item(<<"function", " ", "g", "(", "x", ",", "y", ")", "{", "return", "}">>, "functions",
          LAMBDA ns : <<<<ns, "::", "g">>,
                        [args |-> <<<<ns, "::", "x">>, <<ns, "::", "y">>>>, b |-> <<LeaveOf("return", <<>>)>>]>>),
     Item(<<"@", "namespace", " ", "\"", "n", "\"", ";">>, "namespace", LAMBDA ns : "n")}
    \cup {Item(<<p, "{", "x", "}">>, p, LAMBDA ns : Only(ns, "x")) : p \in SpecialPatterns}
Few == {i \in RuleItems \cup OtherItems :
            i.part \in {"BEGIN", "loads", "functions", "namespace"} \/ i.t \in {<<"x", "\n">>, <<"{", "}">>}}
       \cup {Annotated(i) : i \in {r \in RuleItems : r.t = <<"x", "{", "y", "}">>}}

Meaning(items) ==
    FoldLeft(LAMBDA m, i :
                 LET x == i.x[m.ns]
                 IN  CASE i.part = "namespace" -> [m EXCEPT !.ns = x]
                       [] i.part = "functions" -> [m EXCEPT !.ast.functions = (x[1] :> x[2]) @@ @]
                       [] OTHER -> [m EXCEPT !.ast[i.part] = Append(@, x)],
             [ns |-> "awk", ast |-> EmptyAst], items).ast

(* No function is defined twice: see the findings of the README. *)
NamesFunctionsOnce(items) ==
    \A i, j \in DOMAIN items : items[i] = items[j] /\ items[i].part = "functions" => i = j

Sequences == LET All == RuleItems \cup OtherItems \cup {Annotated(i) : i \in RuleItems}
             IN  {<<>>} \cup {<<i>> : i \in All} \cup {<<i, j>> : i \in All, j \in All}
                 \cup {<<h, i, j>> : h \in Few, i \in Few, j \in Few}
Programs == {[text |-> FlattenSeq([n \in DOMAIN i |-> i[n].t]), meant |-> Tree(Meaning(i))] :
                 i \in {s \in Sequences : NamesFunctionsOnce(s)}}

(* A namespace is a word of the letters between the quotes. *)
Spaces ==
    {[text |-> <<"@", "namespace", " ", "\"">> \o n \o <<"\"", "\n", "y", ";">>,
      meant |-> Tree([EmptyAst EXCEPT !.rules = <<RuleOf(<<Atom("Variable", n \o <<"::", "y">>)>>, <<>>)>>])] :
         n \in {<<"n">>, <<"if", "x">>, <<"n", "1">>}}

-----------------------------------------------------------------------------
(* Texts that are no programs. *)

Unfinished == UNION {{SubSeq(t, 1, n) : n \in 1 .. Len(t) - 1} : t \in {<<"{">> \o s \o <<"}">> : s \in
                   {<<"if", "(", "x", ")", "{", "y", "}", "else", " ", "for", "(", ";", ";", ")", "{", "print", " ", "x", ">", "y", "}">>,
                    <<"switch", "(", "x", ")", "{", "case", " ", "1", ":", "y", ";", "default", ":", "delete", " ", "x", "[", "1", "]", "\n", "}">>,
                    <<"do", "{", "return", " ", "x", "}", "while", "(", "y", ")", "\n", "for", "(", "x", " ", "in", " ", "y", ")",
                      "while", "(", "z", ")", "print", "(", "x", ",", "y", ")">>}}}
Broken ==
    {<<p>> : p \in SpecialPatterns \cup {"}", ")", "else", "case"}} \cup {<<"@", d>> : d \in {"load", "namespace"}}
    \cup {<<"print", " ", "1", ";">>, <<"x", ",">>, <<"x", " ", "y", ",", "z", ",", "w">>, <<"BEGIN", "\n", "{", "x", "}">>}
    \cup {<<"{">> \o s \o <<"}">> : s \in
             {<<"for", "(", "1", " ", "in", " ", "y", ")", "x">>, <<"for", "(", "x", ";", "y", ")", "z">>,
              <<"for", "(", "x", ";", "y", ";", "break", ")", "z">>, <<"for", "(", ";", ";", "x", ";", ")", "y">>,
              <<"for", " ", "x">>, <<"for", "(", "if", ")">>,
              <<"if", " ", "x">>, <<"if", "(", "x", "{", "y", "}">>, <<"else", " ", "x">>,
              <<"if", "(", "x", ")", "y", ";", ";", "else", " ", "z">>,
              <<"do", "{", "x", "}">>, <<"do", "{", "x", "}", "while", " ", "y">>, <<"while", "(", "x", ")">>,
              <<"switch", "(", "x", ")", "y">>, <<"switch", "(", "x", ")", "{", "y", "}">>,
              <<"switch", "(", "x", ")", "{", "case", " ", "y", ":", "z", "}">>,
              <<"switch", "(", "x", ")", "{", "case", " ", "1", "\n", "z", "}">>,
              <<"switch", "(", "x", ")", "{", "default", ":", "case", " ", "1", ":", "default", ":", "}">>,
              <<"switch", "(", "x", ")", "{", "default", ":", "default", ":", "}">>,
              <<"switch", "(", "x", ")", "{", "default", " ", "x", "}">>,
              <<"delete", " ", "$", "1">>, <<"delete", " ", "1">>, <<"delete", " ", "x", "[", "1">>, <<"delete", " ", "x", "(", ")">>,
              <<"delete", " ", "f", "(", ")">>, <<"print", "(", "x">>, <<"print", " ", "x", ",">>, <<"print", " ", ">">>,
              <<"print", "(", "x", ",", "y", ">", "z", ")", ",">>, <<"x", ")">>, <<"return", " ", ",">>, <<"BEGIN">>, <<"function">>}}
    \cup {<<"function", " ">> \o s : s \in
             {<<"f", "(", "x", ",", "x", ")", "{", "}">>, <<"NR", "(", ")", "{", "}">>, <<"f", "{", "}">>, <<"f", "(", "x", "{", "}">>,
              <<"f", "(", "x", ",", ")", "{", "}">>, <<"f", "(", "NR", ")", "{", "}">>,
              <<"f", "(", ")", "x">>}}
    \cup {<<"@", "concurrent">> \o s : s \in
             {<<"\n", "{", "x", "}">>, <<" ", "BEGIN", "{", "x", "}">>, <<" ", "@", "concurrent", " ", "{", "x", "}">>, <<";">>}}
    \cup {<<"@", "load">> \o s : s \in {<<" ", "x", "\n">>, <<" ", "\"", "x", "\"", "{", "}">>}}
    \cup {<<"@", "namespace", " ">> \o s : s \in
             {<<"x", "\n">>, <<"\"", "1", "\"", "\n">>, <<"\"", "n", "::", "x", "\"", "\n">>, <<"\"", "if", "\"", "\n">>,
              <<"\"", "n", "\"", "x">>}}
    \cup {<<"@", "include", " ", "x", "\n">>}

(* Texts of which no meaning is said: extensions of this program, texts    *)
(* that end it in a panic, and texts whose meaning to gawk this program    *)
(* does not take.                                                          *)
Peculiar ==
    {<<"@", "concurrent">>,
     <<"@", "concurrent", " ", "function", " ", "f", "(", ")", "{", "x", "}", "y", "{", "z", "}", "w", ";">>,
     <<"@", "concurrent", " ", "@", "load", " ", "\"", "x", "\"", "\n", "{", "y", "}", "{", "z", "}">>,
     <<"@", "concurrent", " ", "@", "namespace", " ", "\"", "n", "\"", ";", "x", ",", "y", "{", "}", "{", "z", "}">>,
     <<"@", "include", " ", "\"", "x", "\"", "\n">>, <<"@", "nsinclude", " ", "\"", "x", "\"", "\n", "{", "x", "}">>,
     <<"@", "load", " ", "\"", "x", "\"">>,
     <<"{", "if", "(", "x", ")", ";", "else", " ", "z", "}">>,
     <<"{", "for", "(", "x", " ", "in", " ", "y", ";", "z", ";", "w", ")", "{", "}", "}">>}
    \cup {<<"@", "namespace", " ", "\"">> \o s \o <<"\"", "\n", "y", ";">> :
              s \in {<<"n", " ", "x">>, <<" ", "n">>, <<"n", " ", "x", "::", "y">>}}

NoPrograms == {[text |-> t, meant |-> Nothing] : t \in Unfinished \cup Broken}

MCSources == Expressions \cup Statements \cup Programs \cup Spaces \cup NoPrograms \cup Whatever(Peculiar)

-----------------------------------------------------------------------------
(* The instances of the findings. *)

Modulo == Whatever({<<"x">> \o In(<<o>>) \o <<"y">> \o In(<<p>>) \o <<"z">> : o \in {"*", "%"}, p \in {"*", "%"}})
Slashes == Whatever({<<v>> \o In(<<"/">>) \o <<"1">> \o In(<<"/">>) \o <<"2">> : v \in {"x", "NR"}})

(* gawk takes newlines behind a brace before an else. *)
Elses == {InRule([t |-> <<"if", "(", "x", ")", "{", "y", "}">> \o e \o <<"else", " ", "z", ";">>,
                  s |-> IfOf(V("x"), <<ExprStmt(V("y"))>>, <<<<ExprStmt(V("z"))>>>>)]) : e \in {<<>>, <<" ">>, <<"\n">>}}
=============================================================================
