----------------------------- MODULE StackProofs -----------------------------
(***************************************************************************)
(* The stack of operands of the lowering, for every program.               *)
(*                                                                         *)
(* A task takes operands from the top of the stack and leaves some there.  *)
(* The pending tasks climb from the present height of the stack down to    *)
(* zero and none takes more than is there: so no task reads a local that   *)
(* does not exist, and a lowering that is done has consumed all it made.   *)
(* The same heights say that the tasks inside a register scope leave the   *)
(* operands below it alone: so a scope that ends with a free list below    *)
(* its pointer leaves every owner its register and every window private.   *)
(***************************************************************************)
EXTENDS PoolProofs

-----------------------------------------------------------------------------
(* Heights. *)

TakesOne == {"Free", "IfBranch", "LoopBranch", "DoBranch", "UnaryEmit", "TernaryBranch",
             "AssignVal", "Incr", "RecordEmit"}

(* The operands a task takes from the top of the stack, with the tasks it  *)
(* is replaced by, and those it leaves there.                              *)
Takes(t) == IF t.k \in TakesOne THEN 1 ELSE IF t.k = "BinaryEmit" THEN 2
            ELSE IF t.k = "AssignEmit" THEN 3 ELSE 0
Gives(t) == IF \/ t.k \in {"Expr", "LoadPlace"}
               \/ t.k = "CallEnd" /\ t.instr.op \in ArrayLoads
            THEN 1 ELSE 0

(* h[i] is the height before the i-th of the first n tasks, from a to b;   *)
(* none of them reaches below lo.                                          *)
Climb(ts, n, h, lo, a, b) ==
    /\ h \in [1 .. n + 1 -> Nat]
    /\ h[1] = a /\ h[n + 1] = b
    /\ \A i \in 1 .. n : /\ h[i] - Takes(ts[i]) >= lo
                         /\ h[i + 1] = h[i] - Takes(ts[i]) + Gives(ts[i])

Climbs(ts, n, lo, a, b) == \E h : Climb(ts, n, h, lo, a, b)

LEMMA Amounts == \A t : Takes(t) \in 0 .. 3 /\ Gives(t) \in 0 .. 1
  BY DEF Takes, Gives

(* No task, no change. *)
LEMMA ClimbsNone == ASSUME NEW ts, NEW lo, NEW a \in Nat PROVE Climbs(ts, 0, lo, a, a)
<1> DEFINE h == [i \in 1 .. 0 + 1 |-> a]
<1>1. h \in [1 .. 0 + 1 -> Nat] /\ h[1] = a /\ h[0 + 1] = a
  OBVIOUS
<1> HIDE DEF h
<1>2. Climb(ts, 0, h, lo, a, a)
  BY <1>1 DEF Climb
<1> QED BY <1>2 DEF Climbs

(* One task. *)
LEMMA ClimbsOne ==
    ASSUME NEW t, NEW lo \in Nat, NEW a \in Nat, a - Takes(t) >= lo
    PROVE  Climbs(<<t>>, 1, lo, a, a - Takes(t) + Gives(t))
<1> DEFINE b == a - Takes(t) + Gives(t)
           h == [i \in 1 .. 1 + 1 |-> IF i = 1 THEN a ELSE b]
<1>1. b \in Nat
  BY Amounts
<1> HIDE DEF b
<1>2. h \in [1 .. 1 + 1 -> Nat] /\ h[1] = a /\ h[1 + 1] = b
  BY <1>1
<1>3. <<t>>[1] = t /\ \A i \in 1 .. 1 : i = 1
  OBVIOUS
<1> HIDE DEF h
<1>4. Climb(<<t>>, 1, h, lo, a, b)
  BY <1>2, <1>3 DEF Climb, b
<1> QED BY <1>4 DEF Climbs, b

(* Reaching less far down is weaker. *)
LEMMA ClimbsLower ==
    ASSUME NEW ts, NEW n \in Nat, NEW lo \in Nat, NEW low \in Nat, low <= lo, NEW a, NEW b, Climbs(ts, n, lo, a, b)
    PROVE  Climbs(ts, n, low, a, b)
<1>1. PICK h : Climb(ts, n, h, lo, a, b)
  BY DEF Climbs
<1>2. \A i \in 1 .. n : h[i] \in Nat /\ Takes(ts[i]) \in 0 .. 3
  BY <1>1, Amounts DEF Climb
<1>3. \A i \in 1 .. n : h[i] - Takes(ts[i]) >= low
  BY <1>1, <1>2 DEF Climb
<1>4. Climb(ts, n, h, low, a, b)
  BY <1>1, <1>3 DEF Climb
<1> QED BY <1>4 DEF Climbs

(* One list of tasks behind another. *)
LEMMA ClimbsConcat ==
    ASSUME NEW s, NEW t, Stream(s), Stream(t), NEW n \in Nat, n <= Len(t),
           NEW lo, NEW a, NEW b, NEW c,
           Climbs(s, Len(s), lo, a, b), Climbs(t, n, lo, b, c)
    PROVE  Climbs(s \o t, Len(s) + n, lo, a, c)
<1> DEFINE u == s \o t
           m == Len(s)
<1>1. /\ m \in Nat /\ \A i \in 1 .. m : u[i] = s[i]
      /\ \A i \in 1 .. Len(t) : u[m + i] = t[i]
  BY StreamConcat
<1>2. PICK g : Climb(s, m, g, lo, a, b)
  BY DEF Climbs
<1>3. PICK k : Climb(t, n, k, lo, b, c)
  BY DEF Climbs
<1> DEFINE h == [i \in 1 .. (m + n) + 1 |-> IF i <= m THEN g[i] ELSE k[i - m]]
<1>4. Len(t) \in Nat
  BY StreamLength
<1> HIDE DEF u, m
<1>5. ASSUME NEW i \in 1 .. m + n
      PROVE  IF i <= m THEN i \in 1 .. m /\ u[i] = s[i]
                       ELSE i - m \in 1 .. n /\ u[i] = t[i - m]
  <2>1. CASE i <= m
    BY <1>1, <2>1
  <2>2. CASE ~(i <= m)
    <3>1. i - m \in 1 .. n /\ i - m \in 1 .. Len(t) /\ m + (i - m) = i
      BY <1>1, <1>4, <2>2
    <3> QED BY <1>1, <2>2, <3>1
  <2> QED BY <2>1, <2>2
<1>6. h \in [1 .. (m + n) + 1 -> Nat]
  <2>1. ASSUME NEW i \in 1 .. (m + n) + 1 PROVE (IF i <= m THEN g[i] ELSE k[i - m]) \in Nat
    <3>1. CASE i <= m
      <4>1. i \in 1 .. m + 1
        BY <1>1, <3>1
      <4> QED BY <1>2, <3>1, <4>1 DEF Climb
    <3>2. CASE ~(i <= m)
      <4>1. i - m \in 1 .. n + 1
        BY <1>1, <3>2
      <4> QED BY <1>3, <3>2, <4>1 DEF Climb
    <3> QED BY <3>1, <3>2
  <2> QED BY <2>1
<1>7. \A i \in 1 .. (m + n) + 1 : h[i] = IF i <= m THEN g[i] ELSE k[i - m]
  OBVIOUS
<1> HIDE DEF h
<1>8. h[1] = a
  <2>1. 1 \in 1 .. (m + n) + 1
    BY <1>1
  <2>2. CASE 1 <= m
    BY <1>2, <1>7, <2>1, <2>2 DEF Climb
  <2>3. CASE ~(1 <= m)
    <3>1. m = 0 /\ 1 - m = 1
      BY <1>1, <2>3
    <3> QED BY <1>2, <1>3, <1>7, <2>1, <3>1 DEF Climb
  <2> QED BY <2>2, <2>3
<1>9. h[(m + n) + 1] = c
  <2>1. (m + n) + 1 \in 1 .. (m + n) + 1 /\ ~((m + n) + 1 <= m) /\ ((m + n) + 1) - m = n + 1
    BY <1>1
  <2> QED BY <1>3, <1>7, <2>1 DEF Climb
<1>10. ASSUME NEW i \in 1 .. m + n
       PROVE  h[i] - Takes(u[i]) >= lo /\ h[i + 1] = h[i] - Takes(u[i]) + Gives(u[i])
  <2>1. i \in 1 .. (m + n) + 1 /\ i + 1 \in 1 .. (m + n) + 1
    BY <1>1
  <2>2. CASE i <= m
    <3>1. i \in 1 .. m /\ u[i] = s[i] /\ h[i] = g[i]
      BY <1>5, <1>7, <2>1, <2>2
    <3>2. h[i + 1] = g[i + 1]
      <4>1. CASE i < m
        <5>1. i + 1 <= m
          BY <1>1, <4>1
        <5> QED BY <1>7, <2>1, <5>1
      <4>2. CASE i = m
        <5>1. ~(i + 1 <= m) /\ (i + 1) - m = 1
          BY <1>1, <4>2
        <5>2. h[i + 1] = k[1]
          BY <1>7, <2>1, <5>1
        <5> QED BY <1>2, <1>3, <4>2, <5>2 DEF Climb
      <4> QED BY <1>1, <2>2, <4>1, <4>2
    <3> QED BY <1>2, <3>1, <3>2 DEF Climb
  <2>3. CASE ~(i <= m)
    <3>1. i - m \in 1 .. n /\ u[i] = t[i - m] /\ h[i] = k[i - m]
      BY <1>5, <1>7, <2>1, <2>3
    <3>2. ~(i + 1 <= m) /\ (i + 1) - m = (i - m) + 1
      BY <1>1, <2>3
    <3>3. h[i + 1] = k[(i - m) + 1]
      BY <1>7, <2>1, <3>2
    <3> QED BY <1>3, <3>1, <3>3 DEF Climb
  <2> QED BY <2>2, <2>3
<1>11. Climb(u, m + n, h, lo, a, c)
  BY <1>6, <1>8, <1>9, <1>10 DEF Climb
<1> QED BY <1>11 DEF Climbs, u, m

(* What waits behind the first task. *)
LEMMA ClimbsTail ==
    ASSUME NEW ts, Stream(ts), ts # <<>>, NEW n \in Nat \ {0}, n <= Len(ts),
           NEW lo \in Nat, NEW a, NEW b, Climbs(ts, n, lo, a, b)
    PROVE  /\ a \in Nat /\ a - Takes(ts[1]) >= lo
           /\ Climbs(Tail(ts), n - 1, lo, a - Takes(ts[1]) + Gives(ts[1]), b)
<1> DEFINE t == Tail(ts)
<1>1. Len(ts) \in Nat /\ \A i \in 1 .. Len(ts) - 1 : t[i] = ts[i + 1]
  BY StreamTail
<1>2. PICK h : Climb(ts, n, h, lo, a, b)
  BY DEF Climbs
<1> DEFINE k == [i \in 1 .. (n - 1) + 1 |-> h[i + 1]]
<1> HIDE DEF t
<1>3. 1 \in 1 .. n /\ 1 \in 1 .. n + 1
  OBVIOUS
<1>4. a \in Nat /\ a - Takes(ts[1]) >= lo /\ h[1 + 1] = a - Takes(ts[1]) + Gives(ts[1])
  BY <1>2, <1>3 DEF Climb
<1>5. \A i \in 1 .. (n - 1) + 1 : i + 1 \in 1 .. n + 1
  OBVIOUS
<1>6. k \in [1 .. (n - 1) + 1 -> Nat] /\ \A i \in 1 .. (n - 1) + 1 : k[i] = h[i + 1]
  BY <1>2, <1>5 DEF Climb
<1> HIDE DEF k
<1>7. k[1] = h[1 + 1] /\ k[(n - 1) + 1] = h[n + 1]
  BY <1>6
<1>8. ASSUME NEW i \in 1 .. n - 1
      PROVE  k[i] - Takes(t[i]) >= lo /\ k[i + 1] = k[i] - Takes(t[i]) + Gives(t[i])
  <2>1. i \in 1 .. (n - 1) + 1 /\ i + 1 \in 1 .. (n - 1) + 1 /\ i + 1 \in 1 .. n /\ i \in 1 .. Len(ts) - 1
    BY <1>1
  <2>2. k[i] = h[i + 1] /\ k[i + 1] = h[(i + 1) + 1] /\ t[i] = ts[i + 1]
    BY <1>1, <1>6, <2>1
  <2> QED BY <1>2, <2>1, <2>2 DEF Climb
<1>9. Climb(t, n - 1, k, lo, a - Takes(ts[1]) + Gives(ts[1]), b)
  BY <1>2, <1>4, <1>6, <1>7, <1>8 DEF Climb
<1> QED BY <1>4, <1>9 DEF Climbs, t

-----------------------------------------------------------------------------
(* Lists of tasks that leave the stack as they find it.                    *)

(* The tasks that close a register scope.                                  *)
Closers == {"CallEnd", "TernaryThen"}

OpensNone(ts) == \A i \in 1 .. Len(ts) : ts[i].k \notin Closers

Level(ts) ==
    /\ Stream(ts) /\ OpensNone(ts)
    /\ \A a \in Nat : Climbs(ts, Len(ts), a, a, a)

LEMMA OneStream ==
    ASSUME NEW t PROVE Stream(<<t>>) /\ Len(<<t>>) = 1 /\ <<t>>[1] = t
<1>1. <<t>> \in Seq({t}) /\ Len(<<t>>) = 1 /\ <<t>>[1] = t
  OBVIOUS
<1> QED BY <1>1 DEF Stream

LEMMA OpensConcat ==
    ASSUME NEW s, NEW t, Stream(s), Stream(t), OpensNone(s), OpensNone(t)
    PROVE  Stream(s \o t) /\ OpensNone(s \o t)
<1> DEFINE u == s \o t
           m == Len(s)
<1>1. /\ Stream(u) /\ m \in Nat /\ Len(t) \in Nat /\ Len(u) = m + Len(t)
      /\ \A i \in 1 .. m : u[i] = s[i]
      /\ \A i \in 1 .. Len(t) : u[m + i] = t[i]
  BY StreamConcat
<1> HIDE DEF u, m
<1>2. ASSUME NEW i \in 1 .. Len(u) PROVE u[i].k \notin Closers
  <2>1. CASE i <= m
    <3>1. i \in 1 .. m
      BY <1>1, <2>1
    <3> QED BY <1>1, <3>1 DEF OpensNone, m
  <2>2. CASE ~(i <= m)
    <3>1. i - m \in 1 .. Len(t) /\ m + (i - m) = i
      BY <1>1, <2>2
    <3> QED BY <1>1, <3>1 DEF OpensNone
  <2> QED BY <2>1, <2>2
<1> QED BY <1>1, <1>2 DEF OpensNone, u

LEMMA OpensOne == ASSUME NEW t, t.k \notin Closers PROVE OpensNone(<<t>>)
<1>1. \A i \in 1 .. Len(<<t>>) : <<t>>[i] = t
  BY OneStream
<1> QED BY <1>1 DEF OpensNone

LEMMA OpensTwo ==
    ASSUME NEW s, NEW t, s.k \notin Closers, t.k \notin Closers
    PROVE  Stream(<<s, t>>) /\ Len(<<s, t>>) = 2 /\ OpensNone(<<s, t>>)
<1>1. <<s, t>> \in Seq({s, t}) /\ Len(<<s, t>>) = 2 /\ <<s, t>>[1] = s /\ <<s, t>>[2] = t
  OBVIOUS
<1>2. \A i \in 1 .. 2 : i = 1 \/ i = 2
  OBVIOUS
<1> QED BY <1>1, <1>2 DEF OpensNone, Stream

LEMMA OpensThree ==
    ASSUME NEW s, NEW t, NEW u, s.k \notin Closers, t.k \notin Closers, u.k \notin Closers
    PROVE  Stream(<<s, t, u>>) /\ Len(<<s, t, u>>) = 3 /\ OpensNone(<<s, t, u>>)
<1>1. /\ <<s, t, u>> \in Seq({s, t, u}) /\ Len(<<s, t, u>>) = 3
      /\ <<s, t, u>>[1] = s /\ <<s, t, u>>[2] = t /\ <<s, t, u>>[3] = u
  OBVIOUS
<1>2. \A i \in 1 .. 3 : i = 1 \/ i = 2 \/ i = 3
  OBVIOUS
<1> QED BY <1>1, <1>2 DEF OpensNone, Stream

LEMMA Glue ==
    ASSUME NEW S, NEW x \in Seq(S), NEW y \in Seq(S), NEW z \in Seq(S), Len(z) = Len(x) + Len(y),
           \A i \in 1 .. Len(x) : z[i] = x[i], \A i \in 1 .. Len(y) : z[Len(x) + i] = y[i]
    PROVE  x \o y = z
<1>1. /\ x \o y \in Seq(S) /\ Len(x \o y) = Len(x) + Len(y) /\ Len(x) \in Nat /\ Len(y) \in Nat
      /\ \A i \in 1 .. Len(x) : (x \o y)[i] = x[i]
      /\ \A i \in 1 .. Len(y) : (x \o y)[Len(x) + i] = y[i]
  BY ConcatProperties, StreamConcat DEF Stream
<1>2. ASSUME NEW i \in 1 .. Len(x) + Len(y) PROVE (x \o y)[i] = z[i]
  <2>1. CASE i \in 1 .. Len(x)
    BY <1>1, <2>1
  <2>2. CASE i \notin 1 .. Len(x)
    <3>1. i - Len(x) \in 1 .. Len(y) /\ Len(x) + (i - Len(x)) = i
      BY <1>1, <2>2
    <3>2. /\ (x \o y)[Len(x) + (i - Len(x))] = y[i - Len(x)]
          /\ z[Len(x) + (i - Len(x))] = y[i - Len(x)]
      BY <1>1, <3>1
    <3> QED BY <3>1, <3>2
  <2> QED BY <2>1, <2>2
<1> QED BY <1>1, <1>2, SeqEqual

LEMMA GlueTwo == ASSUME NEW s, NEW t PROVE <<s>> \o <<t>> = <<s, t>>
<1> DEFINE S == {s, t}
           x == <<s>>
           y == <<t>>
           z == <<s, t>>
<1>1. /\ x \in Seq(S) /\ Len(x) = 1 /\ x[1] = s
      /\ y \in Seq(S) /\ Len(y) = 1 /\ y[1] = t
      /\ z \in Seq(S) /\ Len(z) = 2 /\ z[1] = s /\ z[2] = t
  OBVIOUS
<1>2. /\ \A i \in 1 .. Len(x) : z[i] = x[i]
      /\ \A i \in 1 .. Len(y) : z[Len(x) + i] = y[i]
  <2>1. 1 + 1 = 2 /\ \A i \in 1 .. 1 : i = 1
    OBVIOUS
  <2> QED BY <1>1, <2>1
<1> HIDE DEF S, x, y, z
<1>3. x \o y = z
  <2>1. Len(z) = Len(x) + Len(y)
    BY <1>1
  <2>2. x \in Seq(S) /\ y \in Seq(S) /\ z \in Seq(S)
    BY <1>1
  <2> QED BY ONLY <1>2, <2>1, <2>2, Glue
<1> QED BY <1>3 DEF x, y, z

LEMMA GlueThree == ASSUME NEW s, NEW t, NEW v PROVE <<s>> \o <<t, v>> = <<s, t, v>>
<1> DEFINE S == {s, t, v}
           x == <<s>>
           y == <<t, v>>
           z == <<s, t, v>>
<1>1. /\ x \in Seq(S) /\ Len(x) = 1 /\ x[1] = s
      /\ y \in Seq(S) /\ Len(y) = 2 /\ y[1] = t /\ y[2] = v
      /\ z \in Seq(S) /\ Len(z) = 3
      /\ z[1] = s /\ z[2] = t /\ z[3] = v
  OBVIOUS
<1>2. /\ \A i \in 1 .. Len(x) : z[i] = x[i]
      /\ \A i \in 1 .. Len(y) : z[Len(x) + i] = y[i]
  <2>1. 1 + 1 = 2 /\ 1 + 2 = 3 /\ (\A i \in 1 .. 1 : i = 1) /\ \A i \in 1 .. 2 : i = 1 \/ i = 2
    OBVIOUS
  <2> QED BY <1>1, <2>1
<1> HIDE DEF S, x, y, z
<1>3. x \o y = z
  <2>1. Len(z) = Len(x) + Len(y)
    BY <1>1
  <2>2. x \in Seq(S) /\ y \in Seq(S) /\ z \in Seq(S)
    BY <1>1
  <2> QED BY ONLY <1>2, <2>1, <2>2, Glue
<1> QED BY <1>3 DEF x, y, z

(* Two tasks, one after the other. *)
LEMMA ClimbsTwo ==
    ASSUME NEW s, NEW t, NEW lo \in Nat, NEW a \in Nat, NEW b \in Nat,
           a - Takes(s) >= lo, b = a - Takes(s) + Gives(s), b - Takes(t) >= lo
    PROVE  Climbs(<<s, t>>, 2, lo, a, b - Takes(t) + Gives(t))
<1>1. Climbs(<<s>>, 1, lo, a, b) /\ Climbs(<<t>>, 1, lo, b, b - Takes(t) + Gives(t))
  BY ClimbsOne
<1>2. Climbs(<<s>> \o <<t>>, 1 + 1, lo, a, b - Takes(t) + Gives(t))
  <2>1. Stream(<<s>>) /\ Stream(<<t>>) /\ Len(<<s>>) = 1 /\ Len(<<t>>) = 1 /\ 1 \in Nat /\ 1 <= 1
    BY OneStream
  <2> QED BY <1>1, <2>1, ClimbsConcat
<1>3. <<s>> \o <<t>> = <<s, t>> /\ 1 + 1 = 2
  BY GlueTwo
<1> QED BY <1>2, <1>3

LEMMA ClimbsThree ==
    ASSUME NEW s, NEW t, NEW u, NEW lo \in Nat, NEW a \in Nat, NEW b \in Nat, NEW c \in Nat,
           a - Takes(s) >= lo, b = a - Takes(s) + Gives(s),
           b - Takes(t) >= lo, c = b - Takes(t) + Gives(t), c - Takes(u) >= lo
    PROVE  Climbs(<<s, t, u>>, 3, lo, a, c - Takes(u) + Gives(u))
<1>1. Climbs(<<s>>, 1, lo, a, b)
  BY ClimbsOne
<1>2. Climbs(<<t, u>>, 2, lo, b, c - Takes(u) + Gives(u))
  BY ClimbsTwo
<1>3. Stream(<<t, u>>) /\ Len(<<t, u>>) = 2
  <2>1. <<t, u>> \in Seq({t, u}) /\ Len(<<t, u>>) = 2
    OBVIOUS
  <2> QED BY <2>1 DEF Stream
<1>4. Climbs(<<s>> \o <<t, u>>, 1 + 2, lo, a, c - Takes(u) + Gives(u))
  <2>1. Stream(<<s>>) /\ Len(<<s>>) = 1 /\ 2 \in Nat /\ 2 <= 2
    BY OneStream
  <2> QED BY <1>1, <1>2, <1>3, <2>1, ClimbsConcat
<1>5. <<s>> \o <<t, u>> = <<s, t, u>> /\ 1 + 2 = 3
  BY GlueThree
<1> QED BY <1>4, <1>5

LEMMA LevelNone == Level(<<>>)
<1>1. Stream(<<>>) /\ Len(<<>>) = 0
  BY EmptySeq DEF Stream
<1> QED BY <1>1, ClimbsNone DEF Level, OpensNone

(* A task that neither takes nor gives. *)
LEMMA LevelOne ==
    ASSUME NEW t, t.k \notin Closers, Takes(t) = 0, Gives(t) = 0
    PROVE  Level(<<t>>)
<1>1. ASSUME NEW a \in Nat PROVE Climbs(<<t>>, 1, a, a, a)
  <2>1. a - Takes(t) >= a /\ a - Takes(t) + Gives(t) = a
    OBVIOUS
  <2> QED BY <2>1, ClimbsOne
<1> QED BY <1>1, OneStream, OpensOne DEF Level

(* A task that gives an operand and one that takes it. *)
LEMMA LevelTwo ==
    ASSUME NEW s, NEW t, s.k \notin Closers, t.k \notin Closers,
           Takes(s) = 0, Gives(s) = 1, Takes(t) = 1, Gives(t) = 0
    PROVE  Level(<<s, t>>)
<1>1. ASSUME NEW a \in Nat PROVE Climbs(<<s, t>>, 2, a, a, a)
  <2>1. /\ a - Takes(s) >= a /\ a + 1 = a - Takes(s) + Gives(s)
        /\ (a + 1) - Takes(t) >= a /\ (a + 1) - Takes(t) + Gives(t) = a
    OBVIOUS
  <2> QED BY <2>1, ClimbsTwo
<1> QED BY <1>1, OpensTwo DEF Level

LEMMA LevelConcat ==
    ASSUME NEW s, NEW t, Level(s), Level(t)
    PROVE  Level(s \o t)
<1>1. Stream(s \o t) /\ OpensNone(s \o t)
  BY OpensConcat DEF Level
<1>2. Len(t) \in Nat /\ Len(s \o t) = Len(s) + Len(t)
  BY StreamConcat DEF Level
<1>3. ASSUME NEW a \in Nat PROVE Climbs(s \o t, Len(s) + Len(t), a, a, a)
  BY <1>2, ClimbsConcat DEF Level
<1> QED BY <1>1, <1>2, <1>3 DEF Level

(* A list of level tasks of one kind. *)
LEMMA LevelAll ==
    ASSUME NEW ts, Stream(ts),
           \A i \in 1 .. Len(ts) : ts[i].k \notin Closers /\ Takes(ts[i]) = 0 /\ Gives(ts[i]) = 0
    PROVE  Level(ts)
<1> DEFINE n == Len(ts)
<1>1. n \in Nat
  BY StreamLength
<1> HIDE DEF n
<1>2. ASSUME NEW a \in Nat PROVE Climbs(ts, n, a, a, a)
  <2> DEFINE h == [i \in 1 .. n + 1 |-> a]
  <2>1. /\ h \in [1 .. n + 1 -> Nat] /\ \A i \in 1 .. n + 1 : h[i] = a
        /\ 1 \in 1 .. n + 1 /\ n + 1 \in 1 .. n + 1
        /\ \A i \in 1 .. n : i \in 1 .. n + 1 /\ i + 1 \in 1 .. n + 1
    BY <1>1
  <2> HIDE DEF h
  <2>2. \A i \in 1 .. n : h[i] - Takes(ts[i]) >= a /\ h[i + 1] = h[i] - Takes(ts[i]) + Gives(ts[i])
    BY <2>1 DEF n
  <2>3. Climb(ts, n, h, a, a, a)
    BY <2>1, <2>2 DEF Climb
  <2> QED BY <2>3 DEF Climbs
<1> QED BY <1>2 DEF Level, OpensNone, n

(* What the calls of the lowering take and give. *)
Quiets == {"Stmt", "Into", "StorePlace", "ThenEnd", "ElseEnd", "ForTop", "LoopEnd", "Redirection",
           "TernaryElse"}

LEMMA Kinds ==
    \A t : /\ t.k \in Quiets => t.k \notin Closers /\ Takes(t) = 0 /\ Gives(t) = 0
           /\ t.k \in {"Expr", "LoadPlace"} => t.k \notin Closers /\ Takes(t) = 0 /\ Gives(t) = 1
           /\ t.k \in TakesOne => t.k \notin Closers /\ Takes(t) = 1 /\ Gives(t) = 0
           /\ t.k = "BinaryEmit" => t.k \notin Closers /\ Takes(t) = 2 /\ Gives(t) = 0
           /\ t.k = "AssignEmit" => t.k \notin Closers /\ Takes(t) = 3 /\ Gives(t) = 0
           /\ t.k \in Closers => Takes(t) = 0
           /\ t.k = "TernaryThen" => Gives(t) = 0
  BY DEF Quiets, Closers, Takes, TakesOne, Gives

LEMMA CallKinds ==
    /\ \A s : Stmt(s).k = "Stmt"
    /\ \A e : Expr(e).k = "Expr"
    /\ \A e, r : Into(e, r).k = "Into"
    /\ Free.k = "Free"
    /\ \A p, r : LoadPlace(p, r).k = "LoadPlace"
    /\ \A p, r, x : StorePlace(p, r, x).k = "StorePlace"
  BY DEF Stmt, Expr, Into, Free, LoadPlace, StorePlace

LEMMA LevelBody == ASSUME NEW ss \in Seq(Stmts) PROVE Level(Body(ss))
<1>1. Stream(Body(ss))
  BY BodyType DEF Stream
<1>2. Len(ss) \in Nat
  OBVIOUS
<1>3. Len(Body(ss)) = Len(ss) /\ \A i \in 1 .. Len(ss) : Body(ss)[i] = Stmt(ss[i])
  BY <1>2 DEF Body
<1>4. \A i \in 1 .. Len(ss) : Body(ss)[i].k \in Quiets
  BY <1>3, CallKinds DEF Quiets
<1> QED BY <1>1, <1>3, <1>4, Kinds, LevelAll

LEMMA LevelSimple == ASSUME NEW ss PROVE Level(Simple(ss))
<1>1. \A e : Level(<<Expr(e), Free>>)
  <2> TAKE e
  <2>1. Expr(e).k = "Expr" /\ Free.k \in TakesOne
    BY CallKinds DEF TakesOne
  <2> QED BY <2>1, Kinds, LevelTwo
<1> QED BY <1>1, LevelNone DEF Simple

(* Filling a window. *)
LEMMA LevelFill ==
    ASSUME NEW args \in Seq(Exprs), NEW r
    PROVE  Level([i \in 1 .. Len(args) |-> Into(args[i], r + i - 1)])
<1> DEFINE fill == [i \in 1 .. Len(args) |-> Into(args[i], r + i - 1)]
           S == {fill[n] : n \in 1 .. Len(args)}
<1>1. Len(args) \in Nat
  OBVIOUS
<1>2. fill \in [1 .. Len(args) -> S]
  OBVIOUS
<1>3. \A i \in 1 .. Len(args) : fill[i].k \in Quiets
  BY CallKinds DEF Quiets
<1> HIDE DEF fill, S
<1>4. fill \in Seq(S) /\ Len(fill) = Len(args)
  BY <1>1, <1>2
<1>5. Stream(fill)
  BY <1>4 DEF Stream
<1> QED BY <1>3, <1>4, <1>5, Kinds, LevelAll DEF fill

-----------------------------------------------------------------------------
(* What a step does to the stack.  A step replaces the top task by others  *)
(* that end at the height the top task promised, and leaves the operands   *)
(* below the ones it takes alone.                                          *)

Base == Len(locals) - Takes(Top)

Beneath == \A i \in 1 .. Base : locals'[i] = locals[i]

Balanced == \E tasks :
    /\ Stream(tasks) /\ OpensNone(tasks)
    /\ control' = tasks \o Tail(control)
    /\ Climbs(tasks, Len(tasks), Base, Len(locals'), Base + Gives(Top))
    /\ Beneath

Ready == TypeOK /\ control # <<>> /\ Takes(Top) <= Len(locals)

LEMMA Heights == ASSUME Ready PROVE Base \in Nat /\ Len(locals) \in Nat /\ Gives(Top) \in Nat
  BY Amounts, LenProperties DEF Ready, TypeOK, Base

(* The operands stay as they are. *)
LEMMA DoLevel ==
    ASSUME Ready, Takes(Top) = 0, Gives(Top) = 0,
           NEW c, NEW tasks, Level(tasks), Do(c, locals, tasks)
    PROVE  Balanced
<1>1. Len(locals) \in Nat /\ Base = Len(locals) /\ Base + Gives(Top) = Len(locals)
  BY Heights DEF Base
<1>2. locals' = locals /\ control' = tasks \o Tail(control)
  BY DEF Do
<1>3. Climbs(tasks, Len(tasks), Base, Len(locals'), Base + Gives(Top))
  BY <1>1, <1>2 DEF Level
<1> QED BY <1>2, <1>3 DEF Balanced, Beneath, Level

(* The stack without its top. *)
LEMMA Popped ==
    ASSUME TypeOK, NEW n \in Nat, n < Len(locals) \/ n = Len(locals)
    PROVE  /\ Len(Pop(n)) = Len(locals) - n /\ Pop(n) \in Seq(Operands)
           /\ \A i \in 1 .. Len(locals) - n : Pop(n)[i] = locals[i]
<1>1. Len(locals) \in Nat /\ locals \in Seq(Operands)
  BY LenProperties DEF TypeOK
<1> DEFINE m == IF n < Len(locals) THEN Len(locals) - n ELSE 0
<1>2. m \in Nat /\ m = Len(locals) - n
  BY <1>1
<1>3. Pop(n) = Take(locals, m)
  BY DEF Pop
<1> HIDE DEF m
<1>4. /\ Take(locals, m) \in Seq(Operands)
      /\ Len(Take(locals, m)) = IF m < Len(locals) THEN m ELSE Len(locals)
      /\ \A i \in 1 .. Len(Take(locals, m)) : Take(locals, m)[i] = locals[i]
  BY <1>1, <1>2, TakeProperties
<1>5. Len(Take(locals, m)) = m
  BY <1>1, <1>2, <1>4
<1> QED BY <1>2, <1>3, <1>4, <1>5

(* The top operand is taken. *)
LEMMA DoPops ==
    ASSUME Ready, Takes(Top) = 1, Gives(Top) = 0,
           NEW c, NEW tasks, Level(tasks), Do(c, Pop(1), tasks)
    PROVE  Balanced
<1>1. Len(locals) \in Nat /\ Base = Len(locals) - 1 /\ Base + Gives(Top) = Base /\ Base \in Nat
  BY Heights DEF Base
<1>2. locals' = Pop(1) /\ control' = tasks \o Tail(control)
  BY DEF Do
<1>3. Len(locals') = Base /\ Beneath
  <2>1. 1 < Len(locals) \/ 1 = Len(locals)
    BY <1>1
  <2> QED BY <1>1, <1>2, <2>1, Popped DEF Beneath, Ready
<1>4. Climbs(tasks, Len(tasks), Base, Len(locals'), Base + Gives(Top))
  BY <1>1, <1>3 DEF Level
<1> QED BY <1>2, <1>3, <1>4 DEF Balanced, Level

(* An operand is pushed. *)
LEMMA DoPushes ==
    ASSUME Ready, Takes(Top) = 0, Gives(Top) = 1,
           NEW c, NEW x, NEW tasks, Level(tasks), Do(c, Append(locals, x), tasks)
    PROVE  Balanced
<1>1. Len(locals) \in Nat /\ Base = Len(locals) /\ Base + Gives(Top) = Len(locals) + 1
  BY Heights DEF Base
<1>2. locals' = Append(locals, x) /\ control' = tasks \o Tail(control)
  BY DEF Do
<1>3. Len(locals') = Len(locals) + 1 /\ \A i \in 1 .. Len(locals) : locals'[i] = locals[i]
  BY <1>2, StreamAppend DEF Ready, TypeOK, Stream
<1>4. Climbs(tasks, Len(tasks), Base, Len(locals'), Base + Gives(Top))
  <2>1. Climbs(tasks, Len(tasks), Len(locals) + 1, Len(locals) + 1, Len(locals) + 1) /\ Len(tasks) \in Nat
    BY <1>1, StreamLength DEF Level
  <2>2. Climbs(tasks, Len(tasks), Len(locals), Len(locals) + 1, Len(locals) + 1)
    BY <1>1, <2>1, ClimbsLower
  <2> QED BY <1>1, <1>3, <2>2
<1> QED BY <1>1, <1>2, <1>3, <1>4 DEF Balanced, Beneath, Level

(* The guard of an action. *)
LEMMA ReadyAt ==
    ASSUME Ready, NEW k, At(k) PROVE Top \in Tasks /\ Top.k = k /\ TypeOK
  BY AtTypes DEF Ready

-----------------------------------------------------------------------------
(* The actions: statements.                                                *)

LEMMA LevelPush ==
    ASSUME NEW e, NEW t, t.k \in TakesOne PROVE Level(<<Expr(e), t>>)
<1>1. Expr(e).k = "Expr"
  BY CallKinds
<1> QED BY <1>1, Kinds, LevelTwo

LEMMA LevelOperands ==
    ASSUME NEW l, NEW r, NEW t, l.k = "Expr", r.k = "Expr", t.k = "BinaryEmit"
    PROVE  Level(<<l, r, t>>)
<1>1. /\ l.k \notin Closers /\ Takes(l) = 0 /\ Gives(l) = 1
      /\ r.k \notin Closers /\ Takes(r) = 0 /\ Gives(r) = 1
      /\ t.k \notin Closers /\ Takes(t) = 2 /\ Gives(t) = 0
  BY Kinds
<1>2. \A a \in Nat : Climbs(<<l, r, t>>, 3, a, a, a)
  <2> TAKE a \in Nat
  <2>1. /\ a + 1 \in Nat /\ a + 2 \in Nat
        /\ a - Takes(l) >= a /\ a + 1 = a - Takes(l) + Gives(l)
        /\ (a + 1) - Takes(r) >= a /\ a + 2 = (a + 1) - Takes(r) + Gives(r)
        /\ (a + 2) - Takes(t) >= a /\ (a + 2) - Takes(t) + Gives(t) = a
    BY <1>1
  <2> QED BY <2>1, ClimbsThree
<1> QED BY <1>1, <1>2, OpensThree DEF Level

LEMMA LevelQuiet == ASSUME NEW t, t.k \in Quiets PROVE Level(<<t>>)
  BY Kinds, LevelOne

LEMMA TopQuiet ==
    ASSUME Top.k \in {"Stmt", "Into", "StorePlace", "ThenEnd", "ElseEnd", "ForTop", "LoopEnd", "Redirection",
                      "TernaryElse"}
    PROVE  Takes(Top) = 0 /\ Gives(Top) = 0
  BY Kinds DEF Quiets

LEMMA TopTakes == ASSUME Top.k \in TakesOne PROVE Takes(Top) = 1 /\ Gives(Top) = 0
  BY Kinds

LEMMA StackOfLoop ==
    ASSUME Ready, NEW cond, NEW body, NEW update, Loop(cond, body, update), Top.k \in {"Stmt", "ForTop"}
    PROVE  Balanced
<1> DEFINE b == [k |-> "LoopBranch", top |-> FollowingInstr(code, 0), body |-> body, update |-> update]
<1>1. Do(code, locals, <<Expr(cond), b>>)
  BY DEF Loop
<1>2. b.k \in TakesOne
  BY DEF TakesOne
<1> HIDE DEF b
<1> QED BY <1>1, <1>2, LevelPush, TopQuiet, DoLevel

LEMMA StackOfStatement ==
    ASSUME Ready, If \/ While \/ For \/ ForTop \/ DoWhile \/ ExprStmt
    PROVE  Balanced
<1>1. CASE If
  <2> DEFINE b == [k |-> "IfBranch", st |-> SaveRegs(code), body |-> Top.s.body, orelse |-> Top.s.orelse]
  <2>1. At("Stmt") /\ Do(code, locals, <<Expr(Top.s.c), b>>)
    BY <1>1 DEF If, AtStmt
  <2>2. b.k \in TakesOne
    BY DEF TakesOne
  <2> HIDE DEF b
  <2> QED BY <2>1, <2>2, LevelPush, ReadyAt, TopQuiet, DoLevel
<1>2. CASE While
  <2>1. At("Stmt") /\ Loop(Top.s.c, Top.s.body, <<>>)
    BY <1>2 DEF While, AtStmt
  <2> QED BY <2>1, ReadyAt, StackOfLoop
<1>3. CASE For
  <2> DEFINE b == [k |-> "ForTop", s |-> Top.s]
  <2>1. At("Stmt") /\ Do(code, locals, Simple(Top.s.init) \o <<b>>)
    BY <1>3 DEF For, AtStmt
  <2>2. b.k \in Quiets
    BY DEF Quiets
  <2> HIDE DEF b
  <2>3. Level(Simple(Top.s.init) \o <<b>>)
    BY <2>2, LevelSimple, LevelQuiet, LevelConcat
  <2> QED BY <2>1, <2>3, ReadyAt, TopQuiet, DoLevel
<1>4. CASE ForTop
  <2> DEFINE s == Top.s
             b == [k |-> "LoopEnd", top |-> FollowingInstr(code, 0), branch |-> <<>>]
             tasks == Body(s.body) \o Simple(s.update) \o <<b>>
  <2>1. At("ForTop") /\ Top.k = "ForTop" /\ s \in Stmts /\ s.k = "for"
    BY <1>4, ReadyAt, TaskFields DEF ForTop
  <2>2. CASE s.cond # <<>>
    <3>1. Loop(s.cond[1], s.body, s.update)
      BY <1>4, <2>2 DEF ForTop
    <3> QED BY <2>1, <3>1, StackOfLoop
  <2>3. CASE s.cond = <<>>
    <3>1. Do(code, locals, tasks)
      BY <1>4, <2>3 DEF ForTop
    <3>2. Level(Body(s.body)) /\ Level(Simple(s.update))
      BY <2>1, StmtFields, LevelBody, LevelSimple
    <3>3. b.k \in Quiets
      BY DEF Quiets
    <3> HIDE DEF b
    <3>4. Level(tasks)
      BY <3>2, <3>3, LevelQuiet, LevelConcat
    <3> HIDE DEF tasks
    <3> QED BY <2>1, <3>1, <3>4, TopQuiet, DoLevel
  <2> QED BY <2>2, <2>3
<1>5. CASE DoWhile
  <2> DEFINE b == [k |-> "DoBranch", top |-> FollowingInstr(code, 0)]
             end == <<Expr(Top.s.c), b>>
  <2>1. At("Stmt") /\ Top.s.k = "dowhile" /\ Do(code, locals, Body(Top.s.body) \o end)
    BY <1>5 DEF DoWhile, AtStmt
  <2>2. Top.k = "Stmt" /\ Top.s \in Stmts
    BY <2>1, ReadyAt, TaskFields
  <2>3. Level(Body(Top.s.body))
    BY <2>1, <2>2, StmtFields, LevelBody
  <2>4. b.k \in TakesOne
    BY DEF TakesOne
  <2> HIDE DEF b
  <2>5. Level(end)
    BY <2>4, LevelPush
  <2> HIDE DEF end
  <2>6. Level(Body(Top.s.body) \o end)
    BY <2>3, <2>5, LevelConcat
  <2> QED BY <2>1, <2>2, <2>6, TopQuiet, DoLevel
<1>6. CASE ExprStmt
  <2>1. At("Stmt") /\ Do(code, locals, <<Expr(Top.s.e), Free>>)
    BY <1>6 DEF ExprStmt, AtStmt
  <2>2. Free.k \in TakesOne
    BY CallKinds DEF TakesOne
  <2> QED BY <2>1, <2>2, LevelPush, ReadyAt, TopQuiet, DoLevel
<1> QED BY <1>1, <1>2, <1>3, <1>4, <1>5, <1>6

LEMMA StackOfBranch ==
    ASSUME Ready, IfBranch \/ LoopBranch \/ DoBranch
    PROVE  Balanced
<1>1. CASE IfBranch
  <2> DEFINE b == [k |-> "ThenEnd", st |-> Top.st, orelse |-> Top.orelse, branch |-> EmitLabel(code)]
             c == FreeLocal(Emit(code, Branch(Local(0).mi, FollowingInstr(code, 1), 0)), Local(0))
  <2>1. At("IfBranch") /\ Do(c, Pop(1), Body(Top.body) \o <<b>>)
    BY <1>1 DEF IfBranch
  <2>2. Top.k = "IfBranch" /\ Top.body \in Seq(Stmts)
    BY <2>1, ReadyAt, TaskFields
  <2>3. b.k \in Quiets
    BY DEF Quiets
  <2> HIDE DEF b, c
  <2>4. Level(Body(Top.body) \o <<b>>)
    BY <2>2, <2>3, LevelBody, LevelQuiet, LevelConcat
  <2>5. Top.k \in TakesOne
    BY <2>2 DEF TakesOne
  <2> QED BY <2>1, <2>4, <2>5, TopTakes, DoPops
<1>2. CASE LoopBranch
  <2> DEFINE b == [k |-> "LoopEnd", top |-> Top.top, branch |-> <<EmitLabel(code)>>]
             c == FreeLocal(Emit(code, Branch(Local(0).mi, FollowingInstr(code, 1), 0)), Local(0))
             tasks == Body(Top.body) \o Simple(Top.update) \o <<b>>
  <2>1. At("LoopBranch") /\ Do(c, Pop(1), tasks)
    BY <1>2 DEF LoopBranch
  <2>2. Top.k = "LoopBranch" /\ Top.body \in Seq(Stmts)
    BY <2>1, ReadyAt, TaskFields
  <2>3. b.k \in Quiets
    BY DEF Quiets
  <2> HIDE DEF b, c
  <2>4. Level(tasks)
    BY <2>2, <2>3, LevelBody, LevelSimple, LevelQuiet, LevelConcat
  <2>5. Top.k \in TakesOne
    BY <2>2 DEF TakesOne
  <2> HIDE DEF tasks
  <2> QED BY <2>1, <2>4, <2>5, TopTakes, DoPops
<1>3. CASE DoBranch
  <2> DEFINE c == FreeLocal(Emit(code, Branch(Local(0).mi, Top.top, FollowingInstr(code, 1))), Local(0))
  <2>1. At("DoBranch") /\ Do(c, Pop(1), <<>>)
    BY <1>3 DEF DoBranch
  <2>2. Top.k \in TakesOne
    BY <2>1, ReadyAt DEF TakesOne
  <2> HIDE DEF c
  <2> QED BY <2>1, <2>2, LevelNone, TopTakes, DoPops
<1> QED BY <1>1, <1>2, <1>3

LEMMA StackOfPatch ==
    ASSUME Ready, ThenEnd \/ ElseEnd \/ LoopEnd \/ TernaryElse
    PROVE  Balanced
<1>1. CASE ThenEnd
  <2> DEFINE patched == SetLabel(code, Top.branch, FollowingInstr(code, 0))
             c == Emit(PushStartLabel(patched, Top.branch), Jump(0))
             b == [k |-> "ElseEnd", st |-> [Top.st EXCEPT !.reg_pointer = @ + 1], jump |-> EmitLabel(code)]
             tasks == Body(Top.orelse[1]) \o <<b>>
  <2>1. At("ThenEnd") /\ IF Top.orelse = <<>> THEN Do(patched, locals, <<>>) ELSE Do(c, locals, tasks)
    BY <1>1 DEF ThenEnd
  <2>2. Top.k = "ThenEnd" /\ Top.orelse \in Seq(Seq(Stmts))
    BY <2>1, ReadyAt, TaskFields
  <2>3. b.k \in Quiets
    BY DEF Quiets
  <2> HIDE DEF b, c, patched
  <2>4. CASE Top.orelse = <<>>
    BY <2>1, <2>2, <2>4, LevelNone, TopQuiet, DoLevel
  <2>5. CASE Top.orelse # <<>>
    <3>1. Top.orelse[1] \in Seq(Stmts)
      BY <2>2, <2>5, EmptySeq
    <3>2. Level(tasks)
      BY <2>3, <3>1, LevelBody, LevelQuiet, LevelConcat
    <3> HIDE DEF tasks
    <3> QED BY <2>1, <2>2, <2>5, <3>2, TopQuiet, DoLevel
  <2> QED BY <2>4, <2>5
<1>2. CASE ElseEnd
  <2>1. At("ElseEnd") /\ \E c : Do(c, locals, <<>>)
    BY <1>2 DEF ElseEnd
  <2> QED BY <2>1, ReadyAt, LevelNone, TopQuiet, DoLevel
<1>3. CASE LoopEnd
  <2>1. At("LoopEnd") /\ \E c : Do(c, locals, <<>>)
    BY <1>3 DEF LoopEnd
  <2> QED BY <2>1, ReadyAt, LevelNone, TopQuiet, DoLevel
<1>4. CASE TernaryElse
  <2>1. At("TernaryElse") /\ \E c : Do(c, locals, <<>>)
    BY <1>4 DEF TernaryElse
  <2> QED BY <2>1, ReadyAt, LevelNone, TopQuiet, DoLevel
<1> QED BY <1>1, <1>2, <1>3, <1>4

-----------------------------------------------------------------------------
(* The actions: operands and operators.                                    *)

LEMMA TopPushes == ASSUME Top.k \in {"Expr", "LoadPlace"} PROVE Takes(Top) = 0 /\ Gives(Top) = 1
  BY Kinds

LEMMA StackOfFree ==
    ASSUME Ready, FreeTop \/ UnaryEmit \/ RecordEmit
    PROVE  Balanced
<1>1. Top.k \in TakesOne /\ \E c : Do(c, Pop(1), <<>>)
  <2>1. CASE FreeTop
    <3>1. At("Free") /\ \E c : Do(c, Pop(1), <<>>)
      BY <2>1 DEF FreeTop
    <3> QED BY <3>1, ReadyAt DEF TakesOne
  <2>2. CASE UnaryEmit
    <3>1. At("UnaryEmit") /\ \E c : Do(c, Pop(1), <<>>)
      BY <2>2 DEF UnaryEmit
    <3> QED BY <3>1, ReadyAt DEF TakesOne
  <2>3. CASE RecordEmit
    <3>1. At("RecordEmit") /\ \E c : Do(c, Pop(1), <<>>)
      BY <2>3 DEF RecordEmit
    <3> QED BY <3>1, ReadyAt DEF TakesOne
  <2> QED BY <2>1, <2>2, <2>3
<1> QED BY <1>1, LevelNone, TopTakes, DoPops

(* Both operands are taken. *)
LEMMA StackOfBinary == ASSUME Ready, BinaryEmit PROVE Balanced
<1>1. At("BinaryEmit") /\ \E c : Do(c, Pop(2), <<>>)
  BY DEF BinaryEmit
<1>2. Takes(Top) = 2 /\ Gives(Top) = 0
  BY <1>1, ReadyAt, Kinds
<1>3. Len(locals) \in Nat /\ Base = Len(locals) - 2 /\ Base \in Nat /\ Base + Gives(Top) = Base
  BY <1>2, Heights DEF Base
<1>4. locals' = Pop(2) /\ control' = <<>> \o Tail(control)
  BY <1>1 DEF Do
<1>5. Len(locals') = Base /\ Beneath
  <2>1. 2 \in Nat /\ (2 < Len(locals) \/ 2 = Len(locals))
    BY <1>3
  <2>2. TypeOK
    BY DEF Ready
  <2> QED BY <1>3, <1>4, <2>1, <2>2, Popped DEF Beneath
<1>6. Climbs(<<>>, Len(<<>>), Base, Len(locals'), Base + Gives(Top))
  BY <1>3, <1>5, LevelNone DEF Level
<1> QED BY <1>4, <1>5, <1>6, LevelNone DEF Balanced, Level

LEMMA StackOfOperand ==
    ASSUME Ready, LowerAtom \/ LowerNode \/ LoadScalar
    PROVE  Balanced
<1>1. Top.k \in {"Expr", "LoadPlace"} /\ \E c, x, tasks : Level(tasks) /\ Do(c, Append(locals, x), tasks)
  <2>1. CASE LowerAtom
    <3>1. At("Expr") /\ \E c, x : Do(c, Append(locals, x), <<>>)
      BY <2>1 DEF LowerAtom, Push
    <3> QED BY <3>1, ReadyAt, LevelNone
  <2>2. CASE LowerNode
    <3>1. At("Expr") /\ \E c, x : Do(c, Append(locals, x), <<Into(Top.e, NextReg(code))>>)
      BY <2>2 DEF LowerNode, Push
    <3>2. Level(<<Into(Top.e, NextReg(code))>>)
      BY CallKinds, LevelQuiet DEF Quiets
    <3> QED BY <3>1, <3>2, ReadyAt
  <2>3. CASE LoadScalar
    <3>1. At("LoadPlace") /\ \E c, x : Do(c, Append(locals, x), <<>>)
      BY <2>3 DEF LoadScalar, AtPlace, Push
    <3> QED BY <3>1, ReadyAt, LevelNone
  <2> QED BY <2>1, <2>2, <2>3
<1> QED BY <1>1, TopPushes, DoPushes

LEMMA StackOfInto ==
    ASSUME Ready, AtomInto \/ UnaryInto \/ BinaryInto \/ TernaryInto \/ AssignInto \/ IncrInto
    PROVE  Balanced
<1>1. At("Into")
  BY DEF AtomInto, UnaryInto, BinaryInto, TernaryInto, AssignInto, IncrInto, AtInto
<1>2. Takes(Top) = 0 /\ Gives(Top) = 0
  BY <1>1, ReadyAt, TopQuiet
<1>3. \E c, tasks : Level(tasks) /\ Do(c, locals, tasks)
  <2>1. CASE AtomInto
    <3>1. \E c : Do(c, locals, <<>>)
      BY <2>1 DEF AtomInto
    <3> QED BY <3>1, LevelNone
  <2>2. CASE UnaryInto
    <3> DEFINE b == [k |-> "UnaryEmit", op |-> Top.e.op, dest |-> Top.dest]
    <3>1. Do(code, locals, <<Expr(Top.e.e), b>>)
      BY <2>2 DEF UnaryInto
    <3>2. b.k \in TakesOne
      BY DEF TakesOne
    <3> HIDE DEF b
    <3> QED BY <3>1, <3>2, LevelPush
  <2>3. CASE BinaryInto
    <3> DEFINE b == [k |-> "BinaryEmit", op |-> Top.e.op, dest |-> Top.dest]
               l == Expr(Top.e.l)
               r == Expr(Top.e.r)
    <3>1. Do(code, locals, <<l, r, b>>)
      BY <2>3 DEF BinaryInto
    <3>2. b.k = "BinaryEmit" /\ l.k = "Expr" /\ r.k = "Expr"
      BY CallKinds
    <3> HIDE DEF b, l, r
    <3>3. Level(<<l, r, b>>)
      BY <3>2, LevelOperands
    <3> QED BY <3>1, <3>3
  <2>4. CASE TernaryInto
    <3> DEFINE b == [k |-> "TernaryBranch", t |-> Top.e.t, f |-> Top.e.f, dest |-> Top.dest]
    <3>1. Do(code, locals, <<Expr(Top.e.c), b>>)
      BY <2>4 DEF TernaryInto
    <3>2. b.k \in TakesOne
      BY DEF TakesOne
    <3> HIDE DEF b
    <3> QED BY <3>1, <3>2, LevelPush
  <2>5. CASE AssignInto
    <3> DEFINE b == [k |-> "AssignVal", op |-> Top.e.op, p |-> Top.e.p, dest |-> Top.dest]
    <3>1. Do(code, locals, <<Expr(Top.e.e), b>>)
      BY <2>5 DEF AssignInto
    <3>2. b.k \in TakesOne
      BY DEF TakesOne
    <3> HIDE DEF b
    <3> QED BY <3>1, <3>2, LevelPush
  <2>6. CASE IncrInto
    <3> DEFINE b == [k |-> "Incr", op |-> Top.e.op, post |-> Top.e.post, p |-> Top.e.p, dest |-> Top.dest]
               l == LoadPlace(Top.e.p, Top.dest)
    <3>1. Do(code, locals, <<l, b>>)
      BY <2>6 DEF IncrInto
    <3>2. l.k = "LoadPlace" /\ b.k \in TakesOne
      BY CallKinds DEF TakesOne
    <3> HIDE DEF b, l
    <3>3. Level(<<l, b>>)
      BY <3>2, Kinds, LevelTwo
    <3> QED BY <3>1, <3>3
  <2> QED BY <2>1, <2>2, <2>3, <2>4, <2>5, <2>6
<1> QED BY <1>2, <1>3, DoLevel

LEMMA StackOfStore ==
    ASSUME Ready, StoreScalar \/ StoreRecord
    PROVE  Balanced
<1>1. At("StorePlace")
  BY DEF StoreScalar, StoreRecord, AtPlace
<1>2. Takes(Top) = 0 /\ Gives(Top) = 0
  BY <1>1, ReadyAt, TopQuiet
<1>3. \E c, tasks : Level(tasks) /\ Do(c, locals, tasks)
  <2>1. CASE StoreScalar
    <3>1. \E c : Do(c, locals, <<>>)
      BY <2>1 DEF StoreScalar
    <3> QED BY <3>1, LevelNone
  <2>2. CASE StoreRecord
    <3> DEFINE b == [k |-> "RecordEmit", dest |-> Top.dest, src |-> Top.src]
    <3>1. Do(code, locals, <<Expr(Top.p.e), b>>)
      BY <2>2 DEF StoreRecord
    <3>2. b.k \in TakesOne
      BY DEF TakesOne
    <3> HIDE DEF b
    <3> QED BY <3>1, <3>2, LevelPush
  <2> QED BY <2>1, <2>2
<1> QED BY <1>2, <1>3, DoLevel

(* Any replacement that climbs to the promised height. *)
LEMMA DoClimbs ==
    ASSUME NEW c, NEW l, NEW tasks, Stream(tasks), OpensNone(tasks), Do(c, l, tasks),
           Climbs(tasks, Len(tasks), Base, Len(l), Base + Gives(Top)),
           \A i \in 1 .. Base : l[i] = locals[i]
    PROVE  Balanced
<1>1. locals' = l /\ control' = tasks \o Tail(control)
  BY DEF Do
<1> QED BY <1>1 DEF Balanced, Beneath

LEMMA StackOfRedirection == ASSUME Ready, Redirection PROVE Balanced
<1> DEFINE r == NextReg(code)
           t == Into(Top.e, r)
           l == Append(locals, Own(r))
<1>1. At("Redirection") /\ Do(AllocReg(code), l, <<t, Free>>)
  BY DEF Redirection, Push
<1>2. Takes(Top) = 0 /\ Gives(Top) = 0
  BY <1>1, ReadyAt, TopQuiet
<1>3. Base = Len(locals) /\ Base \in Nat /\ Base + Gives(Top) = Base
  BY <1>2, Heights DEF Base
<1>4. Len(l) = Base + 1 /\ \A i \in 1 .. Base : l[i] = locals[i]
  BY <1>3, StreamAppend DEF Ready, TypeOK, Stream
<1>5. t.k \in Quiets /\ Free.k \in TakesOne
  BY CallKinds DEF Quiets, TakesOne
<1> HIDE DEF t, l, r
<1>6. Takes(t) = 0 /\ Gives(t) = 0 /\ Takes(Free) = 1 /\ Gives(Free) = 0
  BY <1>5, Kinds
<1>7. Stream(<<t, Free>>) /\ Len(<<t, Free>>) = 2 /\ OpensNone(<<t, Free>>)
  BY <1>5, Kinds, OpensTwo
<1>8. Climbs(<<t, Free>>, 2, Base, Base + 1, Base)
  <2>1. /\ Base + 1 \in Nat /\ (Base + 1) - Takes(t) >= Base /\ Base + 1 = (Base + 1) - Takes(t) + Gives(t)
        /\ (Base + 1) - Takes(Free) >= Base /\ (Base + 1) - Takes(Free) + Gives(Free) = Base
    BY <1>3, <1>6
  <2> HIDE DEF Base
  <2> QED BY <1>3, <2>1, ClimbsTwo
<1> QED BY <1>1, <1>3, <1>4, <1>7, <1>8, DoClimbs

LEMMA StackOfCallEnd == ASSUME Ready, CallEnd PROVE Balanced
<1> DEFINE loads == Top.instr.op \in ArrayLoads
           x == Plain(Reg(Top.instr.dest))
           c == Emit(ScopeEnd(Top.st, code), Top.instr)
<1>1. At("CallEnd") /\ Do(c, IF loads THEN Append(locals, x) ELSE locals, <<>>)
  BY DEF CallEnd, Push
<1>2. Top.k = "CallEnd" /\ Takes(Top) = 0 /\ Gives(Top) = IF loads THEN 1 ELSE 0
  <2>1. Top.k = "CallEnd"
    BY <1>1, ReadyAt
  <2> QED BY <2>1 DEF Takes, TakesOne, Gives
<1> HIDE DEF c, x
<1>3. CASE loads
  BY <1>1, <1>2, <1>3, LevelNone, DoPushes
<1>4. CASE ~loads
  BY <1>1, <1>2, <1>4, LevelNone, DoLevel
<1> QED BY <1>3, <1>4

LEMMA StackOfThen == ASSUME Ready, TernaryThen PROVE Balanced
<1> DEFINE c == Emit(ScopeEnd(Top.st, code), Jump(0))
           t == Into(Top.f, Top.dest)
           b == [k |-> "TernaryElse", st |-> AfterScope(Top.st, code), branch |-> Top.branch,
                 jump |-> EmitLabel(code), label |-> FollowingInstr(c, 0)]
<1>1. At("TernaryThen") /\ Do(c, locals, <<t, b>>)
  BY DEF TernaryThen
<1>2. Takes(Top) = 0 /\ Gives(Top) = 0
  BY <1>1, ReadyAt, Kinds DEF Closers
<1>3. t.k \in Quiets /\ b.k \in Quiets
  BY CallKinds DEF Quiets
<1> HIDE DEF b, c, t
<1>4. Level(<<t, b>>)
  <2>1. Level(<<t>>) /\ Level(<<b>>)
    BY <1>3, LevelQuiet
  <2> QED BY <2>1, LevelConcat, GlueTwo
<1> QED BY <1>1, <1>2, <1>4, DoLevel

LEMMA StackOfAssign == ASSUME Ready, AssignVal \/ AssignEmit PROVE Balanced
<1>0. Len(locals) \in Nat /\ TypeOK /\ Free.k \in TakesOne /\ Takes(Free) = 1 /\ Gives(Free) = 0
  BY Heights, CallKinds, Kinds DEF Ready, TakesOne
<1>1. CASE AssignVal
  <2>1. Top.k \in TakesOne /\ Takes(Top) = 1 /\ Gives(Top) = 0
    <3>1. At("AssignVal")
      BY <1>1 DEF AssignVal
    <3> QED BY <3>1, ReadyAt, Kinds DEF TakesOne
  <2>2. Base = Len(locals) - 1 /\ Base \in Nat /\ Base + Gives(Top) = Base /\ Len(locals) = Base + 1
    BY <1>0, <2>1, Heights DEF Base
  <2>3. CASE Top.op = "Set"
    <3> DEFINE t == StorePlace(Top.p, Top.dest, Local(0).mi)
    <3>1. Do(code, locals, <<t, Free>>)
      BY <1>1, <2>3 DEF AssignVal
    <3>2. t.k \in Quiets
      BY CallKinds DEF Quiets
    <3> HIDE DEF t
    <3>3. Takes(t) = 0 /\ Gives(t) = 0
      BY <3>2, Kinds
    <3>4. Stream(<<t, Free>>) /\ Len(<<t, Free>>) = 2 /\ OpensNone(<<t, Free>>)
      BY <1>0, <3>2, Kinds, OpensTwo
    <3>5. Climbs(<<t, Free>>, 2, Base, Base + 1, Base)
      <4>1. /\ Base + 1 \in Nat /\ (Base + 1) - Takes(t) >= Base /\ Base + 1 = (Base + 1) - Takes(t) + Gives(t)
            /\ (Base + 1) - Takes(Free) >= Base /\ (Base + 1) - Takes(Free) + Gives(Free) = Base
        BY <1>0, <2>2, <3>3
      <4> HIDE DEF Base
      <4> QED BY <2>2, <4>1, ClimbsTwo
    <3> QED BY <2>2, <3>1, <3>4, <3>5, DoClimbs
  <2>4. CASE Top.op # "Set"
    <3> DEFINE r == NextReg(code)
               t == LoadPlace(Top.p, r)
               b == [k |-> "AssignEmit", op |-> Top.op, p |-> Top.p, dest |-> Top.dest]
               l == Append(locals, Own(r))
    <3>1. Do(AllocReg(code), l, <<t, b>>)
      BY <1>1, <2>4 DEF AssignVal, Push
    <3>2. t.k = "LoadPlace" /\ b.k = "AssignEmit"
      BY CallKinds
    <3>3. Len(l) = Base + 2 /\ \A i \in 1 .. Base : l[i] = locals[i]
      <4>1. Len(l) = Len(locals) + 1 /\ \A i \in 1 .. Len(locals) : l[i] = locals[i]
        BY <1>0, StreamAppend DEF TypeOK, Stream
      <4> QED BY <2>2, <4>1
    <3> HIDE DEF t, b, l, r
    <3>4. Takes(t) = 0 /\ Gives(t) = 1 /\ Takes(b) = 3 /\ Gives(b) = 0
      BY <3>2, Kinds
    <3>5. Stream(<<t, b>>) /\ Len(<<t, b>>) = 2 /\ OpensNone(<<t, b>>)
      BY <3>2, Kinds, OpensTwo
    <3>6. Climbs(<<t, b>>, 2, Base, Base + 2, Base)
      <4>1. /\ Base + 2 \in Nat /\ Base + 3 \in Nat
            /\ (Base + 2) - Takes(t) >= Base /\ Base + 3 = (Base + 2) - Takes(t) + Gives(t)
            /\ (Base + 3) - Takes(b) >= Base /\ (Base + 3) - Takes(b) + Gives(b) = Base
        BY <2>2, <3>4
      <4> HIDE DEF Base
      <4> QED BY <2>2, <4>1, ClimbsTwo
    <3> QED BY <2>2, <3>1, <3>3, <3>5, <3>6, DoClimbs
  <2> QED BY <2>3, <2>4
<1>2. CASE AssignEmit
  <2> DEFINE c == Emit(code, Binary(Top.op, Top.dest, Local(0).mi, Local(2).mi))
             t == StorePlace(Top.p, Top.dest, Reg(Top.dest))
  <2>1. At("AssignEmit") /\ Do(c, Pop(1), <<t, Free, Free>>)
    BY <1>2 DEF AssignEmit
  <2>2. Takes(Top) = 3 /\ Gives(Top) = 0
    BY <2>1, ReadyAt, Kinds
  <2>3. Base = Len(locals) - 3 /\ Base \in Nat /\ Base + Gives(Top) = Base /\ Len(locals) - 1 = Base + 2
    BY <1>0, <2>2, Heights DEF Base
  <2>4. Len(Pop(1)) = Base + 2 /\ \A i \in 1 .. Base : Pop(1)[i] = locals[i]
    <3>1. 1 < Len(locals)
      BY <1>0, <2>3
    <3>2. Len(Pop(1)) = Len(locals) - 1 /\ \A i \in 1 .. Len(locals) - 1 : Pop(1)[i] = locals[i]
      BY <1>0, <3>1, Popped
    <3> QED BY <1>0, <2>3, <3>2
  <2>5. t.k \in Quiets
    BY CallKinds DEF Quiets
  <2> HIDE DEF c, t
  <2>6. Takes(t) = 0 /\ Gives(t) = 0
    BY <2>5, Kinds
  <2>7. Stream(<<t, Free, Free>>) /\ Len(<<t, Free, Free>>) = 3 /\ OpensNone(<<t, Free, Free>>)
    BY <1>0, <2>5, Kinds, OpensThree
  <2>8. Climbs(<<t, Free, Free>>, 3, Base, Base + 2, Base)
    <3>1. /\ Base + 2 \in Nat /\ Base + 1 \in Nat
          /\ (Base + 2) - Takes(t) >= Base /\ Base + 2 = (Base + 2) - Takes(t) + Gives(t)
          /\ (Base + 2) - Takes(Free) >= Base /\ Base + 1 = (Base + 2) - Takes(Free) + Gives(Free)
          /\ (Base + 1) - Takes(Free) >= Base /\ (Base + 1) - Takes(Free) + Gives(Free) = Base
      BY <1>0, <2>3, <2>6
    <3> HIDE DEF Base
    <3> QED BY <2>3, <3>1, ClimbsThree
  <2> QED BY <2>1, <2>3, <2>4, <2>7, <2>8, DoClimbs
<1> QED BY <1>1, <1>2

LEMMA StackOfIncr == ASSUME Ready, Incr PROVE Balanced
<1>0. Len(locals) \in Nat /\ TypeOK /\ Free.k \in TakesOne /\ Takes(Free) = 1 /\ Gives(Free) = 0
  BY Heights, CallKinds, Kinds DEF Ready, TakesOne
<1>1. At("Incr")
  BY DEF Incr
<1>2. Top.k \in TakesOne /\ Takes(Top) = 1 /\ Gives(Top) = 0
  BY <1>1, ReadyAt, Kinds DEF TakesOne
<1>3. Base = Len(locals) - 1 /\ Base \in Nat /\ Base + Gives(Top) = Base /\ Len(locals) = Base + 1
  BY <1>0, <1>2, Heights DEF Base
<1>4. CASE ~Top.post
  <2> DEFINE t == StorePlace(Top.p, Top.dest, Reg(Top.dest))
  <2>1. \E c : Do(c, Pop(1), <<t>>)
    BY <1>4 DEF Incr
  <2>2. t.k \in Quiets
    BY CallKinds DEF Quiets
  <2> HIDE DEF t
  <2> QED BY <1>2, <2>1, <2>2, LevelQuiet, DoPops
<1>5. CASE Top.post
  <2> DEFINE tmp == NextReg(Emit(code, Binary("Add", Top.dest, Local(0).mi, Imm(0))))
             t == StorePlace(Top.p, tmp, Reg(tmp))
             l == Append(Pop(1), Own(tmp))
  <2>1. \E c : Do(c, l, <<t, Free>>)
    BY <1>5 DEF Incr
  <2>2. Len(l) = Base + 1 /\ \A i \in 1 .. Base : l[i] = locals[i]
    <3>1. 1 < Len(locals) \/ 1 = Len(locals)
      BY <1>3
    <3>2. /\ Len(Pop(1)) = Len(locals) - 1 /\ \A i \in 1 .. Len(locals) - 1 : Pop(1)[i] = locals[i]
          /\ Pop(1) \in Seq(Operands)
      BY <1>0, <3>1, Popped
    <3> HIDE DEF tmp
    <3>3. Len(l) = Len(Pop(1)) + 1 /\ \A i \in 1 .. Len(Pop(1)) : l[i] = Pop(1)[i]
      BY <3>2, StreamAppend DEF Stream
    <3> QED BY <1>3, <3>2, <3>3
  <2>3. t.k \in Quiets
    BY CallKinds DEF Quiets
  <2> HIDE DEF t, l, tmp
  <2>4. Takes(t) = 0 /\ Gives(t) = 0
    BY <2>3, Kinds
  <2>5. Stream(<<t, Free>>) /\ Len(<<t, Free>>) = 2 /\ OpensNone(<<t, Free>>)
    BY <1>0, <2>3, Kinds, OpensTwo
  <2>6. Climbs(<<t, Free>>, 2, Base, Base + 1, Base)
    <3>1. /\ Base + 1 \in Nat /\ (Base + 1) - Takes(t) >= Base /\ Base + 1 = (Base + 1) - Takes(t) + Gives(t)
          /\ (Base + 1) - Takes(Free) >= Base /\ (Base + 1) - Takes(Free) + Gives(Free) = Base
      BY <1>0, <1>3, <2>4
    <3> HIDE DEF Base
    <3> QED BY <1>3, <3>1, ClimbsTwo
  <2> QED BY <1>3, <2>1, <2>2, <2>5, <2>6, DoClimbs
<1> QED BY <1>4, <1>5

-----------------------------------------------------------------------------
(* The actions that open a scope: the tasks inside it leave the stack as   *)
(* they find it, and the task that closes it has saved the pointer.        *)

Opened == \E inner, t :
    /\ Level(inner)
    /\ control' = inner \o <<t>> \o Tail(control)
    /\ t.k \in Closers /\ Gives(t) = Gives(Top)
    /\ Len(locals') = Base /\ Beneath
    /\ t.st.reg_pointer = code.reg_pointer
    /\ t.k = "CallEnd" => t.instr.lo = code.reg_pointer /\ t.instr.hi = code'.reg_pointer

Whole(i) == {"op", "a", "b", "mem", "lo", "hi"} \subseteq DOMAIN i

LEMMA Wholes ==
    /\ \A out, redir : Whole(Output(out, redir)) /\ Output(out, redir).op = "OutputCall"
    /\ \A op, d, m : Whole(Load(op, d, m)) /\ Load(op, d, m).op = op
  BY DEF Whole, Output, Load, Blank

LEMMA OpensWindow ==
    ASSUME Ready, Takes(Top) = 0,
           NEW args \in Seq(Exprs), NEW extra, Level(extra),
           NEW instr, Whole(instr), Gives(Top) = IF instr.op \in ArrayLoads THEN 1 ELSE 0,
           NEW c, c.reg_pointer = code.reg_pointer + Len(args),
           Do(c, locals, Window(args, extra, instr))
    PROVE  Opened
<1> DEFINE p == code.reg_pointer
           fill == [i \in 1 .. Len(args) |-> Into(args[i], p + i - 1)]
           call == [instr EXCEPT !.lo = p, !.hi = p + Len(args)]
           end  == [k |-> "CallEnd", st |-> SaveRegs(code), instr |-> call]
<1>1. Window(args, extra, instr) = fill \o extra \o <<end>>
  BY DEF Window
<1>2. call.op = instr.op /\ call.lo = p /\ call.hi = p + Len(args)
  <2> DEFINE n == p + Len(args)
  <2> HIDE DEF n, p
  <2>1. [instr EXCEPT !.lo = p, !.hi = n].op = instr.op
    BY DEF Whole
  <2>2. [instr EXCEPT !.lo = p, !.hi = n].lo = p /\ [instr EXCEPT !.lo = p, !.hi = n].hi = n
    BY DEF Whole
  <2> QED BY <2>1, <2>2 DEF n
<1>3. end.k = "CallEnd" /\ end.instr = call /\ end.st = SaveRegs(code)
  OBVIOUS
<1>4. SaveRegs(code).reg_pointer = p
  BY DEF SaveRegs
<1>5. Level(fill)
  BY LevelFill
<1> HIDE DEF fill, call, end, p
<1>6. Level(fill \o extra)
  BY <1>5, LevelConcat
<1>7. /\ code' = c /\ locals' = locals
      /\ control' = (fill \o extra) \o <<end>> \o Tail(control)
  BY <1>1 DEF Do
<1>8. Base = Len(locals)
  BY Heights DEF Base
<1>9. end.k \in Closers /\ Gives(end) = Gives(Top)
  BY <1>2, <1>3 DEF Closers, Gives
<1>10. /\ end.st.reg_pointer = code.reg_pointer
       /\ end.instr.lo = code.reg_pointer /\ end.instr.hi = code'.reg_pointer
  BY <1>2, <1>3, <1>4, <1>7 DEF p
<1> QED BY <1>6, <1>7, <1>8, <1>9, <1>10 DEF Opened, Beneath

LEMMA StackOfCommand == ASSUME Ready, Command PROVE Opened
<1> DEFINE s == Top.s
           rd == [k |-> "Redirection", e |-> s.redir[1]]
           extra == IF s.redir = <<>> THEN <<>> ELSE <<rd>>
           i == Output(s.name, s.redir # <<>>)
           c == [code EXCEPT !.reg_pointer = @ + Len(s.args)]
<1>1. At("Stmt") /\ s.k = "command" /\ Do(c, locals, Window(s.args, extra, i))
  BY DEF Command, AtStmt
<1>2. Top.k = "Stmt" /\ s \in Stmts /\ code \in CodeType
  BY <1>1, ReadyAt, TaskFields DEF TypeOK
<1>3. s.args \in Seq(Exprs)
  BY <1>1, <1>2, StmtFields
<1>4. Takes(Top) = 0 /\ Gives(Top) = 0
  BY <1>2, TopQuiet
<1>5. rd.k \in Quiets
  BY DEF Quiets
<1> HIDE DEF rd
<1>6. Level(extra)
  BY <1>5, LevelNone, LevelQuiet
<1>7. Whole(i) /\ i.op \notin ArrayLoads
  BY Wholes DEF ArrayLoads
<1>8. c.reg_pointer = code.reg_pointer + Len(s.args)
  BY <1>2 DEF CodeType
<1> HIDE DEF extra, i, c
<1> QED BY <1>1, <1>3, <1>4, <1>6, <1>7, <1>8, OpensWindow

LEMMA StackOfIndex == ASSUME Ready, LoadIndex \/ StoreIndex PROVE Opened
<1> DEFINE p == Top.p
<1>1. /\ Top.k \in {"LoadPlace", "StorePlace"} /\ p.k \in Indexed
      /\ \E user, builtin : /\ ArrayAccess(user, builtin)
                            /\ Top.k = "LoadPlace" => user \in ArrayLoads /\ builtin \in ArrayLoads
                            /\ Top.k = "StorePlace" => user \notin ArrayLoads /\ builtin \notin ArrayLoads
  <2>1. CASE LoadIndex
    <3>1. At("LoadPlace") /\ p.k \in Indexed /\ ArrayAccess("LoadUserArray", "LoadBuiltinArray")
      BY <2>1 DEF LoadIndex, AtPlace
    <3> QED BY <3>1, ReadyAt DEF ArrayLoads
  <2>2. CASE StoreIndex
    <3>1. At("StorePlace") /\ p.k \in Indexed /\ ArrayAccess("StoreUserArray", "StoreBuiltinArray")
      BY <2>2 DEF StoreIndex, AtPlace
    <3> QED BY <3>1, ReadyAt DEF ArrayLoads
  <2> QED BY <2>1, <2>2
<1>2. PICK user, builtin :
        /\ ArrayAccess(user, builtin)
        /\ Top.k = "LoadPlace" => user \in ArrayLoads /\ builtin \in ArrayLoads
        /\ Top.k = "StorePlace" => user \notin ArrayLoads /\ builtin \notin ArrayLoads
  BY <1>1
<1> DEFINE c == IF p.k = "userindex" THEN RegisterUserVar(code, p.id) ELSE code
           i == IF p.k = "userindex" THEN Load(user, Top.dest, UserIndex(c, p.id))
                                     ELSE Load(builtin, Top.dest, p.n)
           d == [c EXCEPT !.reg_pointer = @ + Len(p.args)]
<1>3. Do(d, locals, Window(p.args, <<>>, i))
  BY <1>2 DEF ArrayAccess
<1>4. code \in CodeType /\ p \in Places
  BY <1>1, TopTypes, TaskFields DEF Ready, TypeOK
<1>5. p.args \in Seq(Exprs)
  BY <1>1, <1>4, PlaceFields DEF Indexed
<1>6. c \in CodeType /\ c.reg_pointer = code.reg_pointer
  BY <1>4, PlaceFields, RegisterUserVarProperties
<1>7. Whole(i) /\ (i.op = user \/ i.op = builtin)
  BY Wholes
<1>8. Gives(Top) = IF i.op \in ArrayLoads THEN 1 ELSE 0
  <2>1. CASE Top.k = "LoadPlace"
    BY <1>2, <1>7, <2>1, TopPushes
  <2>2. CASE Top.k = "StorePlace"
    BY <1>2, <1>7, <2>2, TopQuiet
  <2> QED BY <1>1, <2>1, <2>2
<1>9. Takes(Top) = 0
  BY <1>1, TopPushes, TopQuiet
<1> HIDE DEF i, c
<1>10. d.reg_pointer = code.reg_pointer + Len(p.args)
  BY <1>6 DEF CodeType
<1> HIDE DEF d
<1> QED BY <1>3, <1>5, <1>7, <1>8, <1>9, <1>10, LevelNone, OpensWindow

LEMMA StackOfTernary == ASSUME Ready, TernaryBranch PROVE Opened
<1> DEFINE c == FreeLocal(Emit(code, Branch(Local(0).mi, FollowingInstr(code, 1), 0)), Local(0))
           t == Into(Top.t, Top.dest)
           b == [k |-> "TernaryThen", st |-> SaveRegs(c), f |-> Top.f, dest |-> Top.dest,
                 branch |-> EmitLabel(code)]
<1>1. At("TernaryBranch") /\ Do(c, Pop(1), <<t, b>>)
  BY DEF TernaryBranch
<1>2. Top.k \in TakesOne /\ Takes(Top) = 1 /\ Gives(Top) = 0
  BY <1>1, ReadyAt, Kinds DEF TakesOne
<1>3. t.k \in Quiets
  BY CallKinds DEF Quiets
<1>4. b.k \in Closers /\ b.k # "CallEnd" /\ Gives(b) = 0 /\ b.st.reg_pointer = c.reg_pointer
  BY DEF Closers, Gives, SaveRegs
<1>5. c.reg_pointer = code.reg_pointer
  BY DEF FreeLocal, FreeReg, Emit
<1> HIDE DEF t, b, c
<1>6. Level(<<t>>)
  BY <1>3, LevelQuiet
<1>7. control' = <<t>> \o <<b>> \o Tail(control)
  BY <1>1, GlueTwo DEF Do
<1>8. Len(locals') = Base /\ Beneath
  <2>1. Len(locals) \in Nat /\ Base = Len(locals) - 1 /\ Base \in Nat /\ TypeOK /\ locals' = Pop(1)
    BY <1>1, <1>2, Heights DEF Base, Ready, Do
  <2>2. 1 < Len(locals) \/ 1 = Len(locals)
    BY <2>1
  <2> QED BY <2>1, <2>2, Popped DEF Beneath
<1> QED BY <1>2, <1>4, <1>5, <1>6, <1>7, <1>8 DEF Opened

-----------------------------------------------------------------------------
(* The heights after a step.                                               *)

LEMMA StackOfStep ==
    ASSUME Ready, LowerStatement \/ LowerExpr \/ LowerPlace
    PROVE  Balanced \/ Opened
<1>1. CASE LowerStatement
  BY <1>1, StackOfStatement, StackOfBranch, StackOfPatch, StackOfCommand, StackOfRedirection, StackOfCallEnd
     DEF LowerStatement
<1>2. CASE LowerExpr
  BY <1>2, StackOfFree, StackOfOperand, StackOfInto, StackOfBinary, StackOfTernary, StackOfThen, StackOfPatch,
     StackOfAssign, StackOfIncr
     DEF LowerExpr
<1>3. CASE LowerPlace
  BY <1>3, StackOfFree, StackOfOperand, StackOfStore, StackOfIndex DEF LowerPlace
<1> QED BY <1>1, <1>2, <1>3

(* These steps are taken while lowering, and it goes on. *)
LEMMA StepsLower ==
    ASSUME LowerStatement \/ LowerExpr \/ LowerPlace
    PROVE  status = "lowering" /\ status' = status /\ control # <<>>
<1>1. CASE LowerStatement
  BY <1>1 DEF LowerStatement, If, IfBranch, ThenEnd, ElseEnd, While, For, ForTop, Loop, LoopBranch, LoopEnd,
              DoWhile, DoBranch, ExprStmt, Command, Redirection, CallEnd, At, AtStmt, Do
<1>2. CASE LowerExpr
  BY <1>2 DEF LowerExpr, FreeTop, LowerAtom, LowerNode, AtomInto, UnaryInto, UnaryEmit, BinaryInto, BinaryEmit,
              TernaryInto, TernaryBranch, TernaryThen, TernaryElse, AssignInto, AssignVal, AssignEmit, IncrInto,
              Incr, At, AtInto, Do
<1>3. CASE LowerPlace
  BY <1>3 DEF LowerPlace, LoadScalar, StoreScalar, LoadIndex, StoreIndex, ArrayAccess, StoreRecord, RecordEmit,
              At, AtPlace, Do
<1> QED BY <1>1, <1>2, <1>3

(* What waits behind the top task keeps its heights. *)
LEMMA ClimbsOver ==
    ASSUME Ready, NEW tasks, Stream(tasks), control' = tasks \o Tail(control),
           Climbs(tasks, Len(tasks), Base, Len(locals'), Base + Gives(Top)),
           NEW n \in 1 .. Len(control), NEW lo \in Nat, NEW b,
           Climbs(control, n, lo, Len(locals), b)
    PROVE  Climbs(control', Len(tasks) + (n - 1), lo, Len(locals'), b)
<1> DEFINE tl == Tail(control)
<1>1. Stream(control) /\ control # <<>> /\ Len(control) \in Nat
  BY LenProperties DEF Ready, TypeOK, Stream
<1>2. n \in Nat \ {0} /\ n <= Len(control) /\ n - 1 \in Nat
  BY <1>1
<1>3. Len(locals) - Takes(Top) >= lo /\ Climbs(tl, n - 1, lo, Len(locals) - Takes(Top) + Gives(Top), b)
  BY <1>1, <1>2, ClimbsTail DEF Top
<1>4. Stream(tl) /\ Len(tl) = Len(control) - 1 /\ n - 1 <= Len(tl)
  BY <1>1, <1>2, StreamTail
<1>5. Base \in Nat /\ lo <= Base /\ Len(tasks) \in Nat
  BY <1>3, Heights, StreamLength DEF Base
<1>6. Climbs(tasks, Len(tasks), lo, Len(locals'), Base + Gives(Top))
  BY <1>5, ClimbsLower
<1>7. Climbs(tl, n - 1, lo, Base + Gives(Top), b)
  BY <1>3 DEF Base
<1> HIDE DEF tl
<1>8. Climbs(tasks \o tl, Len(tasks) + (n - 1), lo, Len(locals'), b)
  BY <1>2, <1>4, <1>6, <1>7, ClimbsConcat
<1> QED BY <1>8 DEF tl

(* A task that closes a scope, behind the tasks inside the scope. *)
LEMMA ClimbsClosed ==
    ASSUME NEW inner, Level(inner), NEW t, t.k \in Closers, NEW a \in Nat
    PROVE  /\ Stream(inner \o <<t>>) /\ Len(inner \o <<t>>) = Len(inner) + 1
           /\ Climbs(inner \o <<t>>, Len(inner) + 1, a, a, a + Gives(t))
<1>1. Stream(<<t>>) /\ Len(<<t>>) = 1 /\ 1 \in Nat /\ 1 <= 1
  BY OneStream
<1>2. Climbs(<<t>>, 1, a, a, a + Gives(t))
  <2>1. Takes(t) = 0 /\ a - Takes(t) >= a /\ a - Takes(t) + Gives(t) = a + Gives(t)
    BY Kinds, Amounts
  <2> QED BY <2>1, ClimbsOne
<1>3. Climbs(inner \o <<t>>, Len(inner) + 1, a, a, a + Gives(t))
  BY <1>1, <1>2, ClimbsConcat DEF Level
<1> QED BY <1>1, <1>3, StreamConcat DEF Level

(* No task takes more than there is, and in the end nothing is there. *)
StackInv ==
    /\ TypeOK
    /\ Climbs(control, Len(control), 0, Len(locals), 0)
    /\ status = "lowered" => control = <<>>

LEMMA StackReady == ASSUME StackInv, control # <<>> PROVE Ready
<1>1. Stream(control) /\ Len(control) \in Nat /\ Len(control) # 0 /\ Len(locals) \in Nat
  BY LenProperties, EmptySeq DEF StackInv, TypeOK, Stream
<1>2. Len(locals) - Takes(control[1]) >= 0
  BY <1>1, ClimbsTail DEF StackInv
<1>3. Takes(Top) \in 0 .. 3
  BY Amounts
<1> QED BY <1>1, <1>2, <1>3 DEF Ready, StackInv, Top

LEMMA StackStarts == ASSUME Init PROVE StackInv
<1>1. Level(control) /\ locals = <<>> /\ Len(locals) = 0
  BY LevelBody, ProgramsAssumption DEF Init
<1>2. status = "lowering" /\ 0 \in Nat
  BY DEF Init
<1>3. Climbs(control, Len(control), 0, Len(locals), 0)
  BY <1>1, <1>2 DEF Level
<1> QED BY <1>2, <1>3, InitTypes DEF StackInv

LEMMA StackStep == StackInv /\ [Next]_vars => StackInv'
<1> SUFFICES ASSUME StackInv, [Next]_vars PROVE StackInv'
  OBVIOUS
<1>0. TypeOK /\ TypeOK'
  BY StepTypes DEF StackInv
<1>1. CASE LowerStatement \/ LowerExpr \/ LowerPlace
  <2>1. Ready /\ control # <<>> /\ status' = "lowering"
    BY <1>1, StepsLower, StackReady
  <2>2. \E tasks : /\ Stream(tasks) /\ control' = tasks \o Tail(control)
                   /\ Climbs(tasks, Len(tasks), Base, Len(locals'), Base + Gives(Top))
    <3>1. CASE Balanced
      BY <3>1 DEF Balanced
    <3>2. CASE Opened
      <4>1. PICK inner, t : /\ Level(inner) /\ t.k \in Closers /\ Gives(t) = Gives(Top)
                            /\ control' = inner \o <<t>> \o Tail(control) /\ Len(locals') = Base
        BY <3>2 DEF Opened
      <4>2. /\ Stream(inner \o <<t>>) /\ Len(inner \o <<t>>) = Len(inner) + 1
            /\ Climbs(inner \o <<t>>, Len(inner) + 1, Base, Base, Base + Gives(t))
        BY <2>1, <4>1, Heights, ClimbsClosed
      <4> QED BY <4>1, <4>2
    <3> QED BY <1>1, <2>1, <3>1, <3>2, StackOfStep
  <2>3. PICK tasks : /\ Stream(tasks) /\ control' = tasks \o Tail(control)
                     /\ Climbs(tasks, Len(tasks), Base, Len(locals'), Base + Gives(Top))
    BY <2>2
  <2>4. Stream(control) /\ Len(control) \in Nat \ {0} /\ Stream(Tail(control)) /\ Len(Tail(control)) = Len(control) - 1
    BY <1>0, <2>1, StreamTail DEF TypeOK, Stream
  <2>5. Len(control) \in 1 .. Len(control)
    BY <2>4
  <2>6. Climbs(control', Len(tasks) + (Len(control) - 1), 0, Len(locals'), 0)
    BY <2>1, <2>3, <2>5, ClimbsOver DEF StackInv
  <2>7. Len(control') = Len(tasks) + (Len(control) - 1)
    BY <2>3, <2>4, StreamConcat
  <2> QED BY <1>0, <2>1, <2>6, <2>7 DEF StackInv
<1>2. CASE Panic
  BY <1>0, <1>2 DEF StackInv, Panic, Climbs, Climb
<1>3. CASE Finish
  BY <1>0, <1>3 DEF StackInv, Finish, Climbs, Climb
<1>4. CASE UNCHANGED vars
  BY <1>0, <1>4 DEF StackInv, vars, Climbs, Climb
<1> QED BY <1>1, <1>2, <1>3, <1>4 DEF Next

LEMMA StackAlways == Spec => []StackInv
<1>1. Init => StackInv
  BY StackStarts
<1> QED BY <1>1, StackStep, PTL DEF Spec

(* For every program, with all its calls, ternaries and assignments: no    *)
(* LinearReg is dropped by the return of its owner (lower.rs:615), as many *)
(* are consumed as were made.                                              *)
THEOREM OperandsAreConsumed == Spec => []OperandsConsumed
<1>1. ASSUME StackInv PROVE OperandsConsumed
  <2> SUFFICES ASSUME status = "lowered" PROVE locals = <<>>
    BY DEF OperandsConsumed
  <2>1. control = <<>> /\ Len(control) = 0
    BY <1>1 DEF StackInv
  <2>2. PICK h : Climb(control, 0, h, 0, Len(locals), 0)
    BY <1>1, <2>1 DEF StackInv, Climbs
  <2>3. Len(locals) = 0
    BY <2>2 DEF Climb
  <2> QED BY <1>1, <2>3, EmptySeq DEF StackInv, TypeOK
<1>2. StackInv => OperandsConsumed
  BY <1>1
<1> QED BY <1>2, StackAlways, PTL

(* A task never reads an operand that is not there: the index a local is   *)
(* read with stays within the stack.                                       *)
THEOREM OperandsAreThere == Spec => [](control # <<>> => Takes(Top) <= Len(locals))
<1>1. StackInv => (control # <<>> => Takes(Top) <= Len(locals))
  BY StackReady DEF Ready
<1> QED BY <1>1, StackAlways, PTL

-----------------------------------------------------------------------------
(* Scopes.  A scope puts the register pointer and the length of the free   *)
(* list back to what they were.  As long as what is left of the list is    *)
(* below the pointer (ScopesClose) nobody shares a register, in whatever   *)
(* way calls, ternaries and elses are nested.                              *)

(* What holds of the registers h of the owners, the free list f, the       *)
(* pointer p and the registers w of open windows, when nobody shares one.  *)
Apart(h, f, p, w) ==
    /\ p \in Nat /\ f \in Seq(Nat) /\ w \subseteq Nat
    /\ \A i \in DOMAIN h : h[i] \in Nat /\ h[i] < p /\ h[i] \notin w
    /\ \A i, j \in DOMAIN h : i # j => h[i] # h[j]
    /\ \A i, j \in 1 .. Len(f) : i # j => f[i] # f[j]
    /\ \A j \in 1 .. Len(f) : f[j] < p /\ f[j] \notin w
    /\ \A i \in DOMAIN h, j \in 1 .. Len(f) : h[i] # f[j]
    /\ \A r \in w : r < p

(* g is a part of h. *)
Fewer(g, h) == DOMAIN g \subseteq DOMAIN h /\ \A i \in DOMAIN g : g[i] = h[i]

(* Owners may go, windows may close and the pointer may be raised. *)
LEMMA ApartFewer ==
    ASSUME NEW h, NEW f, NEW p, NEW w, Apart(h, f, p, w),
           NEW g, Fewer(g, h), NEW q \in Nat, p <= q, NEW v, v \subseteq w
    PROVE  Apart(g, f, q, v)
<1>1. p \in Nat /\ f \in Seq(Nat) /\ v \subseteq Nat /\ \A r \in Nat : r < p => r < q
  BY DEF Apart
<1>2. \A i \in DOMAIN g : g[i] \in Nat /\ g[i] < q /\ g[i] \notin v
  BY <1>1 DEF Apart, Fewer
<1>3. \A i, j \in DOMAIN g : i # j => g[i] # g[j]
  BY DEF Apart, Fewer
<1>4. \A j \in 1 .. Len(f) : f[j] < q /\ f[j] \notin v
  <2>1. \A j \in 1 .. Len(f) : f[j] \in Nat
    BY <1>1
  <2> QED BY <1>1, <2>1 DEF Apart
<1>5. \A i \in DOMAIN g, j \in 1 .. Len(f) : g[i] # f[j]
  BY DEF Apart, Fewer
<1>6. \A r \in v : r < q
  BY <1>1 DEF Apart
<1>7. \A i, j \in 1 .. Len(f) : i # j => f[i] # f[j]
  BY DEF Apart
<1> QED BY <1>1, <1>2, <1>3, <1>4, <1>5, <1>6, <1>7 DEF Apart

(* Fewer windows. *)
LEMMA ApartSmaller ==
    ASSUME NEW h, NEW f, NEW p, NEW w, Apart(h, f, p, w), NEW v, v \subseteq w
    PROVE  Apart(h, f, p, v)
<1>1. Fewer(h, h) /\ p \in Nat /\ p <= p
  BY DEF Fewer, Apart
<1> QED BY <1>1, ApartFewer

(* The start of the free list is kept, all that stays is below q. *)
LEMMA ApartKept ==
    ASSUME NEW h, NEW f, NEW p, NEW w, Apart(h, f, p, w), NEW n \in Nat,
           NEW q \in Nat, NEW v, v \subseteq w,
           \A i \in DOMAIN h : h[i] < q,
           \A i \in 1 .. Len(f) : i <= n => f[i] < q,
           \A r \in v : r < q
    PROVE  Apart(h, Take(f, n), q, v)
<1> DEFINE g == Take(f, n)
<1>1. f \in Seq(Nat) /\ v \subseteq Nat /\ Len(f) \in Nat
  BY DEF Apart
<1>2. /\ g \in Seq(Nat) /\ Len(g) = (IF n < Len(f) THEN n ELSE Len(f))
      /\ \A j \in 1 .. Len(g) : g[j] = f[j]
  BY <1>1, TakeProperties
<1> HIDE DEF g
<1>3. \A j \in 1 .. Len(g) : j \in 1 .. Len(f) /\ j <= n
  BY <1>1, <1>2
<1>4. \A i, j \in 1 .. Len(g) : i # j => g[i] # g[j]
  BY <1>2, <1>3 DEF Apart
<1>5. \A j \in 1 .. Len(g) : g[j] < q /\ g[j] \notin v
  BY <1>2, <1>3 DEF Apart
<1>6. \A i \in DOMAIN h, j \in 1 .. Len(g) : h[i] # g[j]
  BY <1>2, <1>3 DEF Apart
<1>7. \A i \in DOMAIN h : h[i] \in Nat /\ h[i] < q /\ h[i] \notin v
  BY DEF Apart
<1>8. \A i, j \in DOMAIN h : i # j => h[i] # h[j]
  BY DEF Apart
<1>9. Apart(h, g, q, v)
  BY <1>1, <1>2, <1>4, <1>5, <1>6, <1>7, <1>8 DEF Apart
<1> QED BY <1>9 DEF g

(* A window is opened at the pointer. *)
LEMMA ApartOpened ==
    ASSUME NEW h, NEW f, NEW p, NEW w, Apart(h, f, p, w), NEW q \in Nat, p <= q,
           NEW v, \A r \in v : r \in w \/ r \in p .. q - 1
    PROVE  Apart(h, f, q, v)
<1>1. p \in Nat /\ f \in Seq(Nat) /\ w \subseteq Nat /\ \A r \in Nat : r < p => r < q /\ r \notin p .. q - 1
  <2>1. p \in Nat /\ f \in Seq(Nat) /\ w \subseteq Nat
    BY DEF Apart
  <2>2. \A r \in Nat : r < p => r < q
    BY <2>1
  <2>3. ASSUME NEW r \in Nat, r < p PROVE r \notin p .. q - 1
    BY <2>1, <2>3
  <2> QED BY <2>1, <2>2, <2>3
<1>2. \A r \in v : r \in Nat /\ r < q
  <2>1. \A r \in w : r \in Nat /\ r < p
    BY DEF Apart
  <2>2. \A r \in p .. q - 1 : r \in Nat /\ r < q
    BY <1>1
  <2> QED BY <1>1, <2>1, <2>2
<1>3. \A i \in DOMAIN h : h[i] \in Nat /\ h[i] < q /\ h[i] \notin v
  BY <1>1 DEF Apart
<1>4. \A j \in 1 .. Len(f) : f[j] < q /\ f[j] \notin v
  <2>1. \A j \in 1 .. Len(f) : f[j] \in Nat
    BY <1>1
  <2> QED BY <1>1, <2>1 DEF Apart
<1>5. v \subseteq Nat
  BY <1>2
<1>6. /\ \A i, j \in DOMAIN h : i # j => h[i] # h[j]
      /\ \A i, j \in 1 .. Len(f) : i # j => f[i] # f[j]
      /\ \A i \in DOMAIN h, j \in 1 .. Len(f) : h[i] # f[j]
  BY DEF Apart
<1> QED BY <1>1, <1>2, <1>3, <1>4, <1>5, <1>6 DEF Apart

(* The register on top of the free list finds an owner. *)
LEMMA ApartReuse ==
    ASSUME NEW h, NEW f, NEW p, NEW w, Apart(h, f, p, w), f # <<>>, NEW i, i \notin DOMAIN h
    PROVE  Apart(With(h, i, f[Len(f)]), Take(f, Len(f) - 1), p, w)
<1> DEFINE n == Len(f)
           r == f[n]
           g == Take(f, n - 1)
           k == With(h, i, r)
<1>1. n \in Nat \ {0} /\ f \in Seq(Nat) /\ n \in 1 .. n /\ n - 1 \in Nat
  BY DEF Apart
<1>2. r \in Nat /\ r < p /\ r \notin w
  BY <1>1 DEF Apart
<1>3. g \in Seq(Nat) /\ Len(g) = n - 1 /\ \A j \in 1 .. n - 1 : g[j] = f[j]
  BY <1>1, TakeProperties
<1>4. DOMAIN k = DOMAIN h \cup {i} /\ k[i] = r /\ \A x \in DOMAIN h : k[x] = h[x]
  BY DEF With
<1>5. \A j \in 1 .. n - 1 : j \in 1 .. n /\ j # n
  BY <1>1
<1>6. r = f[n] /\ n = Len(f)
  OBVIOUS
<1> HIDE DEF n, r, g, k
<1>7. \A x \in DOMAIN k : k[x] \in Nat /\ k[x] < p /\ k[x] \notin w
  BY <1>2, <1>4 DEF Apart
<1>8. \A x, y \in DOMAIN k : x # y => k[x] # k[y]
  BY <1>1, <1>4, <1>6 DEF Apart
<1>9. \A x, y \in 1 .. Len(g) : x # y => g[x] # g[y]
  BY <1>3, <1>5, <1>6 DEF Apart
<1>10. \A x \in 1 .. Len(g) : g[x] < p /\ g[x] \notin w
  BY <1>3, <1>5, <1>6 DEF Apart
<1>11. \A x \in DOMAIN h, j \in 1 .. Len(g) : h[x] # g[j]
  BY <1>3, <1>5, <1>6 DEF Apart
<1>12. \A j \in 1 .. Len(g) : r # g[j]
  BY <1>1, <1>3, <1>5, <1>6 DEF Apart
<1>13. \A x \in DOMAIN k, j \in 1 .. Len(g) : k[x] # g[j]
  BY <1>4, <1>11, <1>12
<1>14. p \in Nat /\ w \subseteq Nat /\ \A x \in w : x < p
  BY DEF Apart
<1>15. Apart(k, g, p, w)
  BY <1>3, <1>7, <1>8, <1>9, <1>10, <1>13, <1>14 DEF Apart
<1> QED BY <1>15 DEF n, r, g, k

(* A fresh one does. *)
LEMMA ApartFresh ==
    ASSUME NEW h, NEW f, NEW p, NEW w, Apart(h, f, p, w), NEW i, i \notin DOMAIN h
    PROVE  Apart(With(h, i, p), f, p + 1, w)
<1> DEFINE k == With(h, i, p)
<1>1. p \in Nat /\ f \in Seq(Nat) /\ w \subseteq Nat /\ p + 1 \in Nat /\ p < p + 1
      /\ \A r \in Nat : r < p => r < p + 1 /\ r # p
  BY DEF Apart
<1>2. DOMAIN k = DOMAIN h \cup {i} /\ k[i] = p /\ \A x \in DOMAIN h : k[x] = h[x]
  BY DEF With
<1> HIDE DEF k
<1>3. p \notin w /\ \A r \in w : r < p + 1
  BY <1>1 DEF Apart
<1>4. \A x \in DOMAIN h : h[x] \in Nat /\ h[x] < p + 1 /\ h[x] \notin w /\ h[x] # p
  BY <1>1 DEF Apart
<1>5. \A j \in 1 .. Len(f) : f[j] < p + 1 /\ f[j] \notin w /\ f[j] # p
  <2>1. \A j \in 1 .. Len(f) : f[j] \in Nat
    BY <1>1
  <2> QED BY <1>1, <2>1 DEF Apart
<1>6. \A x \in DOMAIN k : k[x] \in Nat /\ k[x] < p + 1 /\ k[x] \notin w
  BY <1>1, <1>2, <1>3, <1>4
<1>7. \A x, y \in DOMAIN k : x # y => k[x] # k[y]
  BY <1>2, <1>4 DEF Apart
<1>8. \A x \in DOMAIN k, j \in 1 .. Len(f) : k[x] # f[j]
  BY <1>2, <1>5 DEF Apart
<1>9. \A x, y \in 1 .. Len(f) : x # y => f[x] # f[y]
  BY DEF Apart
<1>10. Apart(k, f, p + 1, w)
  BY <1>1, <1>3, <1>5, <1>6, <1>7, <1>8, <1>9 DEF Apart
<1> QED BY <1>10 DEF k

(* An owner gives its register back. *)
LEMMA ApartGive ==
    ASSUME NEW h, NEW f, NEW p, NEW w, Apart(h, f, p, w), NEW i \in DOMAIN h
    PROVE  Apart(Without(h, i), Append(f, h[i]), p, w)
<1> DEFINE r == h[i]
           g == Append(f, r)
           k == Without(h, i)
           n == Len(f)
<1>1. p \in Nat /\ n \in Nat /\ f \in Seq(Nat) /\ w \subseteq Nat /\ r \in Nat /\ r < p /\ r \notin w
  BY DEF Apart
<1>2. g \in Seq(Nat) /\ Len(g) = n + 1 /\ g[n + 1] = r /\ \A j \in 1 .. n : g[j] = f[j]
  BY <1>1, AppendElements
<1>3. DOMAIN k = DOMAIN h \ {i} /\ \A x \in DOMAIN k : k[x] = h[x]
  BY DEF Without
<1>4. n = Len(f) /\ r = h[i]
  OBVIOUS
<1> HIDE DEF g, k, n, r
<1>5. \A x \in 1 .. Len(g) : x \in 1 .. n \/ x = n + 1
  BY <1>1, <1>2
<1>6. \A x \in DOMAIN k : k[x] \in Nat /\ k[x] < p /\ k[x] \notin w
  BY <1>3 DEF Apart
<1>7. \A x, y \in DOMAIN k : x # y => k[x] # k[y]
  BY <1>3 DEF Apart
<1>8. \A x \in 1 .. n : r # f[x]
  BY <1>4 DEF Apart
<1>9. \A x, y \in 1 .. Len(g) : x # y => g[x] # g[y]
  BY <1>2, <1>4, <1>5, <1>8 DEF Apart
<1>10. \A x \in 1 .. Len(g) : g[x] < p /\ g[x] \notin w
  BY <1>1, <1>2, <1>4, <1>5 DEF Apart
<1>11. \A x \in DOMAIN k, j \in 1 .. Len(g) : k[x] # g[j]
  <2>1. \A x \in DOMAIN k, j \in 1 .. n : k[x] # f[j]
    BY <1>3, <1>4 DEF Apart
  <2>2. \A x \in DOMAIN k : k[x] # r
    BY <1>3, <1>4 DEF Apart
  <2> QED BY <1>2, <1>5, <2>1, <2>2
<1>12. \A x \in w : x < p
  BY DEF Apart
<1>13. Apart(k, g, p, w)
  BY <1>1, <1>2, <1>6, <1>7, <1>9, <1>10, <1>11, <1>12 DEF Apart
<1> QED BY <1>13 DEF g, k, r

(* A fresh register is taken and given back at once. *)
LEMMA ApartBorrow ==
    ASSUME NEW h, NEW f, NEW p, NEW w, Apart(h, f, p, w)
    PROVE  Apart(h, Append(f, p), p + 1, w)
<1>1. PICK i : i \notin DOMAIN h
  <2>1. {x \in DOMAIN h : x \notin x} \notin DOMAIN h
    OBVIOUS
  <2> QED BY <2>1
<1>2. Apart(With(h, i, p), f, p + 1, w)
  BY <1>1, ApartFresh
<1>3. i \in DOMAIN With(h, i, p) /\ With(h, i, p)[i] = p
  BY DEF With
<1>4. Apart(Without(With(h, i, p), i), Append(f, p), p + 1, w)
  BY <1>2, <1>3, ApartGive
<1>5. Fewer(h, Without(With(h, i, p), i))
  BY <1>1 DEF With, Without, Fewer
<1>6. p + 1 \in Nat /\ p + 1 <= p + 1 /\ w \subseteq w
  BY DEF Apart
<1> QED BY <1>4, <1>5, <1>6, ApartFewer

-----------------------------------------------------------------------------
(* What a step that neither opens a window nor ends a scope does to the    *)
(* registers: as in a flat body, and the owner of a place's loaded operand *)
(* may be dropped without giving its register back.                        *)

Shed == Fewer(Held', Held) /\ SameRegs(code, code')

Exchanged == \E h, i : /\ Fewer(h, Held) /\ i \notin DOMAIN h
                       /\ CanAlloc(code) /\ SameRegs(AllocReg(code), code')
                       /\ Held' = With(h, i, NextReg(code))

Change == Shed \/ Exchanged \/ Given \/ GivenTwo \/ Borrowed

LEMMA EffectChanges == ASSUME Effect PROVE Change
<1>1. Fewer(Held, Held)
  BY DEF Fewer
<1>2. CASE Kept
  BY <1>1, <1>2 DEF Kept, Shed, Change
<1>3. CASE Obtained
  BY <1>1, <1>3 DEF Obtained, Exchanged, Change
<1> QED BY <1>2, <1>3 DEF Effect, Change

(* Who takes a register gets one nobody has. *)
LEMMA ApartTaken ==
    ASSUME NEW h, NEW w, HasRegs(code), Apart(h, code.free_regs, code.reg_pointer, w), NEW i, i \notin DOMAIN h
    PROVE  Apart(With(h, i, NextReg(code)), AllocReg(code).free_regs, AllocReg(code).reg_pointer, w)
<1> DEFINE f == code.free_regs
           p == code.reg_pointer
<1>1. CASE f # <<>>
  <2>1. Apart(With(h, i, f[Len(f)]), Take(f, Len(f) - 1), p, w)
    BY <1>1, ApartReuse
  <2>2. NextReg(code) = f[Len(f)] /\ AllocReg(code).free_regs = Take(f, Len(f) - 1) /\ AllocReg(code).reg_pointer = p
    BY <1>1 DEF NextReg, AllocReg, HasRegs
  <2> QED BY <2>1, <2>2
<1>2. CASE f = <<>>
  <2>1. Apart(With(h, i, p), f, p + 1, w)
    BY ApartFresh
  <2>2. NextReg(code) = p /\ AllocReg(code).free_regs = f /\ AllocReg(code).reg_pointer = p + 1
    BY <1>2 DEF NextReg, AllocReg, HasRegs
  <2> QED BY <2>1, <2>2
<1> QED BY <1>1, <1>2

LEMMA ApartChanged ==
    ASSUME TypeOK, Change, NEW w, Apart(Held, code.free_regs, code.reg_pointer, w)
    PROVE  Apart(Held', code'.free_regs, code'.reg_pointer, w)
<1> DEFINE h == Held
           f == code.free_regs
           p == code.reg_pointer
<1>0. /\ HasRegs(code) /\ p \in Nat /\ p <= p /\ w \subseteq w
      /\ \A r : FreeReg(code, r).free_regs = Append(f, r) /\ FreeReg(code, r).reg_pointer = p
  <2>1. HasRegs(code)
    BY CodeHasRegs DEF TypeOK
  <2>2. p \in Nat
    BY DEF Apart
  <2> QED BY <2>1, <2>2 DEF FreeReg, HasRegs
<1>1. CASE Shed
  <2>1. code'.free_regs = f /\ code'.reg_pointer = p /\ Fewer(Held', h)
    BY <1>1 DEF Shed, SameRegs
  <2>2. \A g : Fewer(g, h) => Apart(g, f, p, w)
    BY <1>0, ApartFewer
  <2> QED BY <2>1, <2>2
<1>2. CASE Exchanged
  <2>1. PICK g, i : /\ Fewer(g, h) /\ i \notin DOMAIN g /\ SameRegs(AllocReg(code), code')
                    /\ Held' = With(g, i, NextReg(code))
    BY <1>2 DEF Exchanged
  <2>2. Apart(g, f, p, w)
    BY <1>0, <2>1, ApartFewer
  <2>3. Apart(With(g, i, NextReg(code)), AllocReg(code).free_regs, AllocReg(code).reg_pointer, w)
    BY <1>0, <2>1, <2>2, ApartTaken
  <2>4. code'.free_regs = AllocReg(code).free_regs /\ code'.reg_pointer = AllocReg(code).reg_pointer
    BY <2>1 DEF SameRegs
  <2> QED BY <2>1, <2>3, <2>4
<1>3. CASE Given
  <2>1. PICK i \in DOMAIN h : Held' = Without(h, i) /\ SameRegs(FreeReg(code, h[i]), code')
    BY <1>3 DEF Given
  <2>2. code'.free_regs = Append(f, h[i]) /\ code'.reg_pointer = p
    BY <1>0, <2>1 DEF SameRegs
  <2>3. Apart(Without(h, i), Append(f, h[i]), p, w)
    BY <2>1, ApartGive
  <2> QED BY <2>1, <2>2, <2>3
<1>4. CASE GivenTwo
  <2>1. PICK i, j \in DOMAIN h :
           /\ i # j /\ Held' = Without(Without(h, i), j)
           /\ SameRegs(FreeReg(FreeReg(code, h[j]), h[i]), code')
    BY <1>4 DEF GivenTwo
  <2>2. code'.free_regs = Append(Append(f, h[j]), h[i]) /\ code'.reg_pointer = p
    BY <1>0, <2>1 DEF SameRegs, FreeReg, HasRegs
  <2>3. Apart(Without(h, j), Append(f, h[j]), p, w)
    BY <2>1, ApartGive
  <2>4. i \in DOMAIN Without(h, j) /\ Without(h, j)[i] = h[i]
    BY <2>1 DEF Without
  <2>5. Apart(Without(Without(h, j), i), Append(Append(f, h[j]), h[i]), p, w)
    BY <2>3, <2>4, ApartGive
  <2>6. Without(Without(h, j), i) = Without(Without(h, i), j)
    BY DEF Without
  <2> QED BY <2>1, <2>2, <2>5, <2>6
<1>5. CASE Borrowed
  <2>1. /\ code'.free_regs = FreeReg(AllocReg(code), NextReg(code)).free_regs
        /\ code'.reg_pointer = FreeReg(AllocReg(code), NextReg(code)).reg_pointer /\ Held' = h
    BY <1>5 DEF Borrowed, SameRegs
  <2>2. CASE f # <<>>
    <3>1. code'.free_regs = Append(Take(f, Len(f) - 1), f[Len(f)]) /\ code'.reg_pointer = p
      BY <1>0, <2>1, <2>2 DEF FreeReg, AllocReg, NextReg, HasRegs
    <3>2. code'.free_regs = f
      BY <2>2, <3>1, TakeLast DEF Apart
    <3> QED BY <2>1, <3>1, <3>2
  <2>3. CASE f = <<>>
    <3>1. code'.free_regs = Append(f, p) /\ code'.reg_pointer = p + 1
      BY <1>0, <2>1, <2>3 DEF FreeReg, AllocReg, NextReg, HasRegs
    <3> QED BY <2>1, <3>1, ApartBorrow
  <2> QED BY <2>2, <2>3
<1> QED BY <1>1, <1>2, <1>3, <1>4, <1>5 DEF Change

LEMMA Rests == ASSUME TypeOK, code' = code, locals' = locals PROVE Change
<1>1. SameRegs(code, code)
  BY CodeHasRegs DEF TypeOK, SameRegs
<1>2. Held' = Held
  BY HeldIsHeldOf
<1> QED BY <1>1, <1>2, EffectChanges DEF Effect, Kept

LEMMA PopFewer == ASSUME TypeOK PROVE Fewer(HeldOf(Pop(1)), Held) /\ Pop(1) \in Seq(Operands)
<1>1. Pop(1) \in Seq(Operands)
  BY LocalTypes DEF TypeOK
<1>2. CASE ~Local(0).own
  BY <1>1, <1>2, HeldDropped DEF Fewer
<1>3. CASE Local(0).own
  <2>1. locals # <<>>
    <3>1. Len(<<>>) = 0
      OBVIOUS
    <3> QED BY <1>3, <3>1 DEF Local, Plain
  <2>2. HeldOf(Pop(1)) = Without(Held, Len(locals))
    BY <1>3, <2>1, PopOne, HeldPop, HeldIsHeldOf DEF TypeOK
  <2> QED BY <1>1, <2>2 DEF Without, Fewer
<1> QED BY <1>2, <1>3

(* The operand on top is dropped, whoever owns it. *)
LEMMA DoSheds ==
    ASSUME TypeOK, NEW c, SameRegs(code, c), NEW tasks, Do(c, Pop(1), tasks)
    PROVE  Change
  BY PopFewer, DoRegs DEF Change, Shed

(* And a register is taken. *)
LEMMA DoExchanges ==
    ASSUME TypeOK, CanAlloc(code), NEW d, SameRegs(AllocReg(code), d),
           NEW tasks, Do(d, Append(Pop(1), Own(NextReg(code))), tasks)
    PROVE  Change
<1> DEFINE r == NextReg(code)
           g == HeldOf(Pop(1))
           i == Len(Pop(1)) + 1
<1>1. Own(r) \in Operands /\ Own(r).own /\ Own(r).mi.n = r
  <2>1. r \in Registers
    BY AllocProperties DEF TypeOK, Registers
  <2> QED BY <2>1, OperandTypes DEF Own, Reg
<1>2. HeldOf(Append(Pop(1), Own(r))) = With(g, i, r) /\ i \notin DOMAIN g
  BY <1>1, PopFewer, HeldPush
<1>3. Held' = With(g, i, r) /\ code' = d
  BY <1>2, DoRegs
<1>4. Fewer(g, Held)
  BY PopFewer
<1> HIDE DEF g, i
<1> QED BY <1>2, <1>3, <1>4 DEF Change, Exchanged

(* A register is taken before it is known what for. *)
LEMMA DoObtains ==
    ASSUME TypeOK, Allocates(Top), NEW tasks, Do(AllocReg(code), Append(locals, Own(NextReg(code))), tasks)
    PROVE  Change
<1>1. CanAlloc(code)
  BY DEF Do, Panics
<1>2. SameRegs(AllocReg(code), AllocReg(code))
  <2>1. HasRegs(AllocReg(code))
    BY <1>1, AllocProperties, CodeHasRegs DEF TypeOK
  <2> QED BY <2>1 DEF SameRegs
<1> QED BY <1>1, <1>2, HeldIsHeldOf, DoTakes, EffectChanges DEF TypeOK

LEMMA ChangeOfQuiet ==
    ASSUME TypeOK,
           \/ If \/ While \/ For \/ ForTop \/ DoWhile \/ ExprStmt
           \/ UnaryInto \/ BinaryInto \/ TernaryInto \/ AssignInto \/ IncrInto \/ StoreRecord
    PROVE  Change
<1>1. code' = code /\ locals' = locals
  BY DEF If, While, For, ForTop, Loop, DoWhile, ExprStmt, UnaryInto, BinaryInto, TernaryInto, AssignInto,
         IncrInto, StoreRecord, Do
<1> QED BY <1>1, Rests

LEMMA ChangeOfEmits ==
    ASSUME TypeOK, IfBranch \/ LoopBranch \/ DoBranch \/ UnaryEmit \/ RecordEmit \/ FreeTop \/ BinaryEmit
    PROVE  Change
<1>0. HasRegs(code) /\ SameRegs(code, code)
  BY CodeHasRegs DEF TypeOK, SameRegs
<1>1. \A i : SameRegs(code, Emit(code, i)) /\ HasRegs(Emit(code, i))
  BY <1>0, KeepRegs DEF SameRegs
<1>2. CASE IfBranch \/ LoopBranch \/ DoBranch \/ UnaryEmit \/ RecordEmit
  <2>1. PICK i, tasks : Do(FreeLocal(Emit(code, i), Local(0)), Pop(1), tasks)
    BY <1>2 DEF IfBranch, LoopBranch, DoBranch, UnaryEmit, RecordEmit
  <2> QED BY <1>1, <2>1, DoFrees, EffectChanges
<1>3. CASE FreeTop
  BY <1>0, <1>3, DoFrees, EffectChanges DEF FreeTop
<1>4. CASE BinaryEmit
  <2>1. PICK i : Do(FreeLocal(FreeLocal(Emit(code, i), Local(1)), Local(0)), Pop(2), <<>>)
    BY <1>4 DEF BinaryEmit
  <2> QED BY <1>1, <2>1, DoFreesTwo, EffectChanges
<1> QED BY <1>2, <1>3, <1>4

LEMMA ChangeOfPatches == ASSUME TypeOK, ThenEnd \/ LoopEnd PROVE Change
<1>0. HasRegs(code) /\ SameRegs(code, code)
  BY CodeHasRegs DEF TypeOK, SameRegs
<1>1. ASSUME NEW c, NEW tasks, SameRegs(code, c), Do(c, locals, tasks) PROVE Change
  BY <1>1, DoKeeps, EffectChanges
<1>2. CASE ThenEnd
  <2> DEFINE a == SetLabel(code, Top.branch, FollowingInstr(code, 0))
             b == PushStartLabel(a, Top.branch)
  <2>1. \E tasks : Do(a, locals, tasks) \/ Do(Emit(b, Jump(0)), locals, tasks)
    BY <1>2 DEF ThenEnd
  <2>2. SameRegs(code, a) /\ HasRegs(a)
    BY <1>0, KeepRegs DEF SameRegs
  <2> HIDE DEF a
  <2>3. SameRegs(a, b) /\ HasRegs(b)
    BY <2>2 DEF PushStartLabel, SameRegs, HasRegs
  <2> HIDE DEF b
  <2>4. SameRegs(b, Emit(b, Jump(0)))
    BY <2>3, KeepRegs
  <2>5. SameRegs(code, Emit(b, Jump(0)))
    BY <2>2, <2>3, <2>4, SameRegsTrans
  <2> QED BY <1>1, <2>1, <2>2, <2>5
<1>3. CASE LoopEnd
  <2> DEFINE c == Emit(code, Jump(Top.top))
             d == IF Top.branch = <<>> THEN c ELSE SetLabel(c, Top.branch[1], FollowingInstr(c, 0))
  <2>1. Do(d, locals, <<>>)
    BY <1>3 DEF LoopEnd
  <2>2. SameRegs(code, c) /\ HasRegs(c)
    BY <1>0, KeepRegs DEF SameRegs
  <2>3. SameRegs(c, SetLabel(c, Top.branch[1], FollowingInstr(c, 0)))
    BY <2>2, KeepRegs
  <2>4. SameRegs(code, d)
    BY <2>2, <2>3, SameRegsTrans
  <2> HIDE DEF d
  <2> QED BY <1>1, <2>1, <2>4
<1> QED BY <1>2, <1>3

LEMMA ChangeOfAtoms == ASSUME TypeOK, LowerAtom \/ LowerNode \/ AtomInto PROVE Change
<1>0. HasRegs(code) /\ SameRegs(code, code)
  BY CodeHasRegs DEF TypeOK, SameRegs
<1>1. CASE LowerAtom
  <2> DEFINE r == NextReg(code)
             d == AllocReg(code)
  <2>1. At("Expr") /\ Top.e.k = "atom"
    BY <1>1 DEF LowerAtom
  <2>2. Top.k = "Expr" /\ Top.e \in Exprs
    BY <2>1, AtTypes, TaskFields
  <2>3. PICK slot \in Slots(Top.e.a) :
           LET x == AtomMi(d, Top.e.a, r, slot)
           IN  IF x.mi.k = "Reg" THEN Do(x.code, Push(Own(r)), <<>>)
                                 ELSE Do(FreeReg(x.code, r), Push(Plain(x.mi)), <<>>)
    BY <1>1 DEF LowerAtom
  <2> DEFINE x == AtomMi(d, Top.e.a, r, slot)
  <2>4. ~Panics(Top)
    BY <2>3 DEF Do
  <2>5. CanAlloc(code) /\ Top.e.a \in Atoms /\ Top.e.a.k # "todo"
    BY <2>1, <2>2, <2>4, ExprFields DEF Panics, Allocates
  <2>6. d \in CodeType /\ r \in Registers /\ HasRegs(d)
    BY <2>5, AllocProperties, CodeHasRegs DEF TypeOK, Registers
  <2>7. SameRegs(d, x.code)
    BY <2>5, <2>6, AtomRegs
  <2>8. x.mi \in MaybeImm
    <3>1. Top.e.a.k \in {"cnt", "regex"} => slot \in ConstSlots(d, Top.e.a.v)
      <4>1. d.consts = code.consts
        BY DEF AllocReg, CodeType, TypeOK
      <4> QED BY <2>3, <4>1 DEF Slots, ConstSlots
    <3> QED BY <2>5, <2>6, <3>1, AtomMiTypes
  <2>9. CASE x.mi.k = "Reg"
    <3>1. Do(x.code, Append(locals, Own(r)), <<>>)
      BY <2>3, <2>9 DEF Push
    <3> HIDE DEF x
    <3> QED BY <2>5, <2>7, <3>1, HeldIsHeldOf, DoTakes, EffectChanges DEF TypeOK
  <2>10. CASE x.mi.k # "Reg"
    <3>1. Do(FreeReg(x.code, r), Push(Plain(x.mi)), <<>>)
      BY <2>3, <2>10
    <3>2. Plain(x.mi) \in Operands /\ ~Plain(x.mi).own
      BY <2>8, OperandTypes DEF Plain
    <3>3. Held' = Held /\ code' = FreeReg(x.code, r)
      BY <3>1, <3>2, HeldPush, HeldIsHeldOf, DoRegs DEF Push, TypeOK
    <3> HIDE DEF x, d, r
    <3>4. SameRegs(FreeReg(d, r), FreeReg(x.code, r))
      BY <2>6, <2>7 DEF SameRegs, HasRegs, FreeReg
    <3> QED BY <2>5, <3>3, <3>4 DEF Change, Borrowed, d, r
  <2> QED BY <2>9, <2>10
<1>2. CASE LowerNode
  <2>1. At("Expr") /\ \E tasks : Do(AllocReg(code), Append(locals, Own(NextReg(code))), tasks)
    BY <1>2 DEF LowerNode, Push
  <2>2. Allocates(Top)
    BY <2>1, AtTypes DEF Allocates
  <2> QED BY <2>1, <2>2, DoObtains
<1>3. CASE AtomInto
  <2>1. At("Into") /\ Top.e.k = "atom"
    BY <1>3 DEF AtomInto, AtInto
  <2>2. Top.k = "Into" /\ Top.e \in Exprs
    BY <2>1, AtTypes, TaskFields
  <2>3. PICK slot \in Slots(Top.e.a) :
           LET x == AtomMi(code, Top.e.a, Top.dest, slot)
           IN  Do(IF x.mi = Reg(Top.dest) THEN x.code ELSE Emit(x.code, Unary("Copy", Top.dest, x.mi)),
                  locals, <<>>)
    BY <1>3 DEF AtomInto
  <2> DEFINE x == AtomMi(code, Top.e.a, Top.dest, slot)
             i == Unary("Copy", Top.dest, x.mi)
             c == IF x.mi = Reg(Top.dest) THEN x.code ELSE Emit(x.code, i)
  <2>4. Top.e.a \in Atoms /\ Top.e.a.k # "todo"
    BY <2>1, <2>2, <2>3, ExprFields DEF Do, Panics
  <2>5. SameRegs(code, x.code) /\ HasRegs(x.code)
    BY <1>0, <2>4, AtomRegs DEF SameRegs
  <2>6. SameRegs(x.code, Emit(x.code, i))
    BY <2>5, KeepRegs
  <2>7. Do(c, locals, <<>>)
    BY <2>3
  <2> HIDE DEF x, i
  <2>8. SameRegs(code, c)
    BY <2>5, <2>6, SameRegsTrans
  <2> HIDE DEF c
  <2> QED BY <2>7, <2>8, DoKeeps, EffectChanges
<1> QED BY <1>1, <1>2, <1>3

LEMMA ChangeOfAssigns == ASSUME TypeOK, AssignVal \/ AssignEmit \/ Incr \/ Redirection PROVE Change
<1>0. HasRegs(code) /\ SameRegs(code, code)
  BY CodeHasRegs DEF TypeOK, SameRegs
<1>1. CASE AssignVal
  <2>1. At("AssignVal") /\ Top.k = "AssignVal"
    BY <1>1, AtTypes DEF AssignVal
  <2>2. CASE Top.op = "Set"
    <3>1. code' = code /\ locals' = locals
      BY <1>1, <2>2 DEF AssignVal, Do
    <3> QED BY <3>1, Rests
  <2>3. CASE Top.op # "Set"
    <3>1. \E tasks : Do(AllocReg(code), Append(locals, Own(NextReg(code))), tasks)
      BY <1>1, <2>3 DEF AssignVal, Push
    <3>2. Allocates(Top)
      BY <2>1, <2>3 DEF Allocates
    <3> QED BY <3>1, <3>2, DoObtains
  <2> QED BY <2>2, <2>3
<1>2. CASE AssignEmit
  <2>1. PICK i, tasks : Do(Emit(code, i), Pop(1), tasks)
    BY <1>2 DEF AssignEmit
  <2>2. SameRegs(code, Emit(code, i))
    BY <1>0, KeepRegs
  <2> QED BY <2>1, <2>2, DoSheds
<1>3. CASE Incr
  <2> DEFINE val == Local(0).mi
  <2>1. At("Incr") /\ Top.k = "Incr"
    BY <1>3, AtTypes DEF Incr
  <2>2. CASE ~Top.post
    <3>1. PICK i, tasks : Do(Emit(code, i), Pop(1), tasks)
      BY <1>3, <2>2 DEF Incr
    <3>2. SameRegs(code, Emit(code, i))
      BY <1>0, KeepRegs
    <3> QED BY <3>1, <3>2, DoSheds
  <2>3. CASE Top.post
    <3> DEFINE c   == Emit(code, Binary("Add", Top.dest, val, Imm(0)))
               tmp == NextReg(c)
               d   == Emit(AllocReg(c), Binary(Top.op, tmp, val, Imm(1)))
    <3>1. PICK tasks : Do(d, Append(Pop(1), Own(tmp)), tasks)
      BY <1>3, <2>3 DEF Incr
    <3>2. CanAlloc(code)
      BY <2>1, <2>3, <3>1 DEF Do, Panics, Allocates
    <3>3. SameRegs(code, c) /\ HasRegs(c)
      BY <1>0, KeepRegs DEF SameRegs
    <3>4. tmp = NextReg(code) /\ SameRegs(AllocReg(code), AllocReg(c)) /\ HasRegs(AllocReg(c))
      <4> HIDE DEF c
      <4> QED BY <1>0, <3>3 DEF NextReg, AllocReg, SameRegs, HasRegs
    <3>5. SameRegs(AllocReg(c), d)
      BY <3>4, KeepRegs
    <3>6. SameRegs(AllocReg(code), d)
      <4> HIDE DEF c, d
      <4> QED BY <3>4, <3>5, SameRegsTrans
    <3> HIDE DEF c, d, tmp
    <3> QED BY <3>1, <3>2, <3>4, <3>6, DoExchanges
  <2> QED BY <2>2, <2>3
<1>4. CASE Redirection
  <2>1. At("Redirection") /\ \E tasks : Do(AllocReg(code), Append(locals, Own(NextReg(code))), tasks)
    BY <1>4 DEF Redirection, Push
  <2>2. Allocates(Top)
    BY <2>1, AtTypes DEF Allocates
  <2> QED BY <2>1, <2>2, DoObtains
<1> QED BY <1>1, <1>2, <1>3, <1>4

LEMMA ChangeOfScalars == ASSUME TypeOK, LoadScalar \/ StoreScalar PROVE Change
<1>0. HasRegs(code) /\ SameRegs(code, code)
  BY CodeHasRegs DEF TypeOK, SameRegs
<1>1. CASE LoadScalar
  <2> DEFINE x == ScalarMi(code, Top.p, Top.dest)
  <2>1. At("LoadPlace") /\ Top.p.k \in {"user", "builtin"} /\ Do(x.code, Push(Plain(x.mi)), <<>>)
    BY <1>1 DEF LoadScalar, AtPlace, Scalars
  <2>2. Top.p \in Places /\ Top.dest \in Registers
    BY <2>1, AtTypes, TaskFields
  <2>3. (Top.p.k = "user" => Top.p.id \in Idents) /\ (Top.p.k # "user" => Top.p.n \in Nat)
    BY <2>1, <2>2, PlaceFields
  <2>4. x.mi \in MaybeImm
    BY <2>2, <2>3, ScalarMiTypes DEF TypeOK
  <2>5. SameRegs(code, x.code)
    BY <1>0, ScalarRegs
  <2> HIDE DEF x
  <2> QED BY <2>1, <2>4, <2>5, DoKeeps, EffectChanges
<1>2. CASE StoreScalar
  <2> DEFINE c == RegisterUserVar(code, Top.p.id)
             d == Emit(c, Store("StoreUserScalar", Top.dest, Top.src, UserIndex(c, Top.p.id)))
             e == Emit(code, Store("StoreBuiltinScalar", Top.dest, Top.src, Top.p.n))
  <2>1. Do(d, locals, <<>>) \/ Do(e, locals, <<>>)
    BY <1>2 DEF StoreScalar
  <2>2. SameRegs(code, c) /\ HasRegs(c)
    BY <1>0, KeepRegs DEF SameRegs
  <2>3. SameRegs(c, d) /\ SameRegs(code, e)
    BY <1>0, <2>2, KeepRegs
  <2> HIDE DEF c, d, e
  <2>4. SameRegs(code, d)
    BY <2>2, <2>3, SameRegsTrans
  <2> QED BY <2>1, <2>3, <2>4, DoKeeps, EffectChanges
<1> QED BY <1>1, <1>2

-----------------------------------------------------------------------------
(* The scopes that are open.  The tasks in a scope leave the operands      *)
(* below it alone, and these are below the pointer the scope returns to;   *)
(* so are the windows that are open around it.                             *)

WindowOf(t) == t.instr.lo .. t.instr.hi - 1
Windows == UNION {WindowOf(control[j]) : j \in {i \in 1 .. Len(control) : control[i].k = "CallEnd"}}

Guarded(j) == \E H \in Nat :
    /\ Climbs(control, j - 1, H, Len(locals), H)
    /\ \A i \in 1 .. Len(locals) : i <= H /\ Owned(i) => locals[i].mi.n < control[j].st.reg_pointer

Enclosed(i, j) ==
    i < j /\ control[i].k \in Closers /\ control[j].k = "CallEnd" =>
        \A r \in WindowOf(control[j]) : r < control[i].st.reg_pointer

ScopesGuarded == \A j \in 1 .. Len(control) : control[j].k \in Closers => Guarded(j)
ScopesNested  == \A i, j \in 1 .. Len(control) : Enclosed(i, j)

(* The windows of the tasks behind the top one. *)
Waiting == UNION {WindowOf(control[n + 1]) : n \in {m \in 1 .. Len(control) - 1 : control[m + 1].k = "CallEnd"}}

Replaced(tasks) ==
    /\ Stream(tasks) /\ control' = tasks \o Tail(control)
    /\ Climbs(tasks, Len(tasks), Base, Len(locals'), Base + Gives(Top))
    /\ Beneath

LEMMA NextIndex ==
    ASSUME NEW l \in Nat \ {0}, NEW n \in 1 .. l - 1
    PROVE  n \in Nat \ {0} /\ n \in 1 .. l /\ n + 1 \in 1 .. l /\ (n + 1) - 1 = n /\ 1 < n + 1
  OBVIOUS

(* Where the tasks are after a step. *)
LEMMA Behind ==
    ASSUME Ready, NEW tasks, Stream(tasks), control' = tasks \o Tail(control)
    PROVE  /\ Len(tasks) \in Nat /\ Len(control) \in Nat \ {0}
           /\ Len(control') = Len(tasks) + (Len(control) - 1)
           /\ \A m \in 1 .. Len(tasks) : m \in 1 .. Len(control') /\ control'[m] = tasks[m]
           /\ \A n \in 1 .. Len(control) - 1 :
                 Len(tasks) + n \in 1 .. Len(control') /\ control'[Len(tasks) + n] = control[n + 1]
           /\ \A m \in 1 .. Len(control') :
                 m \in 1 .. Len(tasks) \/ \E n \in 1 .. Len(control) - 1 : m = Len(tasks) + n
<1> DEFINE tl == Tail(control)
<1>1. /\ Stream(tl) /\ Len(control) \in Nat \ {0} /\ Len(tl) = Len(control) - 1
      /\ \A n \in 1 .. Len(control) - 1 : tl[n] = control[n + 1]
  BY StreamTail DEF Ready, TypeOK, Stream
<1> HIDE DEF tl
<1>2. control' = tasks \o tl
  BY DEF tl
<1>3. /\ Len(tasks) \in Nat /\ Len(control') = Len(tasks) + Len(tl)
      /\ \A i \in 1 .. Len(tasks) : control'[i] = tasks[i]
      /\ \A i \in 1 .. Len(tl) : control'[Len(tasks) + i] = tl[i]
  BY <1>1, <1>2, StreamConcat
<1>4. \A m \in 1 .. Len(tasks) : m \in 1 .. Len(control')
  BY <1>1, <1>3
<1>5. \A n \in 1 .. Len(control) - 1 : Len(tasks) + n \in 1 .. Len(control')
  BY <1>1, <1>3
<1>6. ASSUME NEW m \in 1 .. Len(control'), m \notin 1 .. Len(tasks)
      PROVE  \E n \in 1 .. Len(control) - 1 : m = Len(tasks) + n
  <2>1. m - Len(tasks) \in 1 .. Len(control) - 1 /\ m = Len(tasks) + (m - Len(tasks))
    BY <1>1, <1>3, <1>6
  <2> QED BY <2>1
<1> QED BY <1>1, <1>3, <1>4, <1>5, <1>6

(* An open scope stays guarded. *)
LEMMA StaysGuarded ==
    ASSUME Ready, NEW tasks, Replaced(tasks), NEW n \in 1 .. Len(control) - 1, Guarded(n + 1)
    PROVE  Guarded(Len(tasks) + n)'
<1>0. /\ Len(tasks) \in Nat /\ Len(control) \in Nat \ {0} /\ n \in Nat \ {0} /\ n + 1 - 1 = n
      /\ n \in 1 .. Len(control) /\ Stream(tasks) /\ control' = tasks \o Tail(control)
      /\ Len(locals) \in Nat /\ Base \in Nat /\ Len(locals') \in Nat
      /\ control'[Len(tasks) + n] = control[n + 1]
  <2>1. Stream(tasks) /\ control' = tasks \o Tail(control)
    BY DEF Replaced
  <2>2. Len(tasks) \in Nat /\ Len(control) \in Nat \ {0} /\ control'[Len(tasks) + n] = control[n + 1]
    BY <2>1, Behind
  <2>3. PICK h : Climb(tasks, Len(tasks), h, Base, Len(locals'), Base + Gives(Top))
    BY DEF Replaced, Climbs
  <2>4. Len(locals') \in Nat
    BY <2>2, <2>3 DEF Climb
  <2>5. Base \in Nat /\ Len(locals) \in Nat
    BY Heights
  <2>6. n \in Nat \ {0} /\ n + 1 - 1 = n /\ n \in 1 .. Len(control)
    BY <2>2, NextIndex
  <2> QED BY <2>1, <2>2, <2>4, <2>5, <2>6
<1>1. PICK H \in Nat :
        /\ Climbs(control, n + 1 - 1, H, Len(locals), H)
        /\ \A i \in 1 .. Len(locals) : i <= H /\ Owned(i) => locals[i].mi.n < control[n + 1].st.reg_pointer
  BY DEF Guarded
<1>open. Climbs(control, n, H, Len(locals), H)
  BY <1>0, <1>1
<1>2. Climbs(control', Len(tasks) + (n - 1), H, Len(locals'), H)
  BY <1>0, <1>open, ClimbsOver DEF Replaced
<1>3. H <= Base
  <2>1. Len(locals) - Takes(control[1]) >= H
    <3>1. n <= Len(control) /\ control # <<>> /\ Stream(control)
      BY <1>0 DEF Ready, TypeOK, Stream
    <3> QED BY <1>0, <1>open, <3>1, ClimbsTail
  <2> QED BY <1>0, <2>1 DEF Base, Top
<1>4. ASSUME NEW i \in 1 .. Len(locals'), i <= H, Owned(i)'
      PROVE  locals'[i].mi.n < control[n + 1].st.reg_pointer
  <2>1. i \in 1 .. Base /\ i \in 1 .. Len(locals)
    <3>1. Base <= Len(locals)
      <4>1. Takes(Top) \in 0 .. 3
        BY Amounts
      <4> QED BY <1>0, <4>1 DEF Base
    <3> QED BY <1>0, <1>3, <1>4, <3>1
  <2>2. locals'[i] = locals[i]
    BY <2>1 DEF Replaced, Beneath
  <2>3. Owned(i)
    BY <1>4, <2>2 DEF Owned
  <2> QED BY <1>1, <1>4, <2>1, <2>2, <2>3
<1>5. Len(tasks) + n - 1 = Len(tasks) + (n - 1)
  BY <1>0
<1>6. Climbs(control', Len(tasks) + n - 1, H, Len(locals'), H)
  BY <1>2, <1>5
<1> QED BY <1>0, <1>4, <1>6 DEF Guarded

(* Windows stay in the scopes inside them. *)
LEMMA StaysNested ==
    ASSUME Ready, ScopesNested, NEW tasks, Stream(tasks), control' = tasks \o Tail(control),
           NEW m \in 1 .. Len(control) - 1, NEW n \in 1 .. Len(control) - 1
    PROVE  Enclosed(Len(tasks) + m, Len(tasks) + n)'
<1>1. /\ Len(tasks) \in Nat /\ Len(control) \in Nat \ {0}
      /\ control'[Len(tasks) + m] = control[m + 1] /\ control'[Len(tasks) + n] = control[n + 1]
  BY Behind
<1>2. m + 1 \in 1 .. Len(control) /\ n + 1 \in 1 .. Len(control)
  BY <1>1, NextIndex
<1>3. Enclosed(m + 1, n + 1)
  BY <1>2 DEF ScopesNested
<1>4. Len(tasks) + m < Len(tasks) + n => m + 1 < n + 1
  BY <1>1
<1> QED BY <1>1, <1>3, <1>4 DEF Enclosed, WindowOf

LEMMA WaitingOpen == ASSUME Ready PROVE Waiting \subseteq Windows
<1>1. Len(control) \in Nat \ {0}
  BY StreamTail DEF Ready, TypeOK, Stream
<1>2. \A n \in 1 .. Len(control) - 1 : n + 1 \in 1 .. Len(control)
  BY <1>1
<1> QED BY <1>2 DEF Waiting, Windows

(* The windows around the scope that ends are below its pointer. *)
LEMMA WaitingBelow ==
    ASSUME Ready, ScopesNested, Top.k \in Closers
    PROVE  \A r \in Waiting : r < Top.st.reg_pointer
<1>1. Len(control) \in Nat \ {0} /\ 1 \in 1 .. Len(control)
  BY StreamTail DEF Ready, TypeOK, Stream
<1>2. SUFFICES ASSUME NEW n \in 1 .. Len(control) - 1, control[n + 1].k = "CallEnd",
                      NEW r \in WindowOf(control[n + 1])
               PROVE  r < control[1].st.reg_pointer
  BY DEF Waiting, Top
<1>3. n + 1 \in 1 .. Len(control) /\ 1 < n + 1
  BY <1>1
<1> QED BY <1>1, <1>2, <1>3 DEF ScopesNested, Enclosed, Top

-----------------------------------------------------------------------------
(* The scopes after a step. *)

LEMMA BalancedScopes ==
    ASSUME Ready, Balanced, ScopesGuarded, ScopesNested
    PROVE  ScopesGuarded' /\ ScopesNested' /\ Windows' \subseteq Waiting
<1>1. PICK tasks : Replaced(tasks) /\ OpensNone(tasks)
  BY DEF Balanced, Replaced
<1>2. /\ Stream(tasks) /\ control' = tasks \o Tail(control)
  BY <1>1 DEF Replaced
<1>3. /\ Len(tasks) \in Nat /\ Len(control) \in Nat \ {0}
      /\ \A m \in 1 .. Len(tasks) : control'[m] = tasks[m]
      /\ \A n \in 1 .. Len(control) - 1 : control'[Len(tasks) + n] = control[n + 1]
      /\ \A m \in 1 .. Len(control') :
            m \in 1 .. Len(tasks) \/ \E n \in 1 .. Len(control) - 1 : m = Len(tasks) + n
  BY <1>2, Behind
<1>4. ASSUME NEW m \in 1 .. Len(control'), control'[m].k \in Closers
      PROVE  \E n \in 1 .. Len(control) - 1 : m = Len(tasks) + n /\ control[n + 1] = control'[m]
  BY <1>1, <1>3, <1>4 DEF OpensNone
<1>5. ASSUME NEW m \in 1 .. Len(control'), control'[m].k \in Closers PROVE Guarded(m)'
  <2>1. PICK n \in 1 .. Len(control) - 1 : m = Len(tasks) + n /\ control[n + 1] = control'[m]
    BY <1>4, <1>5
  <2>2. Guarded(n + 1)
    BY <1>3, <1>5, <2>1, NextIndex DEF ScopesGuarded
  <2> QED BY <1>1, <2>1, <2>2, StaysGuarded
<1>6. ASSUME NEW i \in 1 .. Len(control'), NEW j \in 1 .. Len(control') PROVE Enclosed(i, j)'
  <2> SUFFICES ASSUME control'[i].k \in Closers, control'[j].k = "CallEnd" PROVE Enclosed(i, j)'
    BY DEF Enclosed
  <2>1. PICK m \in 1 .. Len(control) - 1 : i = Len(tasks) + m
    BY <1>4
  <2>2. PICK n \in 1 .. Len(control) - 1 : j = Len(tasks) + n
    <3>1. control'[j].k \in Closers
      BY DEF Closers
    <3> QED BY <1>4, <3>1
  <2> QED BY <1>2, <2>1, <2>2, StaysNested
<1>7. ASSUME NEW r \in Windows' PROVE r \in Waiting
  <2>1. PICK m \in 1 .. Len(control') : control'[m].k = "CallEnd" /\ r \in WindowOf(control'[m])
    BY <1>7 DEF Windows, WindowOf
  <2>2. control'[m].k \in Closers
    BY <2>1 DEF Closers
  <2>3. PICK n \in 1 .. Len(control) - 1 : control[n + 1] = control'[m]
    BY <1>4, <2>2
  <2> QED BY <2>1, <2>3 DEF Waiting
<1> QED BY <1>5, <1>6, <1>7 DEF ScopesGuarded, ScopesNested

(* A scope that opens is guarded by the pointer it saves. *)
LEMMA OpenedScopes ==
    ASSUME Ready, Opened, ScopesGuarded, ScopesNested,
           Apart(Held, code.free_regs, code.reg_pointer, Windows)
    PROVE  /\ ScopesGuarded' /\ ScopesNested'
           /\ \A r \in Windows' : r \in Waiting \/ r \in code.reg_pointer .. code'.reg_pointer - 1
<1> DEFINE p == code.reg_pointer
<1>1. PICK inner, t :
        /\ Level(inner) /\ control' = inner \o <<t>> \o Tail(control)
        /\ t.k \in Closers /\ Gives(t) = Gives(Top) /\ Len(locals') = Base /\ Beneath
        /\ t.st.reg_pointer = p
        /\ t.k = "CallEnd" => t.instr.lo = p /\ t.instr.hi = code'.reg_pointer
  BY DEF Opened
<1> DEFINE tasks == inner \o <<t>>
<1>2. /\ Stream(inner) /\ Len(inner) \in Nat /\ Stream(tasks) /\ Len(tasks) = Len(inner) + 1
      /\ \A i \in 1 .. Len(inner) : tasks[i] = inner[i]
      /\ tasks[Len(tasks)] = t
      /\ Climbs(tasks, Len(tasks), Base, Base, Base + Gives(t))
  <2>1. Base \in Nat /\ Stream(inner)
    BY <1>1, Heights DEF Level
  <2>2. Stream(<<t>>) /\ Len(<<t>>) = 1 /\ <<t>>[1] = t
    BY OneStream
  <2>3. Climbs(tasks, Len(inner) + 1, Base, Base, Base + Gives(t)) /\ Stream(tasks) /\ Len(tasks) = Len(inner) + 1
    BY <1>1, <2>1, ClimbsClosed
  <2>4. 1 \in 1 .. Len(<<t>>)
    BY <2>2
  <2>5. /\ \A i \in 1 .. Len(inner) : tasks[i] = inner[i]
        /\ tasks[Len(inner) + 1] = <<t>>[1] /\ Len(inner) \in Nat
    BY <2>1, <2>2, <2>4, StreamConcat
  <2> QED BY <2>1, <2>2, <2>3, <2>5
<1>3. control' = tasks \o Tail(control) /\ Replaced(tasks)
  BY <1>1, <1>2 DEF Replaced
<1>4. OpensNone(inner) /\ \A a \in Nat : Climbs(inner, Len(inner), a, a, a)
  BY <1>1 DEF Level
<1> HIDE DEF tasks
<1>5. /\ Len(tasks) \in Nat /\ Len(control) \in Nat \ {0}
      /\ \A m \in 1 .. Len(tasks) : m \in 1 .. Len(control') /\ control'[m] = tasks[m]
      /\ \A n \in 1 .. Len(control) - 1 : control'[Len(tasks) + n] = control[n + 1]
      /\ \A m \in 1 .. Len(control') :
            m \in 1 .. Len(tasks) \/ \E n \in 1 .. Len(control) - 1 : m = Len(tasks) + n
  BY <1>2, <1>3, Behind
<1>6. Len(tasks) \in 1 .. Len(tasks) /\ \A m \in 1 .. Len(tasks) : m # Len(tasks) => m \in 1 .. Len(inner)
  BY <1>2
<1>7. control'[Len(tasks)] = t
  BY <1>2, <1>5, <1>6
<1>8. ASSUME NEW m \in 1 .. Len(control'), control'[m].k \in Closers, m # Len(tasks)
      PROVE  \E n \in 1 .. Len(control) - 1 : m = Len(tasks) + n /\ control[n + 1] = control'[m]
  BY <1>2, <1>4, <1>5, <1>6, <1>8 DEF OpensNone
<1>9. Guarded(Len(tasks))'
  <2>1. Climbs(control', Len(inner), Base, Len(locals'), Base) /\ Base \in Nat /\ Len(locals) \in Nat
    <3>1. Climbs(inner, Len(inner), Base, Base, Base) /\ Base \in Nat /\ Len(locals) \in Nat
      BY <1>4, Heights
    <3>2. \A i \in 1 .. Len(inner) : control'[i] = inner[i]
      BY <1>2, <1>5
    <3> QED BY <1>1, <3>1, <3>2 DEF Climbs, Climb
  <2>2. ASSUME NEW i \in 1 .. Len(locals'), Owned(i)' PROVE locals'[i].mi.n < p
    <3>1. i \in 1 .. Base /\ i \in 1 .. Len(locals)
      <4>1. Takes(Top) \in 0 .. 3
        BY Amounts
      <4> QED BY <1>1, <2>1, <4>1 DEF Base
    <3>2. locals'[i] = locals[i]
      BY <1>1, <3>1 DEF Beneath
    <3>3. i \in DOMAIN Held /\ Held[i] = locals[i].mi.n
      BY <2>2, <3>1, <3>2 DEF Held, Owned
    <3> QED BY <3>2, <3>3 DEF Apart
  <2>3. Len(tasks) - 1 = Len(inner)
    BY <1>2
  <2>4. Climbs(control', Len(tasks) - 1, Base, Len(locals'), Base)
    BY <2>1, <2>3
  <2> QED BY <1>1, <1>7, <2>1, <2>2, <2>4 DEF Guarded
<1>10. ASSUME NEW m \in 1 .. Len(control'), control'[m].k \in Closers PROVE Guarded(m)'
  <2>1. CASE m = Len(tasks)
    BY <1>9, <2>1
  <2>2. CASE m # Len(tasks)
    <3>1. PICK n \in 1 .. Len(control) - 1 : m = Len(tasks) + n /\ control[n + 1] = control'[m]
      BY <1>8, <1>10, <2>2
    <3>2. Guarded(n + 1)
      BY <1>5, <1>10, <3>1, NextIndex DEF ScopesGuarded
    <3> QED BY <1>3, <3>1, <3>2, StaysGuarded
  <2> QED BY <2>1, <2>2
<1>11. \A r \in Waiting : r < p
  BY WaitingOpen DEF Apart
<1>12. ASSUME NEW i \in 1 .. Len(control'), NEW j \in 1 .. Len(control') PROVE Enclosed(i, j)'
  <2> SUFFICES ASSUME i < j, control'[i].k \in Closers, control'[j].k = "CallEnd" PROVE Enclosed(i, j)'
    BY DEF Enclosed
  <2>1. control'[j].k \in Closers
    BY DEF Closers
  <2>2. j # Len(tasks)
    <3>1. i # Len(tasks) => \E n \in 1 .. Len(control) - 1 : i = Len(tasks) + n
      BY <1>8
    <3> QED BY <1>5, <3>1
  <2>3. PICK n \in 1 .. Len(control) - 1 : j = Len(tasks) + n /\ control[n + 1] = control'[j]
    BY <1>8, <2>1, <2>2
  <2>4. CASE i = Len(tasks)
    <3>1. \A r \in WindowOf(control'[j]) : r \in Waiting
      BY <2>3 DEF Waiting
    <3> QED BY <1>1, <1>7, <1>11, <2>4, <3>1 DEF Enclosed, WindowOf
  <2>5. CASE i # Len(tasks)
    <3>1. PICK m \in 1 .. Len(control) - 1 : i = Len(tasks) + m
      BY <1>8, <2>5
    <3> QED BY <1>2, <1>3, <2>3, <3>1, StaysNested
  <2> QED BY <2>4, <2>5
<1>13. ASSUME NEW r \in Windows' PROVE r \in Waiting \/ r \in p .. code'.reg_pointer - 1
  <2>1. PICK m \in 1 .. Len(control') : control'[m].k = "CallEnd" /\ r \in WindowOf(control'[m])
    BY <1>13 DEF Windows, WindowOf
  <2>2. CASE m = Len(tasks)
    BY <1>1, <1>7, <2>1, <2>2 DEF WindowOf
  <2>3. CASE m # Len(tasks)
    <3>1. control'[m].k \in Closers
      BY <2>1 DEF Closers
    <3>2. PICK n \in 1 .. Len(control) - 1 : control[n + 1] = control'[m]
      BY <1>8, <2>3, <3>1
    <3> QED BY <2>1, <3>2 DEF Waiting
  <2> QED BY <2>2, <2>3
<1> QED BY <1>10, <1>12, <1>13 DEF ScopesGuarded, ScopesNested

-----------------------------------------------------------------------------
(* What the other steps do to the registers. *)

(* A scope ends and puts the registers back. *)
Returns ==
    /\ Top.k \in Closers /\ Top.st \in RegsState /\ Held' = Held
    /\ code'.free_regs = Take(code.free_regs, Top.st.n_free_regs)
    /\ code'.reg_pointer = Top.st.reg_pointer

(* A scope ends at the high-water mark. *)
Raises ==
    /\ Held' = Held /\ code'.reg_pointer \in Nat /\ code.reg_pointer <= code'.reg_pointer
    /\ \E n \in Nat : code'.free_regs = Take(code.free_regs, n)

(* A window is opened at the pointer. *)
Widens ==
    /\ Held' = Held /\ code'.reg_pointer \in Nat /\ code.reg_pointer <= code'.reg_pointer
    /\ code'.free_regs = code.free_regs

LEMMA StepReturns == ASSUME TypeOK, CallEnd \/ TernaryThen PROVE Returns
<1>0. code \in CodeType /\ HasRegs(code) /\ locals \in Seq(Operands)
  BY CodeHasRegs DEF TypeOK
<1> DEFINE d == ScopeEnd(Top.st, code)
<1>1. /\ HasRegs(d) /\ d.free_regs = Take(code.free_regs, Top.st.n_free_regs)
      /\ d.reg_pointer = Top.st.reg_pointer
  BY <1>0 DEF ScopeEnd, HasRegs
<1> HIDE DEF d
<1>2. \A i : /\ Emit(d, i).free_regs = Take(code.free_regs, Top.st.n_free_regs)
             /\ Emit(d, i).reg_pointer = Top.st.reg_pointer
  BY <1>1, KeepRegs DEF SameRegs
<1>3. CASE CallEnd
  <2> DEFINE x == Plain(Reg(Top.instr.dest))
             l == IF Top.instr.op \in ArrayLoads THEN Push(x) ELSE locals
  <2>1. At("CallEnd") /\ Do(Emit(d, Top.instr), l, <<>>)
    BY <1>3 DEF CallEnd, d
  <2>2. Top \in Tasks /\ Top.k = "CallEnd"
    BY <2>1, AtTypes
  <2>3. Top.st \in RegsState /\ Top.instr \in Instruction
    BY <2>2, TaskFields
  <2>4. x \in Operands /\ ~x.own
    <3>1. Top.instr.dest \in Int
      BY <2>3 DEF Instruction
    <3>2. Reg(Top.instr.dest) \in MaybeImm
      BY <3>1, ImmType
    <3> QED BY <3>2, OperandTypes DEF Plain
  <2> HIDE DEF x
  <2>5. HeldOf(l) = HeldOf(locals)
    BY <1>0, <2>4, HeldPush DEF Push
  <2> HIDE DEF l
  <2>6. Held' = Held /\ code' = Emit(d, Top.instr)
    BY <2>1, <2>5, DoRegs, HeldIsHeldOf
  <2> QED BY <1>2, <2>2, <2>3, <2>6 DEF Returns, Closers
<1>4. CASE TernaryThen
  <2>1. At("TernaryThen") /\ \E tasks : Do(Emit(d, Jump(0)), locals, tasks)
    BY <1>4 DEF TernaryThen, d
  <2>2. Top \in Tasks /\ Top.k = "TernaryThen"
    BY <2>1, AtTypes
  <2>3. Top.st \in RegsState
    BY <2>2, TaskFields
  <2>4. Held' = Held /\ code' = Emit(d, Jump(0))
    BY <2>1, DoRegs, HeldIsHeldOf
  <2> QED BY <1>2, <2>2, <2>3, <2>4 DEF Returns, Closers
<1> QED BY <1>3, <1>4

LEMMA StepRaises == ASSUME TypeOK, ElseEnd \/ TernaryElse PROVE Raises
<1>0. code \in CodeType /\ HasRegs(code)
  BY CodeHasRegs DEF TypeOK
<1> DEFINE d == ScopeHwmEnd(Top.st, code)
<1>1. Top.st \in RegsState
  <2>1. Top \in Tasks /\ Top.k \in {"ElseEnd", "TernaryElse"}
    BY AtTypes DEF ElseEnd, TernaryElse
  <2> QED BY <2>1, TaskFields
<1>2. HasRegs(d) /\ d.free_regs = Take(code.free_regs, Top.st.n_free_regs)
  BY <1>0 DEF ScopeHwmEnd, HasRegs
<1>3. d.reg_pointer \in Nat /\ code.reg_pointer <= d.reg_pointer
  <2>1. d.reg_pointer = IF code.reg_pointer < Top.st.reg_pointer THEN Top.st.reg_pointer ELSE code.reg_pointer
    BY <1>0 DEF ScopeHwmEnd, HasRegs
  <2>2. code.reg_pointer \in Nat /\ Top.st.reg_pointer \in Nat
    BY <1>0, <1>1, WidthAssumption DEF CodeType, RegsState
  <2> HIDE DEF d
  <2> QED BY <2>1, <2>2
<1>4. \E c : Held' = Held /\ code' = c /\ SameRegs(d, c)
  <2>1. CASE ElseEnd
    <3>1. \E l, to : Do(SetLabel(d, l, to), locals, <<>>)
      BY <2>1 DEF ElseEnd
    <3> HIDE DEF d
    <3> QED BY <1>2, <3>1, KeepRegs, DoRegs, HeldIsHeldOf
  <2>2. CASE TernaryElse
    <3> DEFINE c == SetLabel(d, Top.branch, Top.label)
    <3>1. \E l, to : Do(SetLabel(c, l, to), locals, <<>>)
      BY <2>2 DEF TernaryElse
    <3> HIDE DEF d
    <3>2. SameRegs(d, c) /\ HasRegs(c)
      BY <1>2, KeepRegs DEF SameRegs
    <3> HIDE DEF c
    <3>3. \A l, to : SameRegs(d, SetLabel(c, l, to))
      BY <3>2, KeepRegs, SameRegsTrans
    <3> QED BY <3>1, <3>3, DoRegs, HeldIsHeldOf
  <2> QED BY <2>1, <2>2
<1> HIDE DEF d
<1>5. Top.st.n_free_regs \in Nat
  BY <1>1 DEF RegsState
<1> QED BY <1>2, <1>3, <1>4, <1>5 DEF Raises, SameRegs

LEMMA StepWidens == ASSUME TypeOK, Command \/ LoadIndex \/ StoreIndex PROVE Widens
<1>0. code \in CodeType /\ HasRegs(code)
  BY CodeHasRegs DEF TypeOK
<1>1. ASSUME NEW c, SameRegs(code, c), HasRegs(c), NEW args \in Seq(Exprs), NEW tasks,
             Do([c EXCEPT !.reg_pointer = @ + Len(args)], locals, tasks)
      PROVE  Widens
  <2> DEFINE d == [c EXCEPT !.reg_pointer = @ + Len(args)]
  <2>1. d.free_regs = code.free_regs /\ d.reg_pointer = code.reg_pointer + Len(args)
    BY <1>1 DEF SameRegs, HasRegs
  <2>2. Held' = Held /\ code' = d
    BY <1>1, DoRegs, HeldIsHeldOf
  <2> HIDE DEF d
  <2>3. code.reg_pointer \in Nat /\ Len(args) \in Nat
    BY <1>0, LenProperties, WidthAssumption DEF CodeType
  <2>4. code'.reg_pointer \in Nat /\ code.reg_pointer <= code'.reg_pointer
    BY <2>1, <2>2, <2>3
  <2> QED BY <2>1, <2>2, <2>4 DEF Widens
<1>2. CASE Command
  <2>1. /\ AtStmt("command")
        /\ \E tasks : Do([code EXCEPT !.reg_pointer = @ + Len(Top.s.args)], locals, tasks)
    BY <1>2 DEF Command
  <2>2. Top \in Tasks /\ Top.k = "Stmt" /\ Top.s.k = "command"
    BY <2>1, AtTypes DEF AtStmt
  <2>3. Top.s.args \in Seq(Exprs)
    BY <2>2, TaskFields, StmtFields
  <2>4. SameRegs(code, code)
    BY <1>0 DEF SameRegs
  <2> QED BY <1>0, <1>1, <2>1, <2>3, <2>4
<1>3. CASE LoadIndex \/ StoreIndex
  <2> DEFINE c == IF Top.p.k = "userindex" THEN RegisterUserVar(code, Top.p.id) ELSE code
  <2>1. /\ At("LoadPlace") \/ At("StorePlace")
        /\ Top.p.k \in Indexed
        /\ \E tasks : Do([c EXCEPT !.reg_pointer = @ + Len(Top.p.args)], locals, tasks)
    BY <1>3 DEF LoadIndex, StoreIndex, AtPlace, ArrayAccess
  <2>2. Top \in Tasks /\ Top.k \in {"LoadPlace", "StorePlace"}
    BY <2>1, AtTypes
  <2>3. Top.p.args \in Seq(Exprs)
    BY <2>1, <2>2, TaskFields, PlaceFields DEF Indexed
  <2>4. SameRegs(code, c) /\ HasRegs(c)
    BY <1>0, KeepRegs DEF SameRegs
  <2> HIDE DEF c
  <2> QED BY <1>1, <2>1, <2>3, <2>4
<1> QED BY <1>2, <1>3

LEMMA ChangeOfTernary ==
    ASSUME TypeOK, TernaryBranch
    PROVE  Change /\ code'.reg_pointer = code.reg_pointer
<1> DEFINE c == Emit(code, Branch(Local(0).mi, FollowingInstr(code, 1), 0))
<1>1. SameRegs(code, c) /\ HasRegs(c)
  BY CodeHasRegs, KeepRegs DEF TypeOK, SameRegs
<1>2. \E tasks : Do(FreeLocal(c, Local(0)), Pop(1), tasks)
  BY DEF TernaryBranch
<1> HIDE DEF c
<1>3. Change
  BY <1>1, <1>2, DoFrees, EffectChanges
<1>4. code' = FreeLocal(c, Local(0)) /\ FreeLocal(c, Local(0)).reg_pointer = c.reg_pointer
  BY <1>1, <1>2 DEF Do, FreeLocal, FreeReg, HasRegs
<1> QED BY <1>1, <1>3, <1>4 DEF SameRegs

-----------------------------------------------------------------------------
(* Nobody shares a register, and the open scopes are guarded and nested.   *)

ScopesSound ==
    /\ Apart(Held, code.free_regs, code.reg_pointer, Windows)
    /\ ScopesGuarded
    /\ ScopesNested

LEMMA WindowsWait ==
    ASSUME Ready, Balanced, ScopesSound
    PROVE  /\ ScopesGuarded' /\ ScopesNested' /\ Windows' \subseteq Windows
           /\ \A r \in Windows' : r \in Waiting
  BY BalancedScopes, WaitingOpen DEF ScopesSound

(* Registers are taken and given. *)
LEMMA SoundChanged == ASSUME Ready, Change, Balanced, ScopesSound PROVE ScopesSound'
<1>1. ScopesGuarded' /\ ScopesNested' /\ Windows' \subseteq Windows
  BY WindowsWait
<1>2. Apart(Held', code'.free_regs, code'.reg_pointer, Windows)
  <2>1. Apart(Held, code.free_regs, code.reg_pointer, Windows) /\ TypeOK
    BY DEF ScopesSound, Ready
  <2> QED BY <2>1, ApartChanged
<1>3. Apart(Held', code'.free_regs, code'.reg_pointer, Windows')
  BY <1>1, <1>2, ApartSmaller
<1> QED BY <1>1, <1>3 DEF ScopesSound

(* A scope ends: its owners and the windows around it are below the        *)
(* pointer it goes back to, and so is what is left of the list.            *)
LEMMA SoundReturned ==
    ASSUME Ready, Returns, Balanced, ScopesSound,
           \A i \in 1 .. Len(code.free_regs) :
               i <= Top.st.n_free_regs => code.free_regs[i] < Top.st.reg_pointer
    PROVE  ScopesSound'
<1> DEFINE q == Top.st.reg_pointer
           n == Top.st.n_free_regs
<1>1. ScopesGuarded' /\ ScopesNested' /\ Windows' \subseteq Windows /\ \A r \in Windows' : r \in Waiting
  BY WindowsWait
<1>2. q \in Nat /\ n \in Nat
  BY WidthAssumption DEF Returns, RegsState
<1>3. \A r \in Windows' : r < q
  BY <1>1, WaitingBelow DEF Returns, ScopesSound
<1>4. ASSUME NEW i \in DOMAIN Held PROVE Held[i] < q
  <2>1. Len(control) \in Nat \ {0} /\ 1 \in 1 .. Len(control)
    BY StreamTail DEF Ready, TypeOK, Stream
  <2>2. PICK H \in Nat : /\ Climbs(control, 1 - 1, H, Len(locals), H)
                         /\ \A j \in 1 .. Len(locals) : j <= H /\ Owned(j) => locals[j].mi.n < q
    BY <2>1 DEF ScopesSound, ScopesGuarded, Guarded, Returns, Top
  <2>3. Len(locals) = H
    <3>1. PICK h : Climb(control, 1 - 1, h, H, Len(locals), H)
      BY <2>2 DEF Climbs
    <3> QED BY <3>1 DEF Climb
  <2>4. i \in 1 .. Len(locals) /\ Owned(i) /\ Held[i] = locals[i].mi.n
    BY <1>4 DEF Held
  <2>5. i <= H
    BY <2>3, <2>4
  <2> QED BY <2>2, <2>4, <2>5
<1>5. \A h, f, p, w, v : /\ Apart(h, f, p, w) /\ v \subseteq w
                         /\ \A i \in DOMAIN h : h[i] < q
                         /\ \A i \in 1 .. Len(f) : i <= n => f[i] < q
                         /\ \A r \in v : r < q
                         => Apart(h, Take(f, n), q, v)
  BY <1>2, ApartKept
<1>6. Apart(Held, Take(code.free_regs, n), q, Windows')
  <2> DEFINE h == Held
             f == code.free_regs
             w == Windows
             v == Windows'
  <2>1. Apart(h, f, code.reg_pointer, w) /\ v \subseteq w
    BY <1>1 DEF ScopesSound
  <2>2. \A i \in DOMAIN h : h[i] < q
    BY <1>4
  <2>3. \A i \in 1 .. Len(f) : i <= n => f[i] < q
    OBVIOUS
  <2>4. \A r \in v : r < q
    BY <1>3
  <2> HIDE DEF h, f, w, v, q, n
  <2>5. Apart(h, Take(f, n), q, v)
    BY <1>5, <2>1, <2>2, <2>3, <2>4
  <2> QED BY <2>5 DEF h, f, v
<1>7. Apart(Held', code'.free_regs, code'.reg_pointer, Windows')
  BY <1>6 DEF Returns
<1> QED BY <1>1, <1>7 DEF ScopesSound

(* At the high-water mark nothing goes above the pointer. *)
LEMMA SoundRaised == ASSUME Ready, Raises, Balanced, ScopesSound PROVE ScopesSound'
<1>1. ScopesGuarded' /\ ScopesNested' /\ Windows' \subseteq Windows
  BY WindowsWait
<1>2. PICK n \in Nat : code'.free_regs = Take(code.free_regs, n)
  BY DEF Raises
<1>3. ASSUME NEW h, NEW f, NEW p, NEW w, NEW v, NEW q \in Nat, Apart(h, f, p, w), v \subseteq w, p <= q
      PROVE  Apart(h, Take(f, n), q, v)
  <2>1. p \in Nat /\ v \subseteq v /\ Fewer(h, h)
    BY <1>3 DEF Apart, Fewer
  <2>2. /\ \A i \in DOMAIN h : h[i] < p
        /\ \A i \in 1 .. Len(f) : i <= n => f[i] < p
        /\ \A r \in v : r < p
    BY <1>3 DEF Apart
  <2>3. Apart(h, Take(f, n), p, v)
    BY <1>3, <2>1, <2>2, ApartKept
  <2> QED BY <1>3, <2>1, <2>3, ApartFewer
<1>4. Apart(Held, code.free_regs, code.reg_pointer, Windows)
  BY DEF ScopesSound
<1>5. /\ Held' = Held /\ code'.reg_pointer \in Nat /\ code.reg_pointer <= code'.reg_pointer
  BY DEF Raises
<1>6. Apart(Held, Take(code.free_regs, n), code'.reg_pointer, Windows')
  BY <1>1, <1>3, <1>4, <1>5
<1>7. Apart(Held', code'.free_regs, code'.reg_pointer, Windows')
  BY <1>2, <1>5, <1>6
<1> QED BY <1>1, <1>7 DEF ScopesSound

(* A window is opened above everything else. *)
LEMMA SoundWidened == ASSUME Ready, Widens, Opened, ScopesSound PROVE ScopesSound'
<1>1. Apart(Held, code.free_regs, code.reg_pointer, Windows) /\ ScopesGuarded /\ ScopesNested
  BY DEF ScopesSound
<1>2. /\ ScopesGuarded' /\ ScopesNested'
      /\ \A r \in Windows' : r \in Windows \/ r \in code.reg_pointer .. code'.reg_pointer - 1
  BY <1>1, OpenedScopes, WaitingOpen
<1>3. code'.reg_pointer \in Nat /\ code.reg_pointer <= code'.reg_pointer
  BY DEF Widens
<1>4. Apart(Held, code.free_regs, code'.reg_pointer, Windows')
  BY <1>1, <1>2, <1>3, ApartOpened
<1>5. Apart(Held', code'.free_regs, code'.reg_pointer, Windows')
  BY <1>4 DEF Widens
<1> QED BY <1>2, <1>5 DEF ScopesSound

(* An arm is entered: no window. *)
LEMMA SoundBranched ==
    ASSUME Ready, Change, code'.reg_pointer = code.reg_pointer, Opened, ScopesSound
    PROVE  ScopesSound'
<1>1. Apart(Held, code.free_regs, code.reg_pointer, Windows) /\ ScopesGuarded /\ ScopesNested /\ TypeOK
  BY DEF ScopesSound, Ready
<1>2. ScopesGuarded' /\ ScopesNested' /\ Windows' \subseteq Windows
  <2>1. /\ ScopesGuarded' /\ ScopesNested'
        /\ \A r \in Windows' : r \in Windows \/ r \in code.reg_pointer .. code'.reg_pointer - 1
    BY <1>1, OpenedScopes, WaitingOpen
  <2>2. code.reg_pointer \in Nat
    BY <1>1 DEF Apart
  <2>3. \A p \in Nat : p .. p - 1 = {}
    OBVIOUS
  <2> QED BY <2>1, <2>2, <2>3
<1>3. Apart(Held', code'.free_regs, code'.reg_pointer, Windows)
  BY <1>1, ApartChanged
<1>4. Apart(Held', code'.free_regs, code'.reg_pointer, Windows')
  BY <1>2, <1>3, ApartSmaller
<1> QED BY <1>2, <1>4 DEF ScopesSound

-----------------------------------------------------------------------------
(* The scopes, in every program.                                           *)

ScopeInv ==
    /\ StackInv
    /\ Apart(Held, code.free_regs, code.reg_pointer, Windows)
    /\ ScopesGuarded
    /\ ScopesNested

LEMMA ScopeStarts == ASSUME Init PROVE ScopeInv
<1>1. StackInv /\ Level(control) /\ locals = <<>> /\ code = EmptyCode
  BY StackStarts, LevelBody, ProgramsAssumption DEF Init
<1>2. \A i \in 1 .. Len(control) : control[i].k \notin Closers
  BY <1>1 DEF Level, OpensNone
<1>3. ScopesGuarded /\ ScopesNested
  BY <1>2 DEF ScopesGuarded, ScopesNested, Enclosed
<1>4. Windows = {}
  BY <1>2 DEF Windows, Closers
<1>5. DOMAIN Held = {}
  <2>1. Len(locals) = 0
    BY <1>1
  <2>2. 1 .. 0 = {}
    OBVIOUS
  <2> QED BY <2>1, <2>2 DEF Held
<1>6. code.free_regs = <<>> /\ code.reg_pointer = 0
  BY <1>1 DEF EmptyCode
<1>7. 1 .. Len(code.free_regs) = {} /\ code.free_regs \in Seq(Nat)
  BY <1>6
<1>8. Apart(Held, code.free_regs, code.reg_pointer, Windows)
  BY <1>4, <1>5, <1>6, <1>7 DEF Apart
<1> QED BY <1>1, <1>3, <1>8 DEF ScopeInv

(* What is left of the free list is below the pointer: ScopesClose says so *)
(* of the list before the step, FreeListSound of the list after it.        *)
LEMMA ListCloses ==
    ASSUME TypeOK, CallEnd \/ TernaryThen, ScopesClose \/ FreeListSound'
    PROVE  \A i \in 1 .. Len(code.free_regs) :
               i <= Top.st.n_free_regs => code.free_regs[i] < Top.st.reg_pointer
<1>1. CASE ScopesClose
  <2>1. At("CallEnd") \/ At("TernaryThen")
    BY DEF CallEnd, TernaryThen
  <2> QED BY <1>1, <2>1 DEF ScopesClose, At, Top
<1>2. CASE FreeListSound'
  <2> DEFINE f == code.free_regs
             n == Top.st.n_free_regs
             g == Take(f, n)
  <2>1. Returns
    BY StepReturns
  <2>2. f \in Seq(0 .. U8-1) /\ n \in Nat
    BY <2>1 DEF Returns, RegsState, TypeOK, CodeType
  <2>3. /\ Len(g) = (IF n < Len(f) THEN n ELSE Len(f))
        /\ \A j \in 1 .. Len(g) : g[j] = f[j]
    BY <2>2, TakeProperties
  <2>4. \A j \in 1 .. Len(g) : g[j] < Top.st.reg_pointer
    BY <1>2, <2>1 DEF FreeListSound, Returns
  <2>5. Len(f) \in Nat
    BY <2>2, LenProperties
  <2> HIDE DEF f, n, g
  <2>6. \A i \in 1 .. Len(f) : i <= n => i \in 1 .. Len(g)
    BY <2>2, <2>3, <2>5
  <2>7. \A i \in 1 .. Len(f) : i <= n => f[i] < Top.st.reg_pointer
    BY <2>3, <2>4, <2>6
  <2> QED BY <2>7 DEF f, n
<1> QED BY <1>1, <1>2

LEMMA ScopeOfStep ==
    ASSUME Ready, ScopesSound, ScopesClose \/ FreeListSound', LowerStatement \/ LowerExpr \/ LowerPlace
    PROVE  ScopesSound'
<1>0. TypeOK
  BY DEF Ready
<1>1. CASE \/ If \/ While \/ For \/ ForTop \/ DoWhile \/ ExprStmt
           \/ UnaryInto \/ BinaryInto \/ TernaryInto \/ AssignInto \/ IncrInto \/ StoreRecord
  <2>1. Balanced
    BY <1>1, StackOfStatement, StackOfInto, StackOfStore
  <2> QED BY <1>0, <1>1, <2>1, ChangeOfQuiet, SoundChanged
<1>2. CASE IfBranch \/ LoopBranch \/ DoBranch \/ UnaryEmit \/ RecordEmit \/ FreeTop \/ BinaryEmit
  <2>1. Balanced
    BY <1>2, StackOfBranch, StackOfFree, StackOfBinary
  <2> QED BY <1>0, <1>2, <2>1, ChangeOfEmits, SoundChanged
<1>3. CASE ThenEnd \/ LoopEnd
  BY <1>0, <1>3, StackOfPatch, ChangeOfPatches, SoundChanged
<1>4. CASE LowerAtom \/ LowerNode \/ AtomInto
  <2>1. Balanced
    BY <1>4, StackOfOperand, StackOfInto
  <2> QED BY <1>0, <1>4, <2>1, ChangeOfAtoms, SoundChanged
<1>5. CASE AssignVal \/ AssignEmit \/ Incr \/ Redirection
  <2>1. Balanced
    BY <1>5, StackOfAssign, StackOfIncr, StackOfRedirection
  <2> QED BY <1>0, <1>5, <2>1, ChangeOfAssigns, SoundChanged
<1>6. CASE LoadScalar \/ StoreScalar
  <2>1. Balanced
    BY <1>6, StackOfOperand, StackOfStore
  <2> QED BY <1>0, <1>6, <2>1, ChangeOfScalars, SoundChanged
<1>7. CASE CallEnd \/ TernaryThen
  <2>1. Balanced
    BY <1>7, StackOfCallEnd, StackOfThen
  <2>2. Returns
    BY <1>0, <1>7, StepReturns
  <2>3. \A i \in 1 .. Len(code.free_regs) :
            i <= Top.st.n_free_regs => code.free_regs[i] < Top.st.reg_pointer
    BY <1>0, <1>7, ListCloses
  <2> QED BY <2>1, <2>2, <2>3, SoundReturned
<1>8. CASE ElseEnd \/ TernaryElse
  <2>1. Balanced
    BY <1>8, StackOfPatch
  <2> QED BY <1>0, <1>8, <2>1, StepRaises, SoundRaised
<1>9. CASE Command \/ LoadIndex \/ StoreIndex
  <2>1. Opened
    BY <1>9, StackOfCommand, StackOfIndex
  <2> QED BY <1>0, <1>9, <2>1, StepWidens, SoundWidened
<1>10. CASE TernaryBranch
  BY <1>0, <1>10, StackOfTernary, ChangeOfTernary, SoundBranched
<1> QED BY <1>1, <1>2, <1>3, <1>4, <1>5, <1>6, <1>7, <1>8, <1>9, <1>10 DEF LowerStatement, LowerExpr, LowerPlace

LEMMA ScopeStep == ScopeInv /\ (ScopesClose \/ FreeListSound') /\ [Next]_vars => ScopeInv'
<1> SUFFICES ASSUME ScopeInv, ScopesClose \/ FreeListSound', [Next]_vars PROVE ScopeInv'
  OBVIOUS
<1>0. StackInv' /\ StackInv /\ ScopesSound
  BY StackStep DEF ScopeInv, ScopesSound
<1>1. CASE LowerStatement \/ LowerExpr \/ LowerPlace
  <2>1. control # <<>>
    BY <1>1, StepsLower
  <2>2. Ready
    BY <1>0, <2>1, StackReady
  <2>3. ScopesSound'
    BY <1>0, <1>1, <2>2, ScopeOfStep
  <2> QED BY <1>0, <2>3 DEF ScopeInv, ScopesSound
<1>2. CASE Panic \/ Finish \/ UNCHANGED vars
  <2>1. control' = control /\ locals' = locals /\ code' = code
    BY <1>2 DEF Panic, Finish, vars
  <2>2. Held' = Held /\ Windows' = Windows
    BY <2>1 DEF Held, Owned, Windows, WindowOf
  <2>3. ScopesGuarded'
    <3>1. ASSUME NEW j \in 1 .. Len(control'), control'[j].k \in Closers PROVE Guarded(j)'
      <4>1. Guarded(j)
        BY <1>0, <2>1, <3>1 DEF ScopesSound, ScopesGuarded
      <4>2. PICK H \in Nat :
              /\ Climbs(control, j - 1, H, Len(locals), H)
              /\ \A i \in 1 .. Len(locals) : i <= H /\ Owned(i) => locals[i].mi.n < control[j].st.reg_pointer
        BY <4>1 DEF Guarded
      <4>3. Climbs(control', j - 1, H, Len(locals'), H)
        BY <2>1, <4>2
      <4>4. \A i \in 1 .. Len(locals') : i <= H /\ Owned(i)' => locals'[i].mi.n < control'[j].st.reg_pointer
        BY <2>1, <4>2 DEF Owned
      <4> QED BY <4>3, <4>4 DEF Guarded
    <3> QED BY <3>1 DEF ScopesGuarded
  <2>4. ScopesNested'
    BY <1>0, <2>1 DEF ScopesSound, ScopesNested, Enclosed, WindowOf
  <2>5. Apart(Held', code'.free_regs, code'.reg_pointer, Windows')
    BY <1>0, <2>1, <2>2 DEF ScopesSound
  <2> QED BY <1>0, <2>3, <2>4, <2>5 DEF ScopeInv
<1> QED BY <1>1, <1>2 DEF Next

LEMMA ScopesApart == ScopeInv => OwnersDistinct /\ FreeListSound /\ WindowIsPrivate
<1> SUFFICES ASSUME ScopeInv PROVE OwnersDistinct /\ FreeListSound /\ WindowIsPrivate
  OBVIOUS
<1>1. Apart(Held, code.free_regs, code.reg_pointer, Windows)
  BY DEF ScopeInv
<1>2. \A i \in 1 .. Len(locals) : Owned(i) => i \in DOMAIN Held /\ Held[i] = locals[i].mi.n
  BY DEF Held
<1>3. OwnersDistinct
  BY <1>1, <1>2 DEF Apart, OwnersDistinct
<1>4. FreeListSound
  BY <1>1, <1>2 DEF Apart, FreeListSound
<1>5. ASSUME NEW t \in 1 .. Len(control), control[t].k = "CallEnd"
      PROVE  control[t].instr.lo .. control[t].instr.hi - 1 \subseteq Windows
  BY <1>5 DEF Windows, WindowOf
<1>6. WindowIsPrivate
  <2> SUFFICES ASSUME NEW t \in 1 .. Len(control), control[t].k = "CallEnd"
               PROVE  LET w == control[t].instr.lo .. control[t].instr.hi - 1
                      IN  /\ \A i \in 1 .. Len(locals) : Owned(i) => locals[i].mi.n \notin w
                          /\ \A i \in 1 .. Len(code.free_regs) : code.free_regs[i] \notin w
                          /\ \A r \in w : r < code.reg_pointer
    BY DEF WindowIsPrivate
  <2> DEFINE w == control[t].instr.lo .. control[t].instr.hi - 1
  <2>1. w \subseteq Windows
    BY <1>5
  <2> HIDE DEF w
  <2>2. \A i \in 1 .. Len(locals) : Owned(i) => locals[i].mi.n \notin w
    BY <1>1, <1>2, <2>1 DEF Apart
  <2>3. \A i \in 1 .. Len(code.free_regs) : code.free_regs[i] \notin w
    BY <1>1, <2>1 DEF Apart
  <2>4. \A r \in w : r < code.reg_pointer
    BY <1>1, <2>1 DEF Apart
  <2> QED BY <2>2, <2>3, <2>4 DEF w
<1> QED BY <1>3, <1>4, <1>6

(* For every program: the lowering can make two owners share a register,   *)
(* or put an argument into a register somebody owns, only in a step after  *)
(* a scope ended with a free list that reaches above its pointer           *)
(* (RegsState::scope, lower.rs:473).                                       *)
THEOREM ScopesKeepThem == Spec => ScopesKeepRegisters
<1>1. Init => ScopeInv
  BY ScopeStarts
<1>2. ScopeInv /\ ScopesClose /\ [Next]_vars => ScopeInv'
  BY ScopeStep
<1> QED BY <1>1, <1>2, ScopesApart, PTL DEF Spec, ScopesKeepRegisters

(* And the free list is where it shows first: while that is sound, so are  *)
(* the owners and the windows.                                             *)
THEOREM ListGuardsOwners == Spec => ([]FreeListSound => [](OwnersDistinct /\ WindowIsPrivate))
<1>1. Init => ScopeInv
  BY ScopeStarts
<1>2. ScopeInv /\ FreeListSound' /\ [Next]_vars => ScopeInv'
  BY ScopeStep
<1> QED BY <1>1, <1>2, ScopesApart, PTL DEF Spec
=============================================================================
