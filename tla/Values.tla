------------------------------- MODULE Values -------------------------------
(***************************************************************************)
(* The values of the interpreter and what the operators do to them:        *)
(* interpreter/src/types.rs.                                               *)
(*                                                                         *)
(* A text is the sequence of its bytes.  The f64 of the code is abstracted *)
(* to the integers: the models below apply it to whole numbers and divide  *)
(* only what is divisible, so rounding, fractions, NaN, infinities and -0  *)
(* do not occur.  Array is left out: no instruction that runs makes one.   *)
(***************************************************************************)
EXTENDS Integers, Sequences

Float(n)   == [t |-> "Float", n |-> n]
Int_(n)    == [t |-> "Int", n |-> n]
String_(s) == [t |-> "String", s |-> s]
Regex_(s)  == [t |-> "Regex", s |-> s]
Bool_(b)   == [t |-> "Bool", b |-> b]
Untyped    == [t |-> "Untyped"]
Unassigned == [t |-> "Unassigned"]

Numeric == {"Float", "Int"}
Textual == {"String", "Regex"}
Empty   == {"Untyped", "Unassigned"}

Truth(b) == IF b THEN 1 ELSE 0
b2f(b)   == Float(Truth(b))

-----------------------------------------------------------------------------
(* Texts. *)

Zero == 48      \* '0'
Minus == 45     \* '-'

Digits[n \in Nat] == IF n < 10 THEN <<Zero + n>> ELSE Digits[n \div 10] \o <<Zero + (n % 10)>>
Decimal(n) == IF n < 0 THEN <<Minus>> \o Digits[-n] ELSE Digits[n]

(* str::parse::<f64> on what Decimal writes; any other text does not parse *)
(* (exponents, fractions and names of infinities are not used).            *)
IsDigits(s) == s # <<>> /\ \A i \in 1 .. Len(s) : s[i] \in Zero .. Zero + 9
ParseDigits(s) ==
    LET value[i \in 0 .. Len(s)] == IF i = 0 THEN 0 ELSE 10 * value[i-1] + s[i] - Zero
    IN  value[Len(s)]
Parse(s) ==
    IF IsDigits(s) THEN ParseDigits(s)
    ELSE IF s # <<>> /\ s[1] = Minus /\ IsDigits(Tail(s)) THEN -ParseDigits(Tail(s))
    ELSE 0

(* The order of byte slices. *)
TextLess(s, t) ==
    \E k \in 1 .. Len(t) :
        /\ k <= Len(s) + 1
        /\ \A i \in 1 .. k - 1 : s[i] = t[i]
        /\ k <= Len(s) => s[k] < t[k]

-----------------------------------------------------------------------------
(* Conversions. *)

(* scalar_context *)
ScalarContext(v) == IF v.t = "Untyped" THEN Unassigned ELSE v

ToBool(v) == CASE v.t \in Numeric -> v.n # 0
               [] v.t = "Bool" -> v.b
               [] v.t = "String" -> v.s # <<>>
               [] OTHER -> FALSE

ToNum(v) == CASE v.t \in Numeric -> v.n
              [] v.t = "Bool" -> Truth(v.b)
              [] v.t = "String" -> Parse(v.s)
              [] OTHER -> 0

(* write_string *)
Text(v) == CASE v.t \in Textual -> v.s
             [] v.t \in Numeric -> Decimal(v.n)
             [] v.t = "Bool" -> Decimal(Truth(v.b))
             [] OTHER -> <<>>

(* Display, which print uses: a regex shows its slashes. *)
Slash == <<47>>
Display(v) == IF v.t = "Regex" THEN Slash \o v.s \o Slash ELSE Text(v)

-----------------------------------------------------------------------------
(* PartialEq, PartialOrd and Hash. *)

Eq(a, b) ==
    CASE a.t \in Numeric /\ b.t \in Numeric -> a.n = b.n
      [] a.t = "Bool" /\ b.t = "Bool" -> a.b = b.b
      [] a.t \in Numeric /\ b.t = "Bool" -> b.b /\ a.n = 1
      [] a.t = "Bool" /\ b.t \in Numeric -> a.b /\ b.n = 1
      [] a.t \in Textual \/ b.t \in Textual -> Text(a) = Text(b)
      [] a.t \in Empty /\ b.t \in Empty -> TRUE
      [] OTHER -> FALSE

(* The sign of the comparison. *)
NumCmp(m, n)  == IF m < n THEN -1 ELSE IF m > n THEN 1 ELSE 0
TextCmp(s, t) == IF TextLess(s, t) THEN -1 ELSE IF TextLess(t, s) THEN 1 ELSE 0

Cmp(a, b) ==
    IF a.t \in Numeric \cup {"Bool"} /\ b.t \in Numeric \cup {"Bool"}
    THEN NumCmp(ToNum(a), ToNum(b))
    ELSE TextCmp(Text(a), Text(b))

-----------------------------------------------------------------------------
(* The operators the interpreter applies.  Asserts hold where an operator  *)
(* panics.                                                                 *)

Power(m, n) == LET p[i \in 0 .. n] == IF i = 0 THEN 1 ELSE m * p[i-1] IN p[n]

(* f64 `%` takes the sign of the dividend. *)
Abs(n) == IF n < 0 THEN -n ELSE n
Rem(m, n) == IF m < 0 THEN -(Abs(m) % Abs(n)) ELSE m % Abs(n)

UnaryValue(op, v) == CASE op = "Negation" -> b2f(~ToBool(v))
                       [] op = "ToInt" -> Float(ToNum(v))
                       [] op = "Negative" -> Float(-ToNum(v))
                       [] op = "Copy" -> v

(* The asserts of Div and Rem. *)
DivisionPanics(op, a, b) == \/ op = "Divide" /\ ToNum(b) = 0
                            \/ op = "Modulo" /\ ToNum(a) = 0 /\ ToNum(b) = 0

NaN == [t |-> "NaN"]   \* n % 0 for n # 0, which Rem lets through

BinaryValue(op, a, b) ==
    LET m == ToNum(a)
        n == ToNum(b)
    IN  CASE op = "Add" -> Float(m + n)
          [] op = "Subtract" -> Float(m - n)
          [] op = "Multiply" -> Float(m * n)
          [] op = "Divide" -> Float(m \div n)
          [] op = "Modulo" -> IF n = 0 THEN NaN ELSE Float(Rem(m, n))
          [] op = "Raise" -> Float(Power(m, n))
          [] op = "Concat" -> String_(Text(a) \o Text(b))
          [] op = "Eq" -> b2f(Eq(a, b))
          [] op = "NEq" -> b2f(~Eq(a, b))
          [] op = "Gt" -> b2f(Cmp(a, b) > 0)
          [] op = "Lt" -> b2f(Cmp(a, b) < 0)
          [] op = "LtE" -> b2f(Cmp(a, b) <= 0)
          [] op = "GtE" -> b2f(Cmp(a, b) >= 0)
=============================================================================
