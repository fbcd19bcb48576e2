----------------------------- MODULE Arithmetic -----------------------------
(***************************************************************************)
(* The arithmetic statements and MOVE: what the parser accepts of them,    *)
(* the Java they are lowered to (native int and long, or BigDecimal), and  *)
(* what the oracle's COBOL stores.                                         *)
(*                                                                         *)
(* Integers are scaled down: an item of at most IntDigits digits is an     *)
(* int, any other a long; Java's limits IntMax and LongMax keep their      *)
(* ratio to the 9 and 18 digits of the real types.  A value is kept in     *)
(* units of its item's last decimal place; expressions are rationals       *)
(* <<n, d>>, d > 0.                                                        *)
(***************************************************************************)
EXTENDS Integers, Sequences, SequencesExt

CONSTANTS Item,       \* numeric items: [int, dec, signed, table] by name
          XWidth,     \* characters of the alphanumeric item
          Written,    \* the statements, as written
          Storages,   \* [mem, text]: VALUE clauses of the items
          IntDigits, IntMax, LongMax

VARIABLES stmt, before, oracle, candidate
arithVars == <<stmt, before, oracle, candidate>>

NoStatement == [verb |-> "none"]
SP == 10       \* characters: digits 0..9, a space, a letter
LETTER == 11

Pic(f) == Item[f].int + Item[f].dec
IsLong(f) == Pic(f) > IntDigits
AbsOf(n) == IF n < 0 THEN -n ELSE n
DigitsOf(n) == CHOOSE k \in 1..4 : AbsOf(n) < 10^k /\ (k = 1 \/ AbsOf(n) >= 10^(k-1))

(***************************************************************************)
(* Expressions.  A leaf is a literal (its value in units of 10^-dec and    *)
(* its leading zeros) or an item; "neg" and + - * / have operands.  A      *)
(* "digits" leaf is a literal the mapper turned into a variable reference: *)
(* its text stands in the Java as it was written.                          *)
(***************************************************************************)
Lit(n, dec, zeros) == [op |-> "lit", n |-> n, dec |-> dec, zeros |-> zeros]
Ref(f) == [op |-> "ref", f |-> f]
reference_expression(e) == IF e.op = "lit" THEN [e EXCEPT !.op = "digits"] ELSE e
Neg(e) == [op |-> "neg", l |-> e]
Bin(op, l, r) == [op |-> op, l |-> l, r |-> r]
Binary(e) == e.op \in {"+", "-", "*", "/"}
Element(e) == e.op = "ref" /\ Item[e.f].table

RECURSIVE Leaves(_)
Leaves(e) == CASE Binary(e)    -> Leaves(e.l) \cup Leaves(e.r)
               [] e.op = "neg" -> Leaves(e.l)
               [] OTHER        -> {e}

RECURSIVE Divisions(_)
Divisions(e) == CASE Binary(e)    -> (IF e.op = "/" THEN {e} ELSE {})
                                     \cup Divisions(e.l) \cup Divisions(e.r)
                  [] e.op = "neg" -> Divisions(e.l)
                  [] OTHER        -> {}

(***************************************************************************)
(* Exact values                                                            *)
(***************************************************************************)
Truncated(n, d) == IF n < 0 THEN -((-n) \div d) ELSE n \div d
HalfUp(n, d) == IF n < 0 THEN -((2 * (-n) + d) \div (2 * d)) ELSE (2 * n + d) \div (2 * d)
Scaled(q, dec, rounded) == IF rounded THEN HalfUp(q[1] * 10^dec, q[2])
                                      ELSE Truncated(q[1] * 10^dec, q[2])
Operate(op, a, b) ==
  CASE op = "+" -> <<a[1] * b[2] + b[1] * a[2], a[2] * b[2]>>
    [] op = "-" -> <<a[1] * b[2] - b[1] * a[2], a[2] * b[2]>>
    [] op = "*" -> <<a[1] * b[1], a[2] * b[2]>>
    [] op = "/" -> IF b[1] > 0 THEN <<a[1] * b[2], a[2] * b[1]>>
                               ELSE <<-(a[1] * b[2]), a[2] * (-b[1])>>

Num(v) == [ok |-> TRUE, v |-> v]
Fails == [ok |-> FALSE, v |-> 0]

(***************************************************************************)
(* Java's int and long, and its reading of digits: a leading zero makes an *)
(* integer octal, and it is then an int up to its last bit.                *)
(***************************************************************************)
MaxOf(long) == IF long THEN LongMax ELSE IntMax
InType(n, long) == n <= MaxOf(long) /\ n >= -MaxOf(long) - 1
Wrapped(n, long) == ((n + MaxOf(long) + 1) % (2 * (MaxOf(long) + 1))) - MaxOf(long) - 1

DigitText(n, width) == [i \in 1..width |-> (AbsOf(n) \div 10^(width - i)) % 10]
DigitsIn(e) == DigitText(e.n, DigitsOf(e.n))
Octal(e) == e.dec = 0 /\ e.zeros > 0
InBase(text, base) == FoldLeft(LAMBDA n, c : base * n + c, 0, text)
JavaDigits(e) == IF Octal(e) THEN Wrapped(InBase(DigitsIn(e), 8), FALSE) ELSE e.n
NotJava(e) ==   \* a sign makes a name of it ("-3" is read as _3)
  \/ e.n < 0
  \/ Octal(e) /\ (InBase(DigitsIn(e), 8) > 2 * IntMax + 1 \/ \E i \in DOMAIN DigitsIn(e) : DigitsIn(e)[i] > 7)
  \/ e.dec = 0 /\ ~Octal(e) /\ e.n > IntMax

RECURSIVE Exact(_, _)
Exact(e, m) ==
  CASE e.op = "lit" -> Num(<<e.n, 10^e.dec>>)
    [] e.op = "digits" -> Num(<<JavaDigits(e), 10^e.dec>>)
    [] e.op = "ref" -> Num(<<m[e.f], 10^Item[e.f].dec>>)
    [] e.op = "neg" -> LET x == Exact(e.l, m) IN
                       IF x.ok THEN Num(<<-x.v[1], x.v[2]>>) ELSE Fails
    [] OTHER -> LET a == Exact(e.l, m)  b == Exact(e.r, m) IN
                IF ~a.ok \/ ~b.ok \/ (e.op = "/" /\ b.v[1] = 0) THEN Fails
                ELSE Num(Operate(e.op, a.v, b.v))

(* Silent high-order truncation; an unsigned item keeps the magnitude. *)
Received(f, n) == LET low == AbsOf(n) % 10^Pic(f)
                  IN IF n < 0 /\ Item[f].signed THEN -low ELSE low

(***************************************************************************)
(* What the oracle does with a statement as written (external).            *)
(***************************************************************************)
SumOf(es) == FoldLeft(LAMBDA a, e : Bin("+", a, e), Head(es), Tail(es))
Receiver(st) == IF st.giving # "" THEN st.giving ELSE st.to.f
Value(st) ==
  CASE st.verb = "ADD" /\ st.to.op = "none" -> SumOf(st.from)
    [] st.verb = "ADD"      -> Bin("+", SumOf(st.from), st.to)
    [] st.verb = "SUBTRACT" -> Bin("-", st.to, SumOf(st.from))
    [] st.verb = "MULTIPLY" -> Bin("*", st.from[1], st.to)
    [] st.verb = "INTO"     -> Bin("/", st.to, st.from[1])
    [] st.verb = "BY"       -> Bin("/", st.from[1], st.to)
    [] OTHER                -> st.from[1]

Remainder(st, m) ==
  LET e == Value(st)
      q == Scaled(Exact(e, m).v, Item[Receiver(st)].dec, FALSE)
      part == Operate("*", <<q, 10^Item[Receiver(st)].dec>>, Exact(e.r, m).v)
  IN Operate("-", Exact(e.l, m).v, part)

CobolArithmetic(st, s) ==
  LET f == Receiver(st)
      x == Exact(Value(st), s.mem)
      n == Scaled(x.v, Item[f].dec, st.rounded)
      stored == [s.mem EXCEPT ![f] = Received(f, n)]
      r == Remainder(st, s.mem)
  IN CASE ~x.ok \/ (st.size /\ AbsOf(n) >= 10^Pic(f))
            -> [s EXCEPT !.branch = IF st.size THEN "error" ELSE ""]
       [] st.rem # "" ->
            [s EXCEPT !.mem = [stored EXCEPT ![st.rem] =
                                 Received(st.rem, Scaled(r, Item[st.rem].dec, FALSE))]]
       [] OTHER -> [s EXCEPT !.mem = stored, !.branch = IF st.size THEN "not-error" ELSE ""]

Fitted(text) == [i \in 1..XWidth |-> IF i <= Len(text) THEN text[i] ELSE SP]
DigitsWithin(text) == SelectSeq(text, LAMBDA c : c # SP)
Readable(text) ==   \* leading spaces, then digits
  \A i \in 1..Len(text) : /\ text[i] # LETTER
                          /\ text[i] = SP => \A j \in 1..i : text[j] = SP
NumberIn(text) == InBase(DigitsWithin(text), 10)

CobolMove(st, s) ==
  LET e == st.from[1] IN
  CASE st.giving = "X" /\ e.op = "lit" ->
         [s EXCEPT !.text = Fitted(DigitText(e.n, e.zeros + DigitsOf(e.n)))]
    [] st.giving = "X" -> [s EXCEPT !.text = Fitted(DigitText(s.mem[e.f], Pic(e.f)))]
    [] e.op = "text" /\ ~Readable(s.text) -> [s EXCEPT !.how = "unspecified"]
    [] e.op = "text" ->
         [s EXCEPT !.mem[st.giving] =
            (NumberIn(s.text) % 10^Item[st.giving].int) * 10^Item[st.giving].dec]
    [] OTHER -> [s EXCEPT !.mem[st.giving] =
                   Received(st.giving, Scaled(Exact(e, s.mem).v, Item[st.giving].dec, FALSE))]

LiteralReceiver(st) == st.giving = "" /\ st.to.op = "lit"
Cobol(st, s) == CASE st.verb = "MOVE" -> CobolMove(st, s)
                  [] LiteralReceiver(st) -> [s EXCEPT !.how = "invalid"]
                  [] OTHER -> CobolArithmetic(st, s)

(***************************************************************************)
(* The parser: the statements it does not take, and the (target, raw       *)
(* expression) it passes on.                                               *)
(***************************************************************************)
Unparsed(st) ==
  \/ st.verb = "SUBTRACT" /\ LiteralReceiver(st)
  \/ st.verb = "ADD" /\ Len(st.from) > 1 /\ \E i \in DOMAIN st.from : Element(st.from[i])

subtrahends(minuend, sources) == FoldLeft(LAMBDA a, e : Bin("-", a, e), minuend, sources)
add_operands(sources) == SumOf(sources)

lowered(st) ==
  CASE st.verb = "ADD" /\ st.to.op = "none" -> add_operands(st.from)
    [] st.verb = "ADD" /\ st.giving # ""    -> Bin("+", add_operands(st.from), reference_expression(st.to))
    [] st.verb = "ADD"      -> Bin("+", st.to, add_operands(st.from))
    [] st.verb = "SUBTRACT" -> subtrahends(st.to, st.from)
    [] st.verb = "MULTIPLY" -> Bin("*", st.from[1], reference_expression(st.to))
    [] st.verb = "INTO"     -> Bin("/", st.to, st.from[1])
    [] st.verb = "BY"       -> Bin("/", st.from[1], st.to)
    [] OTHER                -> st.from[1]

(***************************************************************************)
(* What is known of an expression when it is lowered                       *)
(***************************************************************************)
requires_fractional_type(e) ==
  \E x \in Leaves(e) : \/ x.op = "lit" /\ x.dec > 0
                       \/ x.op = "ref" /\ Item[x.f].dec > 0

RECURSIVE integral_digit_width(_)
integral_digit_width(e) ==
  CASE e.op = "lit" -> DigitsOf(e.n)
    [] e.op = "digits" -> 0
    [] e.op = "ref" -> IF Element(e) THEN 0 ELSE Pic(e.f)
    [] e.op = "neg" -> integral_digit_width(e.l)
    [] OTHER -> LET a == integral_digit_width(e.l)  b == integral_digit_width(e.r) IN
                CASE e.op = "*" -> a + b
                  [] e.op = "/" -> a
                  [] OTHER -> 1 + (IF a > b THEN a ELSE b)

Bounded(n, long) == [k |-> "known", n |-> n, long |-> long]
Unknown == [k |-> "unknown", n |-> 0, long |-> FALSE]
Overflows == [k |-> "overflows", n |-> 0, long |-> FALSE]

JavaLimit_always_long(long) == LongMax   \* mutant
JavaLimit(long) == IF long THEN LongMax ELSE IntMax

(* The magnitude an integral expression may reach, and its Java type. *)
RECURSIVE native_integral_bound(_)
native_integral_bound(e) ==
  CASE e.op = "lit" -> IF e.dec > 0 THEN Unknown ELSE Bounded(AbsOf(e.n), AbsOf(e.n) > IntMax)
    [] e.op = "digits" -> Unknown
    [] e.op = "ref" -> IF Element(e) \/ Item[e.f].dec > 0 THEN Unknown
                       ELSE Bounded(10^Pic(e.f) - 1, IsLong(e.f))
    [] e.op = "neg" -> native_integral_bound(e.l)
    [] OTHER ->
         LET a == native_integral_bound(e.l)  b == native_integral_bound(e.r)
             long == a.long \/ b.long
             n == CASE e.op = "*" -> a.n * b.n
                    [] e.op = "/" -> a.n
                    [] OTHER -> a.n + b.n
         IN CASE "overflows" \in {a.k, b.k} -> Overflows
              [] "unknown" \in {a.k, b.k} -> Unknown
              [] n > JavaLimit(long) -> Overflows
              [] OTHER -> Bounded(n, long)

RECURSIVE can_be_negative(_)
can_be_negative(e) ==
  CASE e.op = "lit" -> e.n < 0
    [] e.op = "digits" -> TRUE
    [] e.op = "ref" -> Element(e) \/ Item[e.f].signed
    [] e.op \in {"neg", "-"} -> TRUE
    [] OTHER -> can_be_negative(e.l) \/ can_be_negative(e.r)

RECURSIVE fits_digits(_, _)
fits_digits(e, digits) ==
  CASE e.op = "lit" -> e.dec = 0 /\ DigitsOf(e.n) <= digits
    [] e.op = "ref" -> ~Element(e) /\ Item[e.f].dec = 0 /\ Pic(e.f) <= digits
    [] e.op \in {"neg", "/"} -> fits_digits(e.l, digits)
    [] OTHER -> FALSE

contains_division(e) == Divisions(e) # {}
has_nested_division(e) == Divisions(e) \ {e} # {}

(***************************************************************************)
(* Native Java: int unless an operand is long, wrapping, except where      *)
(* _protect_integral_overflow wrote a Math.xxxExact call because the width *)
(* exceeds "guard" digits.                                                 *)
(***************************************************************************)
RECURSIVE LongTyped(_, _)
LongTyped(e, guard) ==
  CASE e.op = "neg" -> LongTyped(e.l, guard)
    [] Binary(e)    -> LongTyped(e.l, guard) \/ LongTyped(e.r, guard)
    [] guard = IntDigits /\ integral_digit_width(e) > guard -> FALSE   \* Math.toIntExact
    [] e.op = "lit" -> AbsOf(e.n) > IntMax
    [] e.op = "digits" -> FALSE
    [] OTHER        -> IsLong(e.f)

RECURSIVE Native(_, _, _)
Native(e, guard, m) ==
  CASE e.op = "neg" -> LET x == Native(e.l, guard, m) IN
                       IF x.ok THEN Num(Wrapped(-x.v, LongTyped(e, guard))) ELSE Fails
    [] Binary(e) ->
         LET a == Native(e.l, guard, m)  b == Native(e.r, guard, m)
             long == LongTyped(e, guard)
             n == IF e.op = "/" THEN (IF b.v = 0 THEN 0
                                      ELSE Truncated(IF b.v < 0 THEN -a.v ELSE a.v, AbsOf(b.v)))
                  ELSE Operate(e.op, <<a.v, 1>>, <<b.v, 1>>)[1]
             checked == e.op # "/" /\ integral_digit_width(e) > guard
         IN CASE ~a.ok \/ ~b.ok -> Fails
              [] e.op = "/" /\ b.v = 0 -> Fails
              [] checked /\ ~InType(n, long) -> Fails
              [] OTHER -> Num(Wrapped(n, long))
    [] OTHER -> LET n == Exact(e, m).v[1] IN
                IF guard = IntDigits /\ integral_digit_width(e) > guard /\ ~InType(n, FALSE)
                THEN Fails ELSE Num(n)

(* _zero_divisor_test, left to right: "fails" when evaluating it throws. *)
Unguarded == 99
RECURSIVE divisors(_)
divisors(e) == CASE Binary(e)    -> (IF e.op = "/" THEN <<e.r>> ELSE <<>>)
                                    \o divisors(e.l) \o divisors(e.r)
                 [] e.op = "neg" -> divisors(e.l)
                 [] OTHER        -> <<>>

RECURSIVE AnyZero(_, _)
AnyZero(tests, m) ==
  IF tests = <<>> THEN "no"
  ELSE LET d == Head(tests)
           x == IF requires_fractional_type(d) THEN Exact(d, m) ELSE Native(d, Unguarded, m)
           n == IF requires_fractional_type(d) /\ x.ok THEN x.v[1] ELSE x.v
       IN CASE ~x.ok -> "fails"
            [] x.ok /\ n = 0 -> "yes"
            [] OTHER -> AnyZero(Tail(tests), m)
zero_divisor_test(e, m) ==
  AnyZero(SelectSeq(divisors(e), LAMBDA d : ~(d.op = "lit" /\ d.n # 0)), m)

(***************************************************************************)
(* Storing a result                                                        *)
(***************************************************************************)
Refuse(s) == [s EXCEPT !.how = "refused"]    \* javac or the gate stops it
Abort(s) == [s EXCEPT !.how = "aborted"]     \* a Java exception ends the run
Store(s, f, n) == [s EXCEPT !.mem[f] = n]
Remaindered(n, f) == IF n < 0 THEN -(AbsOf(n) % 10^Pic(f)) ELSE n % 10^Pic(f)
Magnitude(n, e, f) == IF Item[f].signed \/ ~can_be_negative(e) THEN n ELSE AbsOf(n)

exact_intermediates(e, f, rounded) ==
  \/ IF rounded THEN contains_division(e) ELSE has_nested_division(e)
  \/ native_integral_bound(e).k = "overflows"
  \/ native_integral_bound(e).k = "known" /\ native_integral_bound(e).long /\ ~IsLong(f)

Decimal(e, f, rounded) ==
  Item[f].dec > 0 \/ requires_fractional_type(e) \/ exact_intermediates(e, f, rounded)

GuardOf(f) == IF IsLong(f) THEN 2 * IntDigits ELSE IntDigits
DigitLeaves(e) == {x \in Leaves(e) : x.op = "digits"}

apply_numeric_receiver_semantics(s, f, e, rounded) ==
  IF Decimal(e, f, rounded)
  THEN LET x == Exact(e, s.mem)
           n == Remaindered(Scaled(x.v, Item[f].dec, rounded), f)
       IN IF x.ok THEN Store(s, f, Magnitude(n, e, f)) ELSE Abort(s)
  ELSE LET guard == GuardOf(f)
           x == Native(e, guard, s.mem)
           n == IF fits_digits(e, Item[f].int) THEN x.v ELSE Remaindered(x.v, f)
       IN CASE LongTyped(e, guard) /\ ~IsLong(f) -> Refuse(s)
            [] \E y \in DigitLeaves(e) : y.dec > 0 -> Refuse(s)   \* a double
            [] ~x.ok -> Abort(s)
            [] OTHER -> Store(s, f, Magnitude(n, e, f))

IfDivisible(zero, s, stored) ==
  CASE stored.how = "refused" -> stored
    [] zero = "yes" -> s
    [] zero = "fails" -> Abort(s)
    [] OTHER -> stored
Unsized(s, f, e, rounded) ==
  IfDivisible(zero_divisor_test(e, s.mem), s, apply_numeric_receiver_semantics(s, f, e, rounded))

TooWide(n, f) == AbsOf(n) >= 10^Pic(f)
Sized(s, f, e, rounded) ==
  LET zero == zero_divisor_test(e, s.mem)
      x == Exact(e, s.mem)
      n == Scaled(x.v, Item[f].dec, rounded)
  IN CASE zero = "fails" \/ (zero = "no" /\ ~x.ok) -> Abort(s)
       [] zero = "yes" \/ TooWide(n, f) -> [s EXCEPT !.branch = "error"]
       [] OTHER -> [Store(s, f, IF Item[f].signed THEN n ELSE AbsOf(n))
                      EXCEPT !.branch = "not-error"]

emit_arithmetic(s, f, e, st) == IF st.size THEN Sized(s, f, e, st.rounded)
                                           ELSE Unsized(s, f, e, st.rounded)

(* The remainder is computed after the quotient is stored. *)
OverlapsQuotient(st) == Ref(Receiver(st)) \in {lowered(st).l, lowered(st).r}
intermediate_quotient(e, f, m) == <<Scaled(Exact(e, m).v, Item[f].dec, FALSE), 10^Item[f].dec>>
JavaRemainder(s, st) ==
  LET e == lowered(st)
      q == intermediate_quotient(e, Receiver(st), s.mem)
      r == Operate("-", Exact(e.l, s.mem).v, Operate("*", q, Exact(e.r, s.mem).v))
      n == Remaindered(Scaled(r, Item[st.rem].dec, FALSE), st.rem)
  IN IF zero_divisor_test(e, s.mem) # "no" THEN s
     ELSE Store(s, st.rem, IF Item[st.rem].signed THEN n ELSE AbsOf(n))

WithRemainder(st, s, quotient) ==
  CASE st.rem = "" -> quotient
    [] st.size \/ st.rounded \/ OverlapsQuotient(st) -> Refuse(s)
    [] quotient.how # "runs" -> quotient
    [] OTHER -> JavaRemainder(quotient, st)
JavaArithmetic(st, s) ==
  IF Unparsed(st) \/ (\E x \in DigitLeaves(lowered(st)) : NotJava(x)) THEN Refuse(s)
  ELSE WithRemainder(st, s, emit_arithmetic(s, Receiver(st), lowered(st), st))

(* MOVE: text to number, number to text, number to number. *)
alphanumeric_to_numeric(s, f) ==
  IF ~Readable(s.text) THEN Abort(s)
  ELSE Store(s, f, (NumberIn(s.text) % 10^Item[f].int) * 10^Item[f].dec)

numeric_as_alphanumeric(s, e) ==
  CASE e.op = "lit" -> [s EXCEPT !.text = Fitted(DigitText(e.n, e.zeros + DigitsOf(e.n)))]
    [] e.op = "ref" /\ Item[e.f].dec > 0 -> Refuse(s)
    [] OTHER -> [s EXCEPT !.text = Fitted(DigitText(s.mem[e.f], Pic(e.f)))]

MoveElement(s, e, f) ==   \* a plain Java assignment
  IF Item[f].dec > 0 \/ (IsLong(e.f) /\ ~IsLong(f)) THEN Refuse(s) ELSE Store(s, f, s.mem[e.f])

JavaMove(st, s) ==
  LET e == st.from[1] IN
  CASE st.giving = "X" -> numeric_as_alphanumeric(s, e)
    [] e.op = "text" -> alphanumeric_to_numeric(s, st.giving)
    [] Element(e) -> MoveElement(s, e, st.giving)
    [] OTHER -> apply_numeric_receiver_semantics(s, st.giving, e, FALSE)

Java(st, s) == IF st.verb = "MOVE" THEN JavaMove(st, s) ELSE JavaArithmetic(st, s)

(***************************************************************************)
(* Any statement, from any storage                                         *)
(***************************************************************************)
ArithInit == /\ stmt = NoStatement
             /\ \E w \in Storages :
                  before = [mem |-> w.mem, text |-> w.text, branch |-> "", how |-> "runs"]
             /\ oracle = before
             /\ candidate = before

Execute(st) == /\ stmt' = st
               /\ oracle' = Cobol(st, oracle)
               /\ candidate' = Java(st, candidate)
               /\ UNCHANGED before

ArithNext == stmt = NoStatement /\ \E st \in Written : Execute(st)
ArithSpec == ArithInit /\ [][ArithNext]_arithVars

(***************************************************************************)
(* Properties                                                              *)
(***************************************************************************)
Ran == stmt # NoStatement
Computes == Ran /\ stmt.verb # "MOVE"

(* What the lowering does not reproduce.  A table element has no known     *)
(* native bound and no receiver semantics in a MOVE; a divisor that itself *)
(* divides is tested in int arithmetic; and a quotient below the root that *)
(* has no finite decimal form is rounded by DECIMAL128.  The literal of    *)
(* ADD ... TO 3 GIVING and MULTIPLY ... BY 3 GIVING is referred to as a    *)
(* variable named 3: no bound is known, so the int result may wrap, and    *)
(* BY 010 multiplies by eight.                                             *)
UnboundedElement ==
  \/ stmt.verb = "MOVE" /\ Element(stmt.from[1])
  \/ /\ Computes /\ ~stmt.size
     /\ ~Decimal(lowered(stmt), Receiver(stmt), stmt.rounded)
     /\ \E x \in Leaves(lowered(stmt)) : Element(x)
DividesByQuotient == Computes /\ \E d \in Divisions(lowered(stmt)) : Divisions(d.r) # {}
WrappingDivisor == Computes /\ \E d \in Divisions(lowered(stmt)) :
                     native_integral_bound(d.r).k = "overflows"
RECURSIVE OddPart(_)   \* d without its factors 2 and 5
OddPart(d) == IF d % 2 = 0 THEN OddPart(d \div 2)
              ELSE IF d % 5 = 0 THEN OddPart(d \div 5) ELSE d
RepeatingQuotient == Computes /\ \E d \in Divisions(lowered(stmt)) \ {lowered(stmt)} :
  LET q == Exact(d, before.mem) IN q.ok /\ q.v[1] % OddPart(q.v[2]) # 0

LiteralAsName ==
  /\ Computes
  /\ LET e == lowered(stmt)  f == Receiver(stmt) IN
     \E x \in DigitLeaves(e) :
       \/ JavaDigits(x) # x.n
       \/ /\ ~stmt.size /\ ~Decimal(e, f, stmt.rounded)
          /\ ~InType(Exact(e, before.mem).v[1], LongTyped(e, GuardOf(f)))

Lowered == Ran /\ candidate.how # "refused" /\ ~(UnboundedElement \/ DividesByQuotient \/ LiteralAsName
                                               \/ WrappingDivisor \/ RepeatingQuotient)

(* The generated Java stores what COBOL stores, to the last digit: scale,  *)
(* rounding, high-order truncation, magnitude of an unsigned item, nothing *)
(* on a zero divisor, and the same SIZE ERROR body runs in both, or in     *)
(* neither (_apply_numeric_receiver_semantics, _emit_arithmetic, the MOVE  *)
(* and DIVIDE branches of map_cobol_statement).  Only a MOVE of text nobody *)
(* certified ends the run with an exception, and it must                   *)
(* (_alphanumeric_to_numeric).                                             *)
StoresWhatCobolStores ==
  Lowered => IF oracle.how = "unspecified" THEN candidate.how = "aborted"
             ELSE candidate = oracle

=============================================================================
