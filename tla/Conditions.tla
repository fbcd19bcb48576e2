----------------------------- MODULE Conditions -----------------------------
(***************************************************************************)
(* From an IF or EVALUATE condition to the Java test it becomes            *)
(* (map_cobol_condition_to_java).  The condition is taken apart where the  *)
(* code takes it apart, as text; what it does not take apart is rendered   *)
(* as text, and Java's grammar then decides what it means.                 *)
(***************************************************************************)
EXTENDS Integers, Sequences, SequencesExt, FiniteSetsExt

CONSTANTS
  Atoms,      \* what the words of a condition stand for: relations, names ...
  Alone,      \* the words only looked at on their own
  Envs,       \* contents of the data items; numbers in tenths
  MaxTokens   \* bound on the words of a condition

VARIABLES
  condition,  \* the condition, as words
  declares88, \* does the program declare a level-88 name?
  test        \* the Java it became, by what it decides

conditionVars == <<condition, declares88, test>>

-----------------------------------------------------------------------------
(* Java tests: the contents they hold for, unless they fail closed.        *)
Holds(when) == [java |-> "test", when |-> when]
Refused == [java |-> "refused", when |-> {}]              \* an UNSUPPORTED marker
Uncompilable == [java |-> "uncompilable", when |-> {}]    \* javac rejects it
Join(ts, when) ==
  IF \E t \in ts : t = Refused THEN Refused
  ELSE IF \E t \in ts : t = Uncompilable THEN Uncompilable ELSE Holds(when)
Both(a, b) == Join({a, b}, a.when \cap b.when)
Either(a, b) == Join({a, b}, a.when \cup b.when)
Negated(a) == Join({a}, Envs \ a.when)

-----------------------------------------------------------------------------
(* One relation: [kind, left, op, right].  Operands are items, literals     *)
(* [kind, quote, words, text], numbers and figurative constants.           *)
Space == 32
Zero == 48
Quote == 34
Backslash == 92
Relates(op, a, b) ==
  CASE op = "=" -> a = b   [] op = "<" -> a < b   [] op = ">" -> a > b
    [] op = "!=" -> a # b  [] op = ">=" -> a >= b [] op = "<=" -> a <= b
_fold_negated_relational ==
  [o \in {"=", "!=", "<", ">", "<=", ">="} |->
     CASE o = "=" -> "!=" [] o = "!=" -> "=" [] o = ">" -> "<=" [] o = "<=" -> ">"
       [] o = "<" -> ">=" [] o = ">=" -> "<"]

IsItem(o, classes) == o.kind = "item" /\ o.class \in classes
IsAlpha(o) == o.kind = "literal" \/ IsItem(o, {"alpha"})
IsDecimal(o) == IsItem(o, {"decimal"}) \/ (o.kind = "number" /\ o.value % 10 # 0)

\* Texts are compared as equally long, padded with spaces, character by
\* character.
Padded(s, w) == [i \in 1..w |-> IF i <= Len(s) THEN s[i] ELSE Space]
First(a, b) == Min({i \in DOMAIN a : a[i] # b[i]})
Collates(op, a, b) ==
  IF a = b THEN Relates(op, 0, 0) ELSE Relates(op, a[First(a, b)], b[First(a, b)])
Width(o) == IF o.kind = "item" THEN o.width ELSE Len(o.text)
Text(o, env) == IF o.kind = "item" THEN env[o.name] ELSE o.text

alphanumeric_comparison(op, l, r) ==
  LET w == Max({Width(l), Width(r), 1})
  IN Holds({env \in Envs : Collates(op, Padded(Text(l, env), w), Padded(Text(r, env), w))})

\* An int literal is the text of the source: a leading zero makes it octal.
JavaInt(o, env) == IF o.kind = "item" THEN env[o.name] ELSE o.java
decimalized_comparison(op, l, r) ==
  LET value(o, env) == IF o.kind = "item" THEN env[o.name] ELSE o.value
  IN IF IsDecimal(l) \/ IsDecimal(r)
     THEN Holds({env \in Envs : Relates(op, value(l, env), value(r, env))})
     ELSE IF \E o \in {l, r} : o.kind = "number" /\ o.java < 0 THEN Uncompilable
          ELSE Holds({env \in Envs : Relates(op, JavaInt(l, env), JavaInt(r, env))})

\* A figurative constant on the right: a fill, under = a test of every
\* character; in another relation its internal spelling is what is compared,
\* a text that begins with a backslash.
fill_comparison(op, l, char) ==
  LET filled == {env \in Envs : \A i \in DOMAIN env[l.name] : env[l.name][i] = char}
  IN IF op \notin {"=", "!="}
     THEN IF IsAlpha(l)
          THEN alphanumeric_comparison(op, l, [kind |-> "literal", text |-> <<Backslash, Zero>>])
          ELSE Refused
     ELSE IF ~IsAlpha(l) THEN Uncompilable
     ELSE IF op = "=" THEN Holds(filled) ELSE Holds(Envs \ filled)

_substitute_figurative_constants(op, l, r) ==
  IF r.kind = "figurative" /\ r.char = Zero /\ (~IsAlpha(l) \/ op \in {"<", ">"})
  THEN [kind |-> "number", value |-> 0, java |-> 0] ELSE r

\* The condition is rewritten and split at spaces as text, its literals with it.
\* A word is [is, text]: spaces in a row part empty ones.
Spaced(words) == FoldLeft(LAMBDA t, w : t \o <<Space>> \o w.text, words[1].text, Tail(words))
split(words) ==
  LET n == Len(words)
  IN IF n = 1 THEN words
     ELSE <<words[1]>> \o SelectSeq(SubSeq(words, 2, n - 1), LAMBDA w : w.text # <<>>) \o <<words[n]>>

\* A figurative word in a literal becomes a fill, ZERO a digit (a fill after an
\* equals sign); NOT is a prefix of what follows it, AND and OR become symbols,
\* dashes underscores, but for those of the part the quote begins.
Fills(words) ==
  \E i \in DOMAIN words : \/ words[i].is = "fill"
                          \/ i > 1 /\ words[i].is = "zero" /\ words[i - 1].is = "equals"
JavaWord(words, i) ==
  CASE words[i].is = "zero" -> <<Zero>>
    [] words[i].is = "not" /\ i < Len(words) -> <<33>>
    [] words[i].is = "or" /\ i \in 2..(Len(words) - 1) /\ words[i - 1].is # "not" -> <<124, 124>>
    [] words[i].is = "dashed" /\ (\E j \in 1..(i - 1) : words[j].is # "not")
         -> [c \in DOMAIN words[i].text |-> IF words[i].text[c] = 45 THEN 95 ELSE words[i].text[c]]
    [] OTHER -> words[i].text
Respelled(words) ==
  FoldLeft(LAMBDA t, i : t \o (IF i = 1 \/ words[i - 1].is = "not" THEN <<>> ELSE <<Space>>)
                           \o JavaWord(words, i),
           <<>>, [i \in DOMAIN words |-> i])
Rejoined(o, words) ==
  [o EXCEPT !.text = IF Fills(words) THEN <<Quote>> ELSE Respelled(words)]
result_parts(o) == IF o.kind = "literal" THEN Rejoined(o, split(o.words)) ELSE o

\* A fill inside double quotes is no operand; a literal in single quotes is one
\* only as a single part, otherwise it is left a Java character literal.
NoOperand(o) == o.kind = "literal" /\ o.quote = "double" /\ Fills(split(o.words))
CharacterLiteral(o) ==
  /\ o.kind = "literal" /\ o.quote = "single"
  /\ \/ \E i \in DOMAIN o.text : o.text[i] = Space
     \/ Fills(split(o.words)) /\ Len(o.words) > 1

comparison(op, l, r) ==
  CASE r.kind = "figurative" -> fill_comparison(op, l, r.char)
    [] \E o \in {l, r} : NoOperand(o) -> Refused
    [] \E o \in {l, r} : CharacterLiteral(o) -> Uncompilable
    [] IsAlpha(l) /\ IsAlpha(r) -> alphanumeric_comparison(op, l, r)
    [] \A o \in {l, r} : ~IsAlpha(o) /\ ~IsItem(o, {"group"}) -> decimalized_comparison(op, l, r)
    [] OTHER -> Refused
relation(op, left, right) ==
  comparison(op, result_parts(left),
             result_parts(_substitute_figurative_constants(op, left, right)))

\* WHEN low THRU high: integer bounds only.
range(a) ==
  IF IsItem(a.left, {"int", "decimal"}) /\ {o \in {a.low, a.high} : IsDecimal(o)} = {}
  THEN Both(decimalized_comparison(">=", a.left, a.low),
            decimalized_comparison("<=", a.left, a.high))
  ELSE Refused

\* WHEN literal: the parts of the literal, each compared for itself.
_condition_for(a) ==
  LET parts == split(a.right.words)
  IN relation("=", a.left,
       [a.right EXCEPT !.words =
          FoldLeft(LAMBDA ws, w : ws \o <<[is |-> "or", text |-> <<79, 82>>], a.subject,
                                         [is |-> "equals", text |-> <<61>>], w>>,
                   <<parts[1]>>, Tail(parts))])

\* X IS [NOT] POSITIVE, NEGATIVE, ZERO.
rewrite_sign_conditions(a) ==
  LET op == CASE a.op = "POSITIVE" -> ">" [] a.op = "NEGATIVE" -> "<" [] OTHER -> "="
      signed == [kind |-> "relation", left |-> a.left, op |-> op, not |-> FALSE,
                 right |-> [kind |-> "figurative", char |-> Zero]]
  IN IF a.not THEN [signed EXCEPT !.op = _fold_negated_relational[op]] ELSE signed

OneRelation(a) ==
  CASE a.kind = "sign" ->
         LET s == rewrite_sign_conditions(a) IN relation(s.op, s.left, s.right)
    [] a.kind = "range" -> range(a)
    [] a.kind = "when" -> _condition_for(a)
    [] a.kind = "relation" ->
         relation(IF a.not THEN _fold_negated_relational[a.op] ELSE a.op, a.left, a.right)
    [] OTHER -> Refused

-----------------------------------------------------------------------------
(* Level-88 names: the parent against each VALUE term.                     *)
_condition_value_literal(v, parent) ==
  CASE parent.class = "int" -> v.value
    [] v.kind = "figurative" -> [i \in 1..parent.width |-> v.char]
    [] OTHER -> Padded(v.text, parent.width)

_condition_term_expression(term, parent) ==
  LET low == _condition_value_literal(term.low, parent)
      high == _condition_value_literal(term.high, parent)
      meets(op, content, bound) ==
        IF parent.class = "int" THEN Relates(op, content, bound) ELSE Collates(op, content, bound)
  IN IF parent.class = "decimal" THEN Uncompilable
     ELSE Holds({env \in Envs : /\ meets(">=", env[parent.name], low)
                                /\ meets("<=", env[parent.name], high)})

_condition_value_is_supported(v, parent) ==
  IF parent.class = "alpha" THEN v.kind \in {"literal", "figurative"} ELSE v.kind = "number"

condition_name_expression(a) ==
  IF \E i \in DOMAIN a.terms : \E v \in {a.terms[i].low, a.terms[i].high} :
       ~_condition_value_is_supported(v, a.parent)
  THEN Refused
  ELSE FoldLeft(Either, Holds({}),
         [i \in DOMAIN a.terms |-> _condition_term_expression(a.terms[i], a.parent)])

\* The test of each word that is a relation or a name.
AtomTest ==
  [w \in DOMAIN Atoms |-> IF Atoms[w].kind = "name" THEN condition_name_expression(Atoms[w])
                          ELSE OneRelation(Atoms[w])]

-----------------------------------------------------------------------------
(* Compound conditions.                                                    *)
IsAtom(w) == w \in DOMAIN Atoms
Kind(w) == IF IsAtom(w) THEN Atoms[w].kind ELSE "word"
Mentions(s, kinds) == \E i \in DOMAIN s : Kind(s[i]) \in kinds
_RELATIONAL_TEXT(s) == Mentions(s, {"relation", "sign", "range", "when"})
Operands(s) ==
  UNION {LET a == Atoms[s[i]]
         IN IF a.kind \in {"relation", "when"} THEN {a.left, a.right}
            ELSE IF a.kind \in {"sign", "range"} THEN {a.left} ELSE {} :
         i \in {k \in DOMAIN s : IsAtom(s[k])}}
_involves_alphanumeric(s) == \E o \in Operands(s) : IsAlpha(o)
_involves_decimal(s) == \E o \in Operands(s) : IsDecimal(o)

Depth(s, i) ==
  FoldLeft(LAMBDA d, w : IF w = "(" THEN d + 1 ELSE IF w = ")" THEN d - 1 ELSE d,
           0, SubSeq(s, 1, i))

\* The parts between the keyword's occurrences outside parentheses.
_split_top_level(s, keyword) ==
  LET cuts == {0, Len(s) + 1} \cup {i \in DOMAIN s : s[i] = keyword /\ Depth(s, i) = 0}
      at == SetToSortSeq(cuts, <)
  IN [n \in 1..(Len(at) - 1) |-> SubSeq(s, at[n] + 1, at[n + 1] - 1)]

RECURSIVE _strip_enclosing_parens(_)
_strip_enclosing_parens(s) ==
  IF Len(s) > 1 /\ s[1] = "(" /\ s[Len(s)] = ")" /\ (\A i \in 1..(Len(s) - 1) : Depth(s, i) > 0)
  THEN _strip_enclosing_parens(SubSeq(s, 2, Len(s) - 1)) ELSE s

_condition_name_only(s) ==
  (Len(s) = 1 /\ Kind(s[1]) = "name") \/ (Len(s) = 2 /\ s[1] = "NOT" /\ Kind(s[2]) = "name")
NameTest(s) ==
  IF s[1] = "NOT" THEN Negated(AtomTest[s[2]]) ELSE AtomTest[s[1]]

\* Rendered as text: names stay undeclared Java identifiers, ! binds tighter
\* than a relation, and an operator before a ! counts as malformed.
_condition_is_malformed(s) ==
  \/ \E i \in 1..(Len(s) - 1) : s[i] \in {"AND", "OR", "NOT"} /\ s[i + 1] = "NOT"
  \/ Mentions(s, {"words"})
RECURSIVE JavaText(_)
JavaText(s) ==
  LET or == _split_top_level(s, "OR")
      and == _split_top_level(s, "AND")
  IN CASE Len(or) > 1 -> FoldLeft(Either, Holds({}), [i \in DOMAIN or |-> JavaText(or[i])])
       [] Len(or) = 1 /\ Len(and) > 1 ->
            FoldLeft(Both, Holds(Envs), [i \in DOMAIN and |-> JavaText(and[i])])
       [] OTHER ->
            IF s[1] = "(" THEN JavaText(SubSeq(s, 2, Len(s) - 1))
            ELSE IF s[1] = "NOT" /\ s[2] = "(" THEN Negated(JavaText(SubSeq(s, 3, Len(s) - 1)))
            ELSE IF Len(s) = 1 /\ _RELATIONAL_TEXT(s) THEN AtomTest[s[1]]
            ELSE Uncompilable

Abbreviated(s) ==
  LET u == _strip_enclosing_parens(s)
  IN \E k \in {"OR", "AND"} : LET parts == _split_top_level(u, k)
       IN Len(parts) > 1 /\ \E i \in DOMAIN parts : ~_RELATIONAL_TEXT(parts[i])

Connectives == <<"OR", "AND">>

RECURSIVE map_cobol_condition_to_java(_)
RECURSIVE expand_condition_names(_)
\* The parts of a compound, joined: COBOL's OR binds looser than AND.
InParts(s, part(_)) ==
  LET k == SelectInSeq(Connectives, LAMBDA c : Len(_split_top_level(s, c)) > 1)
      parts == _split_top_level(s, Connectives[k])
  IN IF Connectives[k] = "OR"
     THEN FoldLeft(Either, Holds({}), [i \in DOMAIN parts |-> part(parts[i])])
     ELSE FoldLeft(Both, Holds(Envs), [i \in DOMAIN parts |-> part(parts[i])])
Compound(s) == \E k \in {"OR", "AND"} : Len(_split_top_level(s, k)) > 1

Expands(s) == declares88 /\ (_condition_name_only(s) \/ Compound(_strip_enclosing_parens(s)))
expand_condition_names(s) ==
  LET Side(p) ==
        CASE _condition_name_only(p) -> NameTest(p)
          [] ~_RELATIONAL_TEXT(p) /\ Len(_split_top_level(_strip_enclosing_parens(p), "AND")) = 1
               -> Refused
          [] OTHER -> map_cobol_condition_to_java(p)
  IN IF _condition_name_only(s) THEN NameTest(s) ELSE InParts(_strip_enclosing_parens(s), Side)

\* Mutant of NegatesOneRelation: NOT negates all that follows it.
NegatesOneRelation_compound(s) ==
  Len(s) > 1 /\ s[1] = "NOT" /\ s[2] # "(" /\ _RELATIONAL_TEXT(Tail(s))

NegatesOneRelation(s) ==
  /\ Len(s) > 1 /\ s[1] = "NOT" /\ s[2] # "("
  /\ _RELATIONAL_TEXT(Tail(s)) /\ ~Compound(Tail(s))

map_cobol_condition_to_java(s) ==
  LET u == _strip_enclosing_parens(s)
      typed == _involves_alphanumeric(s) \/ _involves_decimal(s)
      Part(p) == IF ~_RELATIONAL_TEXT(p) /\ ~Expands(p) THEN Refused
                 ELSE map_cobol_condition_to_java(p)
  IN CASE s = <<>> -> Refused
       [] NegatesOneRelation(s) -> Negated(map_cobol_condition_to_java(Tail(s)))
       [] ~NegatesOneRelation(s) /\ Expands(s) -> expand_condition_names(s)
       [] OTHER ->
            IF typed /\ Compound(u) THEN InParts(u, Part)
            ELSE IF typed /\ u[1] = "NOT" /\ u[2] = "("
                 THEN Negated(map_cobol_condition_to_java(Tail(u)))
            ELSE IF typed /\ u # s THEN map_cobol_condition_to_java(u)
            ELSE IF Len(s) = 1 /\ _RELATIONAL_TEXT(s) THEN AtomTest[s[1]]
            ELSE IF _condition_is_malformed(s) \/ Abbreviated(s) THEN Refused
            ELSE JavaText(s)

-----------------------------------------------------------------------------
(* What the condition means: OR of ANDs of relations, names and conditions  *)
(* in parentheses, each of which may be negated.                           *)
ItemValue(o, env) == IF o.kind = "item" THEN env[o.name] ELSE o.value
TextOf(o, w, env) ==
  IF o.kind = "figurative" THEN [i \in 1..w |-> o.char] ELSE Padded(Text(o, env), w)
CobolRelation(op, l, r, env) ==
  IF IsAlpha(l)
  THEN LET w == IF r.kind = "figurative" THEN Width(l) ELSE Max({Width(l), Width(r)})
       IN Collates(op, TextOf(l, w, env), TextOf(r, w, env))
  ELSE Relates(op, ItemValue(l, env), IF r.kind = "figurative" THEN 0 ELSE ItemValue(r, env))
CobolAtom(a, env) ==
  CASE a.kind = "relation" ->
         LET yes == CobolRelation(a.op, a.left, a.right, env) IN IF a.not THEN ~yes ELSE yes
    [] a.kind = "when" -> CobolRelation("=", a.left, a.right, env)
    [] a.kind = "sign" ->
         LET v == env[a.left.name]
             yes == CASE a.op = "POSITIVE" -> v > 0 [] a.op = "NEGATIVE" -> v < 0 [] OTHER -> v = 0
         IN IF a.not THEN ~yes ELSE yes
    [] a.kind = "range" -> a.low.value <= env[a.left.name] /\ env[a.left.name] <= a.high.value
    [] a.kind = "name" ->
         \E i \in DOMAIN a.terms : /\ CobolRelation(">=", a.parent, a.terms[i].low, env)
                                   /\ CobolRelation("<=", a.parent, a.terms[i].high, env)

CobolAtoms ==
  [w \in {a \in DOMAIN Atoms : Atoms[a].kind \notin {"operand", "words"}} |->
     {env \in Envs : CobolAtom(Atoms[w], env)}]

RECURSIVE CobolHolds(_)
CobolHolds(s) ==
  LET or == _split_top_level(s, "OR")
      and == _split_top_level(s, "AND")
  IN CASE Len(or) > 1 -> UNION {CobolHolds(or[i]) : i \in DOMAIN or}
       [] Len(or) = 1 /\ Len(and) > 1 ->
            FoldLeft(LAMBDA a, b : a \cap b, Envs, [i \in DOMAIN and |-> CobolHolds(and[i])])
       [] OTHER ->
            IF s[1] = "NOT" THEN Envs \ CobolHolds(Tail(s))
            ELSE IF s[1] = "(" THEN CobolHolds(SubSeq(s, 2, Len(s) - 1))
            ELSE CobolAtoms[s[1]]

-----------------------------------------------------------------------------
(* Conditions are written word by word.                                    *)
Ended(s) == Depth(s, Len(s)) = 0 /\ (IsAtom(s[Len(s)]) \/ s[Len(s)] = ")")
Openings == {"NOT", "("} \cup (DOMAIN Atoms \ Alone)
MayFollow(s) ==
  IF IsAtom(s[Len(s)]) \/ s[Len(s)] = ")"
  THEN {"AND", "OR"} \cup (IF Depth(s, Len(s)) > 0 THEN {")"} ELSE {})
  ELSE Openings
NotWritten == [java |-> "none", when |-> {}]

ConditionInit ==
  /\ declares88 \in BOOLEAN
  /\ condition \in {<<w>> : w \in Openings \cup Alone}
  /\ ~declares88 => ~Mentions(condition, {"name"})
  /\ test = IF Ended(condition) THEN map_cobol_condition_to_java(condition) ELSE NotWritten

AddWord ==
  /\ Len(condition) < MaxTokens /\ condition[1] \notin Alone
  /\ \E w \in MayFollow(condition) :
       /\ ~declares88 => Kind(w) # "name"
       /\ condition' = Append(condition, w)
  /\ test' = IF Ended(condition') THEN map_cobol_condition_to_java(condition') ELSE NotWritten
  /\ UNCHANGED declares88

ConditionNext == AddWord
ConditionSpec == ConditionInit /\ [][ConditionNext]_conditionVars

-----------------------------------------------------------------------------
\* Relations Java decides otherwise than COBOL: an ordering against a figurative
\* constant, an int against a number with a leading zero, a literal whose words
\* or spaces are rewritten, and a WHEN literal of several words.
Misdecided(a) ==
  \/ a.kind = "when" /\ Len(a.right.words) > 1
  \/ a.kind \in {"relation", "when"} /\ \E o \in {a.left, a.right} : result_parts(o) # o
  \/ /\ a.kind = "relation" /\ a.right.kind = "figurative" /\ IsAlpha(a.left)
     /\ a.op \notin {"=", "!="}
  \/ /\ a.kind = "relation" /\ a.right.kind = "number" /\ a.right.java # a.right.value
     /\ a.left.class = "int"

\* Abbreviated relations and other words have no meaning here.
Meant(s) == ~Mentions(s, {"operand", "words"})

\* Conditions the lane takes: certified relations and names, no NOT before a
\* NOT or a parenthesis, names outside parentheses, and a NOT in a program
\* without names only in front of all of it.
Certified(s) ==
  /\ Meant(s)
  /\ \A i \in DOMAIN s :
       /\ s[i] = "NOT" => s[i + 1] \notin {"NOT", "("} /\ (declares88 \/ Len(s) = 2)
       /\ s[i] = "(" => s[i + 1] # "NOT" /\ ~Mentions(s, {"name"})
       /\ IsAtom(s[i]) => AtomTest[s[i]].java = "test"

\* The Java test of a condition that Java accepts holds exactly when the COBOL
\* condition does, whatever its ANDs, ORs, NOTs and parentheses and whichever
\* path mapped it; and a condition of certified relations is accepted
\* (map_cobol_condition_to_java, expand_condition_names).
DecidesAlike ==
  test # NotWritten /\ Meant(condition) =>
    /\ test.java = "test" =>
         \/ \E i \in DOMAIN condition : IsAtom(condition[i]) /\ Misdecided(Atoms[condition[i]])
         \/ test.when = CobolHolds(condition)
    /\ Certified(condition) => test.java = "test"
=============================================================================
