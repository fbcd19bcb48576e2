--------------------------- MODULE MCStatements ---------------------------
(* What statements do to the program's data: file statements for FileIo,   *)
(* the condition of an IF or EVALUATE for Conditions, the verbs that move  *)
(* characters for TextStorage.  A behaviour is about one of the three.     *)
EXTENDS FileIo, Conditions, TextStorage, TLC

VARIABLE about

(* File statements: a one-character key and one character of data. *)
MCRecords == {<<0, 0>>, <<0, 1>>, <<1, 0>>, <<1, 1>>, <<2, 1>>}

(* Conditions: every kind of relation alone, four words in every compound. *)
Field(name, class, width) == [kind |-> "item", name |-> name, class |-> class, width |-> width]
Quoted(quote, words) == [kind |-> "literal", quote |-> quote, words |-> words, text |-> Spaced(words)]
Plain(text) == [is |-> "plain", text |-> text]
Literal(text) == [kind |-> "literal", quote |-> "single", words |-> <<Plain(text)>>, text |-> text]
Number(value, literal) == [kind |-> "number", value |-> value, java |-> literal]
Figurative(char) == [kind |-> "figurative", char |-> char]
ItemN == Field("N", "int", 0)
ItemF == Field("F", "int", 0)
ItemD == Field("D", "decimal", 0)
ItemX == Field("X", "alpha", 6)
ItemY == Field("Y", "alpha", 1)
ItemG == Field("G", "group", 0)
UpperA == 65
UpperB == 66
WordA == Plain(<<UpperA>>)
WordB == Plain(<<UpperB>>)
NoWord == Plain(<<>>)
BDashC == [is |-> "dashed", text |-> <<UpperB, 45, 67>>]
WordOr == [is |-> "or", text |-> <<79, 82>>]
WordNot == [is |-> "not", text |-> <<78, 79, 84>>]
WordZero == [is |-> "zero", text |-> <<90, 69, 82, 79>>]
WordSpace == [is |-> "fill", text |-> <<83, 80, 65, 67, 69>>]
LowerA == 97
Rel(l, op, not, r) == [kind |-> "relation", left |-> l, op |-> op, not |-> not, right |-> r]
When(l, subject, quote) == [kind |-> "when", left |-> l, subject |-> subject, right |-> [quote |-> quote]]
Sign(l, op, not) == [kind |-> "sign", left |-> l, op |-> op, not |-> not]
Within(l, low, high) == [kind |-> "range", left |-> l, low |-> low, high |-> high]
Term(low, high) == [low |-> low, high |-> high]
NameOf(parent, terms) == [kind |-> "name", parent |-> parent, terms |-> terms]
One == Number(10, 10)
MCAtoms ==
  ("N = 1" :> Rel(ItemN, "=", FALSE, One)) @@ ("F NOT = 1" :> Rel(ItemF, "=", TRUE, One))
  @@ ("X = 'A'" :> Rel(ItemX, "=", FALSE, Literal(<<UpperA>>))) @@ ("D > 1" :> Rel(ItemD, ">", FALSE, One))
  @@ ("FLAG" :> NameOf(ItemF, <<Term(One, One)>>)) @@ ("2" :> [kind |-> "operand"])
  @@ ("N IS EQUAL TO 1" :> [kind |-> "words"])
  @@ ("N = 010" :> Rel(ItemN, "=", FALSE, Number(100, 80))) @@ ("N = 08" :> Rel(ItemN, "=", FALSE, Number(80, -1)))
  @@ ("D = 010" :> Rel(ItemD, "=", FALSE, Number(100, 80)))
  @@ ("N NOT < 8" :> Rel(ItemN, "<", TRUE, Number(80, 80))) @@ ("D <= N" :> Rel(ItemD, "<=", FALSE, ItemN))
  @@ ("N > D" :> Rel(ItemN, ">", FALSE, ItemD)) @@ ("N = 0.5" :> Rel(ItemN, "=", FALSE, Number(5, 5)))
  @@ ("X NOT > Y" :> Rel(ItemX, ">", TRUE, ItemY)) @@ ("Y < X" :> Rel(ItemY, "<", FALSE, ItemX))
  @@ ("Y = 'A '" :> Rel(ItemY, "=", FALSE, Quoted("single", <<WordA, NoWord>>)))
  @@ ("Y < 'AA'" :> Rel(ItemY, "<", FALSE, Literal(<<UpperA, UpperA>>)))
  @@ ("X >= 'A'" :> Rel(ItemX, ">=", FALSE, Literal(<<UpperA>>)))
  @@ ("X = SPACES" :> Rel(ItemX, "=", FALSE, Figurative(Space)))
  @@ ("X NOT = ZERO" :> Rel(ItemX, "=", TRUE, Figurative(Zero)))
  @@ ("X > SPACES" :> Rel(ItemX, ">", FALSE, Figurative(Space)))
  @@ ("X > ZERO" :> Rel(ItemX, ">", FALSE, Figurative(Zero)))
  @@ ("N = ZERO" :> Rel(ItemN, "=", FALSE, Figurative(Zero))) @@ ("D > ZERO" :> Rel(ItemD, ">", FALSE, Figurative(Zero)))
  @@ ("N = SPACES" :> Rel(ItemN, "=", FALSE, Figurative(Space)))
  @@ ("X = N" :> Rel(ItemX, "=", FALSE, ItemN)) @@ ("G = 'A'" :> Rel(ItemG, "=", FALSE, Literal(<<UpperA>>)))
  @@ ("N IS NOT POSITIVE" :> Sign(ItemN, "POSITIVE", TRUE)) @@ ("D IS NEGATIVE" :> Sign(ItemD, "NEGATIVE", FALSE))
  @@ ("D IS NOT ZERO" :> Sign(ItemD, "ZERO", TRUE))
  @@ ("N WHEN 1 THRU 8" :> Within(ItemN, One, Number(80, 80))) @@ ("D WHEN 1 THRU 8" :> Within(ItemD, One, Number(80, 80)))
  @@ ("D WHEN 0.5 THRU 8" :> Within(ItemD, Number(5, 5), Number(80, 80)))
  @@ ("LARGE" :> NameOf(ItemN, <<Term(Number(80, -1), Number(100, 80)), Term(Number(0, 0), Number(0, 0))>>))
  @@ ("LETTER" :> NameOf(ItemX, <<Term(Literal(<<UpperA>>), Literal(<<UpperA, UpperA>>)), Term(Figurative(Space), Figurative(Space))>>))
  @@ ("RATE" :> NameOf(ItemD, <<Term(One, One)>>)) @@ ("ODD" :> NameOf(ItemX, <<Term(One, One)>>))
(* Literals of several words, or of words the code looks for.              *)
MCWords ==
  ("A B" :> <<WordA, WordB>>) @@ ("A  B" :> <<WordA, NoWord, WordB>>) @@ ("A B-C" :> <<WordA, BDashC>>) @@ ("B-C" :> <<BDashC>>)
  @@ ("A OR B" :> <<WordA, WordOr, WordB>>) @@ ("NOT A" :> <<WordNot, WordA>>) @@ ("A " :> <<WordA, NoWord>>)
  @@ ("ZERO" :> <<WordZero>>) @@ ("A ZERO" :> <<WordA, WordZero>>) @@ ("SPACE" :> <<WordSpace>>) @@ ("A SPACE" :> <<WordA, WordSpace>>)
  @@ (" " :> <<NoWord, NoWord>>) @@ (" A" :> <<NoWord, WordA>>) @@ ("A" :> <<WordA>>)
ItemWith(op, quote) == Rel(ItemX, op, FALSE, [quote |-> quote])
MCForms ==
  ("X = single " :> ItemWith("=", "single")) @@ ("X = double " :> ItemWith("=", "double")) @@ ("X < double " :> ItemWith("<", "double"))
  @@ ("X WHEN single " :> When(ItemX, Plain(<<88>>), "single")) @@ ("X WHEN double " :> When(ItemX, Plain(<<88>>), "double"))
Each(forms, words) ==
  [n \in {f \o w : f \in DOMAIN forms, w \in DOMAIN words} |->
     LET p == CHOOSE q \in (DOMAIN forms) \X (DOMAIN words) : q[1] \o q[2] = n
     IN [forms[p[1]] EXCEPT !.right = Quoted(@.quote, words[p[2]])]]
MCLiterals ==
  Each(MCForms, MCWords) @@ ("double A  B = X" :> Rel(Quoted("double", <<WordA, NoWord, WordB>>), "=", FALSE, ItemX))
MCConditions == MCAtoms @@ MCLiterals
Simple == {"N = 1", "X = 'A'", "FLAG", "2"}
MCAlone == DOMAIN MCConditions \ Simple
Wide(t) == Padded(t, 6)
MCEnvs ==
  [N : {0, 10}, F : {0, 10}, D : {5, 15}, X : {Wide(<<>>), Wide(<<UpperA>>)}, Y : {<<UpperA>>}]
  \cup [N : {0}, F : {0}, D : {5}, Y : {<<UpperA>>, <<Space>>},
        X : {Wide(<<>>), Wide(<<UpperA>>), Wide(<<UpperA, UpperA>>), Wide(<<LowerA>>), Wide(<<Zero>>), [i \in 1..6 |-> Zero],
             Wide(<<33, UpperA>>)} \cup {Wide(Spaced(MCWords[n])) : n \in DOMAIN MCWords}]
  \cup [N : {-10, 0, 10, 80, 100}, F : {0}, D : {-5, 0, 5, 100}, X : {Wide(<<>>)}, Y : {<<UpperA>>}]

(* Characters: DATA DIVISIONs and the statements tried on each. *)
Datum(n) == [kind |-> "data", name |-> n, text |-> <<>>]
Txt(t) == [kind |-> "literal", name |-> "", text |-> t]
Fig(t) == [kind |-> "figurative", name |-> "", text |-> t]
Num(t) == [kind |-> "number", name |-> "", text |-> t]
X(w, v) == [num |-> FALSE, signed |-> FALSE, width |-> w, value |-> v]
N(w, v) == [num |-> TRUE, signed |-> FALSE, width |-> w, value |-> v]
In(n) == [name |-> n, text |-> <<>>]
Gap(t) == [name |-> "", text |-> t]
Apart == [item |-> [A |-> X(2, Txt(<<"a", "b">>)), B |-> X(3, Txt(<<"c">>)), P |-> N(1, Txt(<<"2">>)), D |-> N(2, Txt(<<"7">>)),
                    C |-> X(2, Fig(<<"x", "y">>))],
          group |-> [G |-> <<In("A"), In("C")>>, H |-> <<In("P"), Gap(<<"-">>), In("D")>>, O |-> <<In("G"), In("B")>>],
          redefines |-> [x \in {} |-> ""]]
Date == [item |-> [R |-> X(3, Txt(<<"1", "2", "3">>)), V |-> X(2, Txt(<<>>)), Y |-> N(1, Txt(<<>>)), Z |-> N(2, Txt(<<>>)), A |-> X(2, Txt(<<"9">>)), D |-> N(2, Txt(<<"8">>))],
         group |-> [W |-> <<In("Y"), In("Z")>>, K |-> <<In("R"), In("V"), In("A")>>],
         redefines |-> ("V" :> "R") @@ ("W" :> "R")]
DateText == [Date EXCEPT !.item = [@ EXCEPT !.Y = X(1, Txt(<<>>)), !.Z = X(1, Txt(<<>>)), !.R = X(3, Fig(<<" ">>))],
                      !.group = [@ EXCEPT !.W = <<In("Y"), Gap(<<"*">>), In("Z")>>]]
TooWide == [Date EXCEPT !.item.Z = N(3, Txt(<<>>))]
NotDigits == [Date EXCEPT !.item.R.value = Txt(<<"1", "x">>)]
MCLayouts == [apart |-> Apart, date |-> Date, dateText |-> DateText, tooWide |-> TooWide, notDigits |-> NotDigits]
Move(s, into) == [verb |-> "MOVE", from |-> s, into |-> into]
Phrase(f, by) == [from |-> f, by |-> by]
Str(ps, to, p, with, c) == [verb |-> "STRING", phrases |-> ps, to |-> to, pointer |-> p, with |-> with, clause |-> c]
Unstr(f, by, into, c) == [verb |-> "UNSTRING", from |-> f, by |-> by, into |-> into, clause |-> c]
On(v, x) == [verb |-> v, to |-> x]
SetTo(x, v) == [verb |-> "SET", to |-> x, from |-> v]
Constants == {Txt(<<"b", " ", "2">>), Txt(<<"4", "5", "6", "7">>), Fig(<<" ">>), Fig(<<"0">>), Fig(<<"a", ",">>), Num(<<"7">>), Num(<<"1","0">>)}
Sources(l) == Constants \cup {Datum(x) : x \in DOMAIN MCLayouts[l].item \cup DOMAIN MCLayouts[l].group}
Numeric(l) == {s \in Sources(l) : s.kind = "number" \/ s = Fig(<<"0">>) \/ (s.kind = "data" /\ s.name \in DOMAIN MCLayouts[l].item /\ MCLayouts[l].item[s.name].num)}
Moves(l) == LET d == MCLayouts[l] IN
  UNION {{Move(s, <<x>>) : s \in IF x \in DOMAIN d.item /\ d.item[x].num THEN Numeric(l) \cup {Datum(g) : g \in DOMAIN d.group} ELSE Sources(l)} : x \in DOMAIN d.item \cup DOMAIN d.group}
Strings == {Str(<<Phrase(f, by), Phrase(g, cy)>>, to, p, w, "") : f, g \in {Datum("A"), Datum("D"), Txt(<<"b", " ", "2">>)}, by, cy \in {"SIZE", " ", "b", ""}, to \in {"B", "C"}, p \in {"", "P"}, w \in BOOLEAN}
   \cup {Str(<<Phrase(f, "SIZE")>>, "B", "", FALSE, c) : f \in {Datum("G"), Num(<<"7">>), Datum("A")}, c \in {"", "ON OVERFLOW"}}
Unstrings == {Unstr(f, by, into, c) : f \in {Datum("B"), Datum("D"), Txt(<<"b", ",", ",", "a", "b", "c">>)}, by \in {",", "b", " ", ""}, into \in {<<"A">>, <<"A", "C">>, <<"C", "A", "C">>, <<"D", "A">>, <<"G">>}, c \in {"", "POINTER", "WITH POINTER", "TALLYING IN"}}
MCTexts == [l \in DOMAIN MCLayouts |-> Moves(l) \cup {On(v, x) : v \in {"INITIALIZE", "ACCEPT"}, x \in DOMAIN MCLayouts[l].item \cup DOMAIN MCLayouts[l].group}
   \cup (IF l = "apart" THEN Strings \cup Unstrings \cup {SetTo("A", Txt(<<"p">>)), SetTo("D", Num(<<"1","2","3">>)), SetTo("C", Fig(<<"0">>)), Move(Datum("D"), <<"A", "P">>), Move(Datum("B"), <<"G", "A">>)}
       ELSE {Unstr(Txt(<<"b", ",", "4">>), ",", <<"A", "V">>, ""), Str(<<Phrase(Datum("A"), "SIZE")>>, "R", "", FALSE, ""), Move(Num(<<"5">>), <<"V", "D">>), Move(Datum("A"), <<"V", "R">>), Move(Num(<<"7">>), <<"R", "Z">>)})]
MCInput == <<<<"3", ".", "5">>, <<" ", "+", "4">>, <<"1", "x">>, <<"a", "b", "c", "d">>, <<"6">>>>
FilesIdle == org = "LINE" /\ Init
ConditionIdle == condition = <<"NOT">> /\ declares88 = TRUE /\ test = NotWritten
TextIdle == layout = "tooWide" /\ TextInit
MCInit == \/ about = "files" /\ Init /\ ConditionIdle /\ TextIdle
          \/ about = "conditions" /\ ConditionInit /\ FilesIdle /\ TextIdle
          \/ about = "texts" /\ TextInit /\ FilesIdle /\ ConditionIdle
MCNext ==
  \/ about = "files" /\ Next /\ UNCHANGED <<conditionVars, textVars, about>>
  \/ about = "conditions" /\ ConditionNext /\ UNCHANGED <<vars, textVars, about>>
  \/ about = "texts" /\ TextNext /\ UNCHANGED <<vars, conditionVars, about>>
MCSpec == MCInit /\ [][MCNext]_<<vars, conditionVars, textVars, about>>
=============================================================================
