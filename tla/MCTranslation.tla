--------------------------- MODULE MCTranslation ---------------------------
(* The translation lane: run units for ControlFlow, source lines for       *)
(* StatementScopes, statements for Arithmetic.  A behaviour is about one   *)
(* of the three.                                                           *)
EXTENDS ControlFlow, StatementScopes, Arithmetic, TLC

VARIABLE about

(* Statements *)
St(op, f, n) == [op |-> op, f |-> f, n |-> n, then |-> <<>>, else |-> <<>>]
Of(form, after, first, last, n, body) ==
  [op |-> "PERFORM", form |-> form, after |-> after, first |-> first,
   last |-> last, n |-> n, then |-> body, else |-> <<>>]
If(t, e) == [op |-> "IF", then |-> t, else |-> e]
Call(args, modes) ==
  [op |-> "CALL", args |-> args, modes |-> modes, then |-> <<>>, else |-> <<>>]
Mark(p) == <<St("SET", 1, p), St("SHOW", 1, 0)>>
Shows == <<St("SHOW", 1, 0), St("SHOW", 2, 0)>>
Ends == {St("STOP", 0, 0), St("GOBACK", 0, 0), St("EXIT", 0, 0)}
Once(a, b) == Of("once", FALSE, a, b, 0, <<>>)

(* Main programs of three paragraphs: each form once, anywhere. *)
Performs == {Once(a, b) : a, b \in 1..3}
            \cup {Of("times", FALSE, a, b, 2, <<>>) : a, b \in 2..3}
            \cup {Of(f, t, a, a, 0, <<>>) :
                    f \in {"until", "varying"}, t \in BOOLEAN, a \in 2..3}
Bodies == {<<>>, Mark(9), <<Once(2, 3)>>, <<Of("until", TRUE, 3, 3, 0, <<>>)>>}
          \cup {<<e>> : e \in Ends}
Ifs == {If(b, <<>>) : b \in Bodies} \cup {If(Mark(8), <<e>>) : e \in Ends}
Inlines == {Of(f, t, 0, 0, 2, b) : f \in {"times", "until", "varying"}, t \in BOOLEAN,
              b \in {Mark(7), <<Once(2, 2)>>, <<St("EXIT", 0, 0)>>}}
FirstOf == {<<>>} \cup {<<s>> : s \in Ends \cup Ifs \cup Inlines \cup {St("GOTO", 0, 2)}
                                    \cup {p \in Performs : p.first <= p.last}}
SecondOf == {<<>>} \cup {<<Once(r[1], r[2])>> : r \in {<<1, 1>>, <<1, 3>>, <<3, 3>>, <<2, 3>>}}
            \cup {<<If(<<s>>, <<>>)>> : s \in {St("STOP", 0, 0), Once(3, 3), Once(1, 1)}}
Idle == [main |-> <<<<>>>>, sub |-> <<<<>>>>, linkage |-> FALSE]
FlowUnits ==
  {[Idle EXCEPT !.main = <<a \o Mark(1) \o z, b \o Mark(2) \o y, Mark(3) \o c>>] :
     a \in FirstOf, b \in SecondOf, z, c \in {<<>>, <<St("STOP", 0, 0)>>},
     y \in {<<>>, <<St("GOBACK", 0, 0)>>}}

(* Main programs that CALL one of two paragraphs or one. *)
SubStatements == {St("SET", 1, 5), St("SET", 2, 6), St("SHOW", 1, 0), St("SHOW", 2, 0)}
SubEnds == {<<>>} \cup {<<e>> : e \in Ends}
Subs == {<<<<x, y>> \o e>> : x, y \in SubStatements, e \in SubEnds}
        \cup {<<<<x>>, <<y>> \o e>> : x, y \in SubStatements, e \in SubEnds}
CallForms == {Call(<<>>, <<>>)}
             \cup {Call(a, <<x, y>>) : a \in {<<1, 2>>, <<2, 1>>, <<1, 1>>},
                                      x, y \in {"REFERENCE", "CONTENT"}}
Afters == {Shows, <<Call(<<>>, <<>>)>> \o Shows,
           <<Call(<<2, 1>>, <<"REFERENCE", "CONTENT">>)>> \o Shows}
CallUnits ==
  {[main |-> <<<<St("SET", 1, 1), St("SET", 2, 2), c>> \o tail>>,
    sub |-> s, linkage |-> l] :
     c \in CallForms, tail \in Afters, s \in Subs, l \in BOOLEAN}

MCUnits == FlowUnits \cup CallUnits \cup {Idle}
MCOutcomes == {<<TRUE>>, <<FALSE, FALSE, TRUE>>}

MCLayouts ==
  {<<"S">>, <<"IF">>, <<"IF", "S", "END-IF">>, <<"IF", "S", "ELSE", "S">>,
   <<"ELSE">>, <<"ELSE", "S">>, <<"ELSE", "S", "END-IF">>, <<"END-IF">>,
   <<"EVALUATE">>, <<"WHEN">>, <<"WHEN", "S">>, <<"END-EVALUATE">>,
   <<"PERFORM">>, <<"END-PERFORM">>, <<"READ">>, <<"READ", "AT-END", "S">>,
   <<"AT-END">>, <<"AT-END", "S", "END-READ">>, <<"NOT-AT-END", "S">>, <<"END-READ">>}

(* Arithmetic: numeric items, their VALUEs, and every statement form. *)
Pict(int, dec, signed) == [int |-> int, dec |-> dec, signed |-> signed, table |-> FALSE]
Items == [U |-> Pict(1, 0, FALSE), S |-> Pict(1, 0, TRUE), L |-> Pict(2, 0, TRUE),
          W |-> Pict(2, 0, FALSE), D |-> Pict(1, 1, TRUE), P |-> Pict(1, 1, FALSE),
          E |-> [Pict(1, 0, FALSE) EXCEPT !.table = TRUE]]
MCStorages ==
  {[mem |-> [U |-> v[1], S |-> v[2], L |-> v[3], W |-> 90 + v[1], D |-> v[4], P |-> 14, E |-> 8],
    text |-> v[5]] :
     v \in {<<0, -7, -95, 99, <<1, 2>>>>, <<9, 2, 40, 6, <<10, 7>>>>, <<3, -7, 0, -21, <<7, 10>>>>,
            <<9, 0, -95, 0, <<11, 0>>>>, <<3, 5, 64, -25, <<10, 10>>>>, <<9, -9, 40, 3, <<10, 3>>>>}}

Refs == {Ref(f) : f \in {"U", "S", "L", "D", "E"}}
Literals == {Lit(2, 0, 0), Lit(-3, 0, 0), Lit(15, 0, 1), Lit(5, 1, 0)}
Factors == Literals \cup {Lit(3, 0, 0), Lit(5, 0, 1), Lit(9, 0, 1), Lit(33, 0, 1), Lit(25, 0, 0)}
NoItem == [op |-> "none"]
Statement(verb, from, to, giving, rounded, rem, size) ==
  [verb |-> verb, from |-> from, to |-> to, giving |-> giving,
   rounded |-> rounded, rem |-> rem, size |-> size]
Gives == {"U", "L", "D", "P"}
Moves == {Statement("MOVE", <<e>>, NoItem, f, FALSE, "", FALSE) :
            e \in {[op |-> "text"]} \cup Refs \cup Literals \cup {Ref("P"), Ref("W")}, f \in Gives \cup {"E", "S", "W"}}
         \cup {Statement("MOVE", <<e>>, NoItem, "X", FALSE, "", FALSE) : e \in Refs \cup {Lit(2, 0, 0), Lit(-3, 0, 0), Lit(5, 0, 1), Ref("W")}}
Sums == {Statement(v, from, to, g, r, "", z) :
           v \in {"ADD", "SUBTRACT"}, to \in {Ref("S"), Ref("L"), Ref("D")}, r, z \in BOOLEAN, g \in {"", "U", "P"},
           from \in {<<x>> : x \in Refs \cup Literals} \cup {<<Ref("L"), x>> : x \in {Ref("W"), Ref("U"), Ref("E"), Lit(5, 1, 0)}}}
        \cup {Statement("ADD", <<x, y>>, NoItem, g, FALSE, "", z) :
                x \in Refs, y \in Literals \cup {Ref("S")}, g \in Gives, z \in BOOLEAN}
        \cup {Statement("SUBTRACT", <<x>>, Lit(2, 0, 0), g, FALSE, "", z) : x \in Refs, g \in Gives \cup {""}, z \in BOOLEAN}
GivenLiteral == {Statement(v, <<x>>, to, g, r, "", z) :
                   v \in {"ADD", "MULTIPLY"}, x \in Refs \cup Literals \cup {Ref("W")}, to \in Factors,
                   g \in Gives, r, z \in BOOLEAN}
Products == {Statement("MULTIPLY", <<x>>, to, g, r, "", z) :
               x \in Refs \cup Literals, to \in {Ref("S"), Ref("L"), Ref("D"), Ref("E")}, g \in Gives \cup {""}, r, z \in BOOLEAN}
Quotients == {Statement(v, <<x>>, y, g, r, m, z) :
                v \in {"BY", "INTO"}, x, y \in {Ref("U"), Ref("S"), Ref("L"), Ref("D"), Lit(2, 0, 0), Lit(0, 0, 0)},
                g \in {"S", "L", "D"}, r, z \in BOOLEAN, m \in {"", "L", "P"}}
             \cup {Statement("INTO", <<x>>, y, "", r, m, z) : x \in Literals \cup {Ref("S")}, y \in {Ref("L"), Ref("D"), Ref("P")},
                      r, z \in BOOLEAN, m \in {"", "S"}}
Trees == LET X == {Ref("U"), Ref("S"), Ref("L"), Ref("D"), Lit(2, 0, 0)}
             Two == {Bin(op, x, y) : op \in {"+", "-", "*", "/"}, x \in {Ref("U"), Ref("S"), Ref("L")}, y \in X}
         IN {Bin(op, t, y) : op \in {"+", "-", "*", "/"}, t \in Two, y \in {Ref("S"), Ref("L")}}
            \cup {Bin(op, y, t) : op \in {"-", "/"}, t \in Two, y \in {Ref("W")}}
            \cup {Bin(op, Neg(x), y) : op \in {"+", "*"}, x \in X, y \in X} \cup X
Computations == {Statement("COMPUTE", <<t>>, NoItem, g, r, "", z) : t \in Trees, g \in {"U", "L"}, r, z \in BOOLEAN}
MCWritten == Moves \cup Sums \cup GivenLiteral \cup Products \cup Quotients \cup Computations

ArithIdle == ArithInit /\ before.text = <<1, 2>>
FlowIdle == unit = Idle /\ outcomes = <<TRUE>> /\ FlowInit
MCInit == \/ about = "flow" /\ FlowInit /\ ScopesInit /\ ArithIdle
          \/ about = "scopes" /\ ScopesInit /\ FlowIdle /\ ArithIdle
          \/ about = "arithmetic" /\ ArithInit /\ FlowIdle /\ ScopesInit
MCNext ==
  \/ about = "flow" /\ FlowNext /\ UNCHANGED <<scopeVars, arithVars, about>>
  \/ about = "scopes" /\ ScopesNext /\ UNCHANGED <<flowVars, arithVars, about>>
  \/ about = "arithmetic" /\ ArithNext /\ UNCHANGED <<flowVars, scopeVars, about>>
MCSpec == MCInit /\ [][MCNext]_<<flowVars, scopeVars, arithVars, about>>
=============================================================================
