--------------------------- MODULE StatementScopes ---------------------------
(***************************************************************************)
(* Which statement belongs to which scope: CobolParser's reading of IF,    *)
(* EVALUATE, inline PERFORM and the clauses of READ, line by line, against *)
(* COBOL's own rules, token by token.                                      *)
(*                                                                         *)
(* The source is a sequence of lines, a line a sequence of tokens: S is a  *)
(* statement without a scope of its own, a period ends its line, and the   *)
(* layouts of a line are those the parser's comments name.  A statement is *)
(* known by its line and position.                                         *)
(***************************************************************************)
EXTENDS Integers, Sequences, FiniteSets

CONSTANTS Layouts,     \* the lines without a period
          MaxSource    \* bound: lines of the source

VARIABLES source,      \* the lines written so far
          reading        \* COBOL's reading of them
scopeVars == <<source, reading>>

Scope(kind, at, branch) == [kind |-> kind, at |-> at, branch |-> branch]
(* A statement and, outermost first, the scopes and branches it is in. *)
Placed(id, stack) ==
  [id |-> id, path |-> [i \in DOMAIN stack |-> <<stack[i].at, stack[i].branch>>]]

-----------------------------------------------------------------------------
(* COBOL: one token moves the innermost scope                              *)

Closes == {<<"END-IF", "IF">>, <<"END-EVALUATE", "EVALUATE">>,
           <<"END-PERFORM", "PERFORM">>, <<"END-READ", "READ">>}
NeedsBody == {"IF", "ELSE", "EVALUATE", "WHEN", "PERFORM", "AT-END", "NOT-AT-END"}
Innermost(stack) == IF stack = <<>> THEN Scope("none", <<>>, {}) ELSE stack[Len(stack)]
Outer(stack) == SubSeq(stack, 1, Len(stack) - 1)
InBranch(stack, b) == [stack EXCEPT ![Len(stack)].branch = b]

(* ended: the tokens that ended statements inside the one they belong to. *)
Reading(ok, stack, prev, places, ended) ==
  [ok |-> ok, open |-> stack, before |-> prev, places |-> places, ended |-> ended]
Invalid == Reading(FALSE, <<>>, "", {}, {})

(* A READ without a clause is over unless the next token is one of its own. *)
WithoutBareRead(r, t) ==
  IF Innermost(r.open).kind = "READ" /\ Innermost(r.open).branch = {}
     /\ t \notin {"AT-END", "NOT-AT-END", "END-READ"}
  THEN [r EXCEPT !.open = Outer(@)] ELSE r

(* The open statements a phrase or terminator can belong to. *)
Takes(scope, t, before) ==
  \/ t = "ELSE" /\ scope.kind = "IF" /\ scope.branch = {"first"}
  \/ t = "WHEN" /\ scope.kind = "EVALUATE"
  \/ t = "AT-END" /\ scope.kind = "READ" /\ scope.branch = {} /\ before = "READ"
  \/ t = "NOT-AT-END" /\ scope.kind = "READ" /\ scope.branch \in {{}, {"AT-END"}}
  \/ <<t, scope.kind>> \in Closes

(* It belongs to the innermost of them and ends what that one contains, but *)
(* for an inline PERFORM.                                                   *)
Owners(r, t) ==
  {k \in DOMAIN r.open :
     /\ Takes(r.open[k], t, r.before)
     /\ \A j \in k+1..Len(r.open) : ~Takes(r.open[j], t, r.before) /\ r.open[j].kind # "PERFORM"}

Token(r0, t, id) ==
  LET r == WithoutBareRead(r0, t)
      full == r.before \notin NeedsBody
      on(stack) == Reading(TRUE, stack, t, r.places, r.ended)
      statement(stack) == Reading(TRUE, stack, t, r.places \cup {Placed(id, r.open)}, r.ended)
      may == full \/ (t = "WHEN" /\ r.before \in {"WHEN", "EVALUATE"})
      branch(scope) == CASE t = "ELSE" -> {"else"}
                         [] t = "WHEN" -> IF r.before = "WHEN" THEN scope.branch \cup {id} ELSE {id}
                         [] OTHER -> {t}
  IN
  IF ~r.ok \/ (r.before = "EVALUATE" /\ t # "WHEN") THEN Invalid
  ELSE IF t = "S" THEN statement(r.open)
  ELSE IF t = "READ" THEN statement(Append(r.open, Scope("READ", id, {})))
  ELSE IF t \in {"IF", "EVALUATE", "PERFORM"}
  THEN on(Append(r.open, Scope(t, id, {"first"})))
  ELSE IF t = "." /\ full /\ \A i \in DOMAIN r.open : r.open[i].kind # "PERFORM"
  THEN on(<<>>)
  ELSE IF may /\ Owners(r, t) # {}
  THEN LET k == CHOOSE k \in Owners(r, t) : TRUE
           kept == SubSeq(r.open, 1, k)
           moved == IF <<t, r.open[k].kind>> \in Closes THEN Outer(kept)
                    ELSE InBranch(kept, branch(r.open[k]))
       IN [on(moved) EXCEPT !.ended = @ \cup (IF k < Len(r.open) THEN {t} ELSE {})]
  ELSE Invalid

(* A line, its tokens one after the other. *)
Line(r, line, at) ==
  LET after[n \in 0..Len(line)] ==
        IF n = 0 THEN r ELSE Token(after[n - 1], line[n], <<at, n>>)
  IN  after[Len(line)]

-----------------------------------------------------------------------------
(* CobolParser: recursive descent over lines                               *)

Has(line, t) == \E n \in DOMAIN line : line[n] = t
(* _ends_sentence *)
ends_sentence(i) == i \in DOMAIN source /\ source[i] # <<>> /\ Has(source[i], ".")
Opens(i, t) == source[i][1] = t

(* What a parse function returns: the next line, the statements it placed, *)
(* and whether it raised a diagnostic.                                     *)
Parsed(next, places, refused) == [next |-> next, places |-> places, refused |-> refused]
Then(p, q) == Parsed(q.next, p.places \cup q.places, p.refused \/ q.refused)

(* _parse_inline_statements: the S tokens of line i from position n up to, *)
(* but not including, position m.                                          *)
parse_inline_statements(i, n, m, path) ==
  {Placed(<<i, k>>, path) : k \in {j \in n..m-1 : source[i][j] = "S"}}

Position(i, t) == IF Has(source[i], t)
                  THEN CHOOSE n \in DOMAIN source[i] : source[i][n] = t
                  ELSE Len(source[i]) + 1

RECURSIVE parse_statement(_, _), IfBody(_, _, _), EvaluateArms(_, _),
          ArmBody(_, _, _), PerformBody(_, _), ClauseBodies(_, _, _)

(* _parse_statement: by the first word of the line; what opens no          *)
(* statement is skipped, with a diagnostic unless it is a scope terminator.*)
parse_statement(i, path) ==
  LET line == source[i]
      within(kind, branch) == Append(path, Scope(kind, <<i, 1>>, branch))
  IN
  IF line[1] = "S" THEN Parsed(i + 1, {Placed(<<i, 1>>, path)}, FALSE)
  ELSE IF line[1] = "IF"
  THEN \* _parse_if: what stands on its own line first
    LET thenPart == parse_inline_statements(i, 2, Position(i, "ELSE"), within("IF", {"first"}))
        elsePart == parse_inline_statements(i, Position(i, "ELSE"), Len(line) + 1,
                                        within("IF", {"else"}))
        last == IF Has(line, "ELSE") THEN elsePart ELSE thenPart
        closed == Has(line, "END-IF") \/ (last # {} /\ ends_sentence(i))
        here == Parsed(i + 1, thenPart \cup elsePart, FALSE)
    IN IF closed THEN here
       ELSE Then(here, IfBody(i + 1, path,
              Scope("IF", <<i, 1>>, IF Has(line, "ELSE") THEN {"else"} ELSE {"first"})))
  ELSE IF line[1] = "EVALUATE" THEN EvaluateArms(i + 1, within("EVALUATE", {}))
  ELSE IF line[1] = "PERFORM" THEN PerformBody(i + 1, within("PERFORM", {"first"}))
  ELSE IF line[1] = "READ"
  THEN \* _parse_read and _collect_file_clauses: the clauses of its line first
    LET atEnd == Position(i, "AT-END")  notAtEnd == Position(i, "NOT-AT-END")
        here == Parsed(i + 1,
          {Placed(<<i, 1>>, path)}
            \cup parse_inline_statements(i, atEnd, notAtEnd, within("READ", {"AT-END"}))
            \cup parse_inline_statements(i, notAtEnd, Len(line) + 1,
                                         within("READ", {"NOT-AT-END"})), FALSE)
        section == IF Has(line, "NOT-AT-END") THEN {"NOT-AT-END"}
                   ELSE IF Has(line, "AT-END") THEN {"AT-END"} ELSE {}
    IN IF Has(line, "END-READ") \/ ends_sentence(i) THEN here
       ELSE Then(here, ClauseBodies(i + 1, path, Scope("READ", <<i, 1>>, section)))
  ELSE Parsed(i + 1, {}, line[1] \notin {c[1] : c \in Closes})

(* mutant: the child's period ends the child only *)
IfBody_period_ends_child(i, path, scope) ==
  IF i > Len(source) THEN Parsed(i, {}, FALSE)
  ELSE IF Opens(i, "ELSE")
  THEN Then(Parsed(i + 1, parse_inline_statements(i, 2, Len(source[i]) + 1,
                      Append(path, [scope EXCEPT !.branch = {"else"}])), FALSE),
            IfBody(i + 1, path, [scope EXCEPT !.branch = {"else"}]))
  ELSE IF Opens(i, "END-IF") THEN Parsed(i + 1, {}, FALSE)
  ELSE LET child == parse_statement(i, Append(path, scope))
       IN  Then(child, IfBody(child.next, path, scope))

(* _parse_if: the lines up to ELSE, END-IF or a period. *)
IfBody(i, path, scope) ==
  IF i > Len(source) THEN Parsed(i, {}, FALSE)
  ELSE IF Opens(i, "ELSE")
  THEN LET els == [scope EXCEPT !.branch = {"else"}]
           inline == parse_inline_statements(i, 2, Len(source[i]) + 1, Append(path, els))
           here == Parsed(i + 1, inline, FALSE)
       IN IF inline # {} /\ (Has(source[i], "END-IF") \/ ends_sentence(i)) THEN here
          ELSE Then(here, IfBody(i + 1, path, els))
  ELSE IF Opens(i, "END-IF") THEN Parsed(i + 1, {}, FALSE)
  ELSE LET child == parse_statement(i, Append(path, scope))
       IN IF ends_sentence(child.next - 1) THEN child
          ELSE Then(child, IfBody(child.next, path, scope))

(* _parse_evaluate: arm after arm; lines outside an arm are passed over.   *)
EvaluateArms(i, path) ==
  IF i > Len(source) THEN Parsed(i, {}, FALSE)
  ELSE IF Opens(i, "END-EVALUATE") THEN Parsed(i + 1, {}, FALSE)
  ELSE IF ~Opens(i, "WHEN") THEN EvaluateArms(i + 1, path)
  ELSE LET arm == InBranch(path, {<<i, 1>>})
           inline == parse_inline_statements(i, 2, Len(source[i]) + 1, arm)
           here == Parsed(i + 1, inline, FALSE)
       IN IF inline # {} /\ ends_sentence(i) THEN here
          ELSE Then(here, ArmBody(i + 1, path, arm))

ArmBody(i, path, arm) ==
  IF i > Len(source) THEN Parsed(i, {}, FALSE)
  ELSE IF Opens(i, "WHEN") \/ Opens(i, "END-EVALUATE") THEN EvaluateArms(i, path)
  ELSE LET child == parse_statement(i, arm)
       IN IF ends_sentence(child.next - 1) THEN child
          ELSE Then(child, ArmBody(child.next, path, arm))

(* _parse_perform: an inline body up to END-PERFORM. *)
PerformBody(i, path) ==
  IF i > Len(source) THEN Parsed(i, {}, FALSE)
  ELSE IF Opens(i, "END-PERFORM") THEN Parsed(i + 1, {}, FALSE)
  ELSE LET child == parse_statement(i, path)
       IN Then(child, PerformBody(child.next, path))

(* _collect_file_clauses: the lines after the verb's. *)
ClauseBodies(i, path, scope) ==
  IF i > Len(source) THEN Parsed(i, {}, scope.branch # {})
  ELSE IF Opens(i, "END-READ") THEN Parsed(i + 1, {}, FALSE)
  ELSE IF Opens(i, "AT-END") \/ Opens(i, "NOT-AT-END")
  THEN LET clause == [scope EXCEPT !.branch = {source[i][1]}]
           here == Parsed(i + 1, parse_inline_statements(i, 2, Len(source[i]) + 1,
                                                         Append(path, clause)), FALSE)
       IN IF Has(source[i], "END-READ") \/ ends_sentence(i) THEN here
          ELSE Then(here, ClauseBodies(i + 1, path, clause))
  ELSE IF scope.branch = {} THEN Parsed(i, {}, FALSE)
  ELSE LET child == parse_statement(i, Append(path, scope))
       IN IF ends_sentence(i) THEN child
          ELSE Then(child, ClauseBodies(child.next, path, scope))

(* _parse_procedure_division: statement after statement. *)
RECURSIVE parse_procedure_division(_)
parse_procedure_division(i) ==
  IF i > Len(source) THEN Parsed(i, {}, FALSE)
  ELSE LET first == parse_statement(i, <<>>)
       IN Then(first, parse_procedure_division(first.next))

-----------------------------------------------------------------------------
ScopesInit == source = <<>> /\ reading = Reading(TRUE, <<>>, ".", {}, {})

(* The programmer writes one more line of valid COBOL. *)
WriteLine(line) ==
  /\ Len(source) < MaxSource
  /\ reading' = Line(reading, line, Len(source) + 1)
  /\ reading'.ok
  /\ source' = Append(source, line)

ScopesNext == \E line \in Layouts : WriteLine(line) \/ WriteLine(Append(line, "."))
ScopesSpec == ScopesInit /\ [][ScopesNext]_scopeVars

-----------------------------------------------------------------------------
(* Properties                                                              *)

Complete == reading.open = <<>> /\ reading.before = "."
Parse == parse_procedure_division(1)

(* Three forms the parser reads differently, each left out by name below.    *)
(* WHENs stacked on lines of their own: the first is an arm with no body.  *)
StackedWhens == \E i \in 1..Len(source)-1 : source[i] = <<"WHEN">> /\ Opens(i + 1, "WHEN")

(* A period that ends a READ from inside a scope opened on an earlier line *)
(* of its clause: only the scope's first line is tested for the period.    *)
Readings == LET after[n \in 0..Len(source)] ==
                  IF n = 0 THEN Reading(TRUE, <<>>, ".", {}, {})
                  ELSE Line(after[n - 1], source[n], n)
            IN  after
PeriodInsideClause ==
  \E i \in 1..Len(source) :
     /\ ends_sentence(i)
     /\ LET open == Readings[i - 1].open
        IN  \E k \in 1..Len(open)-1 : open[k].kind = "READ"

(* Statements ended by a phrase or a terminator of one that contains them:  *)
(* the parser gives the token to the innermost statement, or skips it.      *)
EndedFromOutside == reading.ended # {}

(* Every statement of a complete source is in the scopes and branches COBOL *)
(* puts it in: none is swallowed by an earlier scope, dropped, or moved out *)
(* of its own, and no scope terminator, ELSE, WHEN or clause header is left *)
(* over for the dispatcher to refuse (_parse_statement and the parsers of   *)
(* the compound statements).                                                *)
ScopesAsWritten ==
  (Complete /\ ~StackedWhens /\ ~PeriodInsideClause /\ ~EndedFromOutside)
    => ~Parse.refused /\ Parse.places = reading.places
=============================================================================
