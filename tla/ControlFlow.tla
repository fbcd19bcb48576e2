----------------------------- MODULE ControlFlow -----------------------------
(***************************************************************************)
(* A COBOL run unit and the Java the mapper makes of it, run side by side. *)
(* A unit is a main program and a program it CALLs; a program is a         *)
(* sequence of paragraphs, a paragraph a sequence of statements of the     *)
(* intermediate form.  The COBOL machine is the oracle's (external); the   *)
(* Java machine gives each statement the meaning of the Java the mapper    *)
(* emits for it: paragraphs are methods, PERFORM is a call, STOP RUN and   *)
(* GOBACK are returns.                                                     *)
(*                                                                         *)
(* Statements: SHOW f and SET f v on one of two fields, IF, PERFORM in its *)
(* forms (of a range of paragraphs, or of an inline body), CALL with two   *)
(* arguments or none, STOP, GOBACK, EXIT (EXIT PROGRAM), GOTO.  The n-th   *)
(* condition a run evaluates has the n-th value of "outcomes".             *)
(***************************************************************************)
EXTENDS Integers, Sequences, FiniteSets

CONSTANTS Units,       \* run units: records main, sub, linkage
          Outcomes,    \* sequences of condition values
          MaxSteps     \* bound: steps of the COBOL run that is compared

VARIABLES unit, outcomes,
          cobol,       \* the oracle's run of the unit
          java         \* the generated program's run
flowVars == <<unit, outcomes, cobol, java>>

Outcome(n) == IF n <= Len(outcomes) THEN outcomes[n] ELSE TRUE

-----------------------------------------------------------------------------
(* What the parser refuses and the mapper marks (control_flow.py)          *)

Nested(stmts) == UNION {{s.then[i] : i \in DOMAIN s.then} \cup
                        {s.else[i] : i \in DOMAIN s.else} :
                          s \in {stmts[i] : i \in DOMAIN stmts}}
(* Every statement of a body; the units nest bodies one deep. *)
walk_statements(stmts) == {stmts[i] : i \in DOMAIN stmts} \cup Nested(stmts)

RunUnitTerminators == {"STOP", "GOBACK"}
ends_run_unit(para) == \E i \in DOMAIN para : para[i].op \in RunUnitTerminators

(* The number of paragraphs of the fall-through chain. *)
fall_through_chain(paras) ==
  LET ends == {p \in DOMAIN paras : ends_run_unit(paras[p])}
  IN  IF ends = {} THEN Len(paras) ELSE CHOOSE p \in ends : \A q \in ends : p <= q

performed_paragraphs(paras) ==
  UNION {s.first..s.last : s \in {t \in UNION {walk_statements(paras[p]) :
                                               p \in DOMAIN paras} :
                                  t.op = "PERFORM" /\ t.first # 0}}

Ops(stmts) == {s.op : s \in walk_statements(stmts)}
Closing(para) == para # <<>> /\ para[Len(para)].op \in RunUnitTerminators

(* mutant: performed or not *)
closes_chain_even_performed(paras, p) == /\ p = fall_through_chain(paras)
                                         /\ Closing(paras[p])
(* The paragraph is the end of the chain and ends it with its last         *)
(* statement, outside every PERFORM.                                       *)
closes_chain(paras, p) == /\ p = fall_through_chain(paras)
                          /\ p \notin performed_paragraphs(paras)
                          /\ Closing(paras[p])

(* _validate_control_flow and _parse_goto raise no diagnostic. *)
validate_control_flow(paras) ==
  LET terminal == RunUnitTerminators \cup {"EXIT"}
      front(p) == SubSeq(paras[p], 1, Len(paras[p]) - 1)
  IN  /\ 1 \in performed_paragraphs(paras) =>
           Ops(paras[1]) \cap RunUnitTerminators = {}
      /\ \A p \in 2..Len(paras) :
           Ops(IF closes_chain(paras, p) THEN front(p) ELSE paras[p])
              \cap terminal = {}
      /\ \A p \in DOMAIN paras : "GOTO" \notin Ops(paras[p])

Calls(paras) == {s \in UNION {walk_statements(paras[p]) : p \in DOMAIN paras} :
                   s.op = "CALL"}
(* The arguments match the callee's linkage: the value-result lowering. *)
ValueResult(call) == unit.linkage /\ call.args # <<>>

(* The call lowers to Java that compiles.  callee_problem is looked for    *)
(* only when the call is not lowered by value-result.                      *)
call_compiles(call) ==
  \/ ValueResult(call)
  \/ /\ ~unit.linkage /\ call.args = <<>>
     /\ \A p \in DOMAIN unit.sub : "STOP" \notin Ops(unit.sub[p])
     /\ fall_through_chain(unit.sub) = 1

(* javac refuses statements after a return, and the calls of the rest of   *)
(* the chain after an EXIT PROGRAM that is one.                            *)
NoDeadCode(paras) ==
  /\ \A p \in DOMAIN paras : \A i \in 1..Len(paras[p]) - 1 :
       paras[p][i].op \notin RunUnitTerminators \cup {"EXIT"}
  /\ Len(paras) > 1 => \A i \in DOMAIN paras[1] : paras[1][i].op # "EXIT"

Accepted == /\ validate_control_flow(unit.main)
            /\ validate_control_flow(unit.sub)
            /\ NoDeadCode(unit.main) /\ NoDeadCode(unit.sub)
            /\ \A call \in Calls(unit.main) : call_compiles(call)

-----------------------------------------------------------------------------
(* The oracle: GnuCOBOL's run of the unit                                  *)

Marker(op, s, n) == [op |-> op, of |-> s, n |-> n]
Top(m) == IF m.todo = <<>> THEN Marker("RETURN", <<>>, 0) ELSE Head(m.todo)
Rest(m) == Tail(m.todo)

CobolParas == IF cobol.caller = <<>> THEN unit.main ELSE unit.sub
(* The storage of a field: a linkage item is the caller's argument. *)
Address(f) == IF cobol.caller = <<>> THEN f ELSE cobol.bind[f]

CobolGoes(todo) == cobol' = [cobol EXCEPT !.todo = todo, !.steps = @ + 1]

(* PERFORM of a range leaves a frame that says where the range ends. *)
CobolEnter(s, rest) ==
  IF s.first = 0 THEN CobolGoes(s.then \o rest)
  ELSE cobol' = [cobol EXCEPT
         !.todo = CobolParas[s.first] \o <<Marker("END", <<>>, s.first)>>,
         !.frames = <<[last |-> s.last, todo |-> rest]>> \o @,
         !.steps = @ + 1]

CobolField ==
  \/ /\ Top(cobol).op = "SHOW"
     /\ cobol' = [cobol EXCEPT !.todo = Tail(@), !.steps = @ + 1,
                    !.trace = Append(@, cobol.mem[Address(Top(cobol).f)])]
  \/ /\ Top(cobol).op = "SET"
     /\ cobol' = [cobol EXCEPT !.todo = Tail(@), !.steps = @ + 1,
                    !.mem[Address(Top(cobol).f)] = Top(cobol).n]

CobolIf ==
  /\ Top(cobol).op = "IF"
  /\ cobol' = [cobol EXCEPT !.asked = @ + 1, !.steps = @ + 1,
       !.todo = (IF Outcome(cobol.asked + 1) THEN Top(cobol).then
                 ELSE Top(cobol).else) \o Tail(@)]

CobolPerform ==
  LET s == Top(cobol) IN
  /\ s.op = "PERFORM"
  /\ \/ s.form = "once" /\ CobolEnter(s, Rest(cobol))
     \/ s.form = "times" /\ CobolGoes(<<Marker("AGAIN", s, s.n)>> \o Rest(cobol))
     \/ /\ s.form \in {"until", "varying"}
        /\ IF s.after THEN CobolEnter(s, <<Marker("TEST", s, 0)>> \o Rest(cobol))
           ELSE CobolGoes(<<Marker("TEST", s, 0)>> \o Rest(cobol))

CobolLoop ==
  LET mark == Top(cobol) IN
  \/ /\ mark.op = "AGAIN"
     /\ IF mark.n = 0 THEN CobolGoes(Rest(cobol))
        ELSE CobolEnter(mark.of, <<[mark EXCEPT !.n = @ - 1]>> \o Rest(cobol))
  \/ /\ mark.op = "TEST" /\ Outcome(cobol.asked + 1)
     /\ cobol' = [cobol EXCEPT !.todo = Tail(@), !.steps = @ + 1, !.asked = @ + 1]
  \/ /\ mark.op = "TEST" /\ ~Outcome(cobol.asked + 1)
     /\ IF mark.of.first = 0
        THEN cobol' = [cobol EXCEPT !.asked = @ + 1, !.steps = @ + 1,
                         !.todo = mark.of.then \o @]
        ELSE cobol' = [cobol EXCEPT !.asked = @ + 1, !.steps = @ + 1,
               !.todo = CobolParas[mark.of.first] \o
                          <<Marker("END", <<>>, mark.of.first)>>,
               !.frames = <<[last |-> mark.of.last, todo |-> cobol.todo]>> \o @]

(* The end of a paragraph: back to the PERFORM whose range it ends, else   *)
(* on into the next paragraph; the last one ends its program.              *)
CobolEnd ==
  /\ Top(cobol).op = "END"
  /\ LET p == Top(cobol).n IN
     IF cobol.frames # <<>> /\ Head(cobol.frames).last = p
     THEN cobol' = [cobol EXCEPT !.todo = Head(cobol.frames).todo,
                                 !.frames = Tail(@), !.steps = @ + 1]
     ELSE IF p < Len(CobolParas)
     THEN CobolGoes(CobolParas[p + 1] \o <<Marker("END", <<>>, p + 1)>>)
     ELSE CobolGoes(<<Marker("GOBACK", <<>>, 0)>>)

(* CALL: the callee sees the caller's storage, or a copy BY CONTENT.       *)
CobolCall ==
  LET s == Top(cobol)
      shared(i) == s.args # <<>> /\ s.modes[i] = "REFERENCE"
  IN
  /\ s.op = "CALL"
  /\ cobol' = [cobol EXCEPT
       !.caller = <<[todo |-> Rest(cobol), frames |-> cobol.frames]>>,
       !.frames = <<>>,
       !.todo = unit.sub[1] \o <<Marker("END", <<>>, 1)>>,
       !.bind = [i \in 1..2 |-> IF shared(i) THEN s.args[i] ELSE i + 2],
       !.mem = [a \in 1..4 |-> IF a > 2 /\ s.args # <<>> THEN @[s.args[a - 2]]
                               ELSE @[a]],
       !.steps = @ + 1]

(* STOP RUN ends the run unit; GOBACK ends the program; EXIT PROGRAM does  *)
(* so only in a program that was CALLed.                                   *)
CobolLeave ==
  /\ Top(cobol).op \in {"STOP", "GOBACK", "EXIT"}
  /\ IF Top(cobol).op = "EXIT" /\ cobol.caller = <<>> THEN CobolGoes(Rest(cobol))
     ELSE IF Top(cobol).op = "STOP" \/ cobol.caller = <<>>
     THEN cobol' = [cobol EXCEPT !.halted = TRUE, !.steps = @ + 1]
     ELSE cobol' = [cobol EXCEPT !.todo = Head(cobol.caller).todo,
                      !.frames = Head(cobol.caller).frames,
                      !.caller = <<>>, !.steps = @ + 1]

CobolStep ==
  /\ ~cobol.halted /\ cobol.steps < MaxSteps
  /\ \/ CobolField \/ CobolIf \/ CobolPerform \/ CobolLoop
     \/ CobolEnd \/ CobolCall \/ CobolLeave
  /\ UNCHANGED <<unit, outcomes, java>>

-----------------------------------------------------------------------------
(* The generated Java                                                      *)

JavaParas == IF java.inSub THEN unit.sub ELSE unit.main
JavaGoes(todo) == java' = [java EXCEPT !.todo = todo, !.steps = @ + 1]
JavaField(f) == IF java.inSub THEN f + 2 ELSE f

Invokes(lo, hi) == [i \in 1..hi - lo + 1 |-> Marker("INVOKE", <<>>, lo + i - 1)]
(* mutant: the range without its last paragraph *)
expand_thru_range_exclusive(s) ==
  IF s.first < s.last THEN Invokes(s.first, s.last - 1)
  ELSE Invokes(s.first, s.first)
(* _expand_thru_range: the methods of the range, in source order. *)
expand_thru_range(s) == IF s.first <= s.last THEN Invokes(s.first, s.last)
                        ELSE Invokes(s.first, s.first)
(* What one PERFORM, or one turn of its loop, executes. *)
Body(s) == IF s.first = 0 THEN s.then ELSE expand_thru_range(s)

(* mutant: no fall-through *)
EntryBody_driver_only(paras) == paras[1]
(* RUN_UNIT$ENTRY and MAIN_LOGIC: the driver inlined, then the chain.      *)
EntryBody(paras) == paras[1] \o Invokes(2, fall_through_chain(paras))

JavaSimple ==
  \/ /\ Top(java).op = "SHOW"
     /\ java' = [java EXCEPT !.todo = Tail(@), !.steps = @ + 1,
                   !.trace = Append(@, java.mem[JavaField(Top(java).f)])]
  \/ /\ Top(java).op = "SET"
     /\ java' = [java EXCEPT !.todo = Tail(@), !.steps = @ + 1,
                   !.mem[JavaField(Top(java).f)] = Top(java).n]

JavaIf ==
  /\ Top(java).op = "IF"
  /\ java' = [java EXCEPT !.asked = @ + 1, !.steps = @ + 1,
       !.todo = (IF Outcome(java.asked + 1) THEN Top(java).then
                 ELSE Top(java).else) \o Tail(@)]

(* PERFORM: calls, a for loop, a while or do-while loop; VARYING is always *)
(* a for loop, whatever the TEST phrase says.                              *)
JavaPerform ==
  LET s == Top(java) IN
  /\ s.op = "PERFORM"
  /\ \/ s.form = "once" /\ JavaGoes(Body(s) \o Rest(java))
     \/ s.form = "times" /\ JavaGoes(<<Marker("FOR", s, s.n)>> \o Rest(java))
     \/ /\ s.form = "until" /\ s.after
        /\ JavaGoes(Body(s) \o <<Marker("WHILE", s, 0)>> \o Rest(java))
     \/ /\ s.form = "varying" \/ (s.form = "until" /\ ~s.after)
        /\ JavaGoes(<<Marker("WHILE", s, 0)>> \o Rest(java))

JavaLoop ==
  LET mark == Top(java) IN
  \/ /\ mark.op = "FOR"
     /\ IF mark.n = 0 THEN JavaGoes(Rest(java))
        ELSE JavaGoes(Body(mark.of) \o <<[mark EXCEPT !.n = @ - 1]>> \o Rest(java))
  \/ /\ mark.op = "WHILE"
     /\ java' = [java EXCEPT !.asked = @ + 1, !.steps = @ + 1,
          !.todo = IF Outcome(java.asked + 1) THEN Tail(@)
                   ELSE Body(mark.of) \o @]

(* A method call; the callee's frame is not the run-unit entry's. *)
JavaPush(todo, rest, inSub, mem) ==
  java' = [java EXCEPT !.todo = todo, !.entry = FALSE, !.inSub = inSub,
             !.mem = mem, !.steps = @ + 1,
             !.calls = <<[todo |-> rest, entry |-> java.entry,
                          inSub |-> java.inSub]>> \o @]

JavaInvoke == /\ Top(java).op = "INVOKE"
              /\ JavaPush(JavaParas[Top(java).n], Rest(java), java.inSub, java.mem)

(* CALL: copy the arguments into the callee's static fields, call it, copy *)
(* the BY REFERENCE ones back.                                             *)
JavaCall ==
  LET s == Top(java) IN
  \/ /\ s.op = "CALL" /\ ValueResult(s)
     /\ JavaPush(EntryBody(unit.sub), <<Marker("SYNCOUT", s, 0)>> \o Rest(java), TRUE,
                 [a \in 1..4 |-> IF a > 2 THEN java.mem[s.args[a - 2]] ELSE java.mem[a]])
  \/ /\ s.op = "CALL" /\ ~ValueResult(s)
     /\ JavaPush(unit.sub[1], Rest(java), TRUE, java.mem)

CopiedBack(s, a) == {i \in DOMAIN s.args : s.args[i] = a /\ s.modes[i] = "REFERENCE"}
JavaSyncOut ==
  /\ Top(java).op = "SYNCOUT"
  /\ LET last(a) == CHOOSE i \in CopiedBack(Top(java).of, a) :
                      \A j \in CopiedBack(Top(java).of, a) : j <= i
     IN java' = [java EXCEPT !.todo = Tail(@), !.steps = @ + 1,
          !.mem = [a \in 1..4 |-> IF CopiedBack(Top(java).of, a) # {}
                                  THEN @[last(a) + 2] ELSE @[a]]]

(* The end of a method, STOP RUN, GOBACK and EXIT PROGRAM are returns,     *)
(* but for an EXIT PROGRAM lowered into the run-unit entry.                *)
JavaReturn ==
  /\ Top(java).op \in {"RETURN", "STOP", "GOBACK", "EXIT"}
  /\ IF Top(java).op = "EXIT" /\ java.entry THEN JavaGoes(Rest(java))
     ELSE IF java.calls = <<>>
     THEN java' = [java EXCEPT !.halted = TRUE, !.steps = @ + 1]
     ELSE java' = [java EXCEPT !.todo = Head(java.calls).todo,
                     !.entry = Head(java.calls).entry,
                     !.inSub = Head(java.calls).inSub,
                     !.calls = Tail(@), !.steps = @ + 1]

(* The comparison starts once the oracle's run is over. *)
JavaStep ==
  /\ cobol.halted /\ ~java.halted /\ java.steps < 3 * MaxSteps
  /\ \/ JavaSimple \/ JavaIf \/ JavaPerform \/ JavaLoop \/ JavaInvoke
     \/ JavaCall \/ JavaSyncOut \/ JavaReturn
  /\ UNCHANGED <<unit, outcomes, cobol>>

-----------------------------------------------------------------------------
FlowInit ==
  /\ unit \in Units /\ outcomes \in Outcomes
  /\ Accepted
  /\ cobol = [todo |-> unit.main[1] \o <<Marker("END", <<>>, 1)>>,
              frames |-> <<>>, caller |-> <<>>, bind |-> <<1, 2>>,
              mem |-> <<0, 0, 0, 0>>, trace |-> <<>>, asked |-> 0,
              halted |-> FALSE, steps |-> 0]
  /\ java = [todo |-> EntryBody(unit.main), entry |-> TRUE, inSub |-> FALSE,
             calls |-> <<>>, mem |-> <<0, 0, 0, 0>>, trace |-> <<>>,
             asked |-> 0, halted |-> FALSE, steps |-> 0]
FlowNext == CobolStep \/ JavaStep
FlowSpec == FlowInit /\ [][FlowNext]_flowVars

-----------------------------------------------------------------------------
(* Properties                                                              *)

(* The constructs the parser and the mapper accept and the Java does not   *)
(* reproduce: STOP RUN in a CALLed program with a matching linkage, one    *)
(* item passed twice BY REFERENCE, VARYING WITH TEST AFTER, EXIT PROGRAM   *)
(* in a driver paragraph that is PERFORMed.                                *)
StopsInCallee == unit.linkage /\ \E p \in DOMAIN unit.sub : "STOP" \in Ops(unit.sub[p])
PassesTwice == \E s \in Calls(unit.main) : s.args # <<>> /\ s.args[1] = s.args[2]
Statements == UNION {walk_statements(unit.main[p]) : p \in DOMAIN unit.main}
VariesTestAfter == \E s \in Statements : s.op = "PERFORM" /\ s.form = "varying" /\ s.after
ExitsPerformedDriver == "EXIT" \in Ops(unit.main[1]) /\ 1 \in performed_paragraphs(unit.main)

Reproduced == ~(StopsInCallee \/ PassesTwice \/ VariesTestAfter \/ ExitsPerformedDriver)

(* control_flow.py: fall-through, PERFORM, GO TO, STOP RUN, GOBACK, EXIT   *)
(* PROGRAM and CALL of an accepted unit leave the same displays and end    *)
(* the run at the same place in the generated Java, but for the four       *)
(* constructs above.                                                       *)
RunsAlike ==
  (java.halted \/ java.steps = 3 * MaxSteps) /\ Reproduced =>
     /\ java.halted /\ java.trace = cobol.trace
     /\ \A f \in 1..2 : java.mem[f] = cobol.mem[f]

(* "STOP RUN in a CALLed program ends the whole run unit, but the Java     *)
(* entry only returns to this caller" (cobol_to_java_mapping.py:5526): a   *)
(* run unit whose callee stops it is refused or stops in Java too.         *)
StopRunEndsTheUnit == (java.halted /\ StopsInCallee) => java.trace = cobol.trace
=============================================================================
