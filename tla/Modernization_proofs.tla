------------------------- MODULE Modernization_proofs -------------------------
(***************************************************************************)
(* Theorems about Modernization: whatever the application and whatever the *)
(* analysis says of it, nothing is generated past a plan with a SKIP, and  *)
(* the report tells the truth; what is generated is in the supported       *)
(* subset, and is the program its copybooks make it.                       *)
(*                                                                         *)
(* Copybooks: the analysis walks the COPY tree with collect_copybook_texts, *)
(* the generation with expand_copybook_text, both defined by recursion     *)
(* along a chain of distinct files.  They exist because each step leaves   *)
(* fewer files to visit; a walk without errors reaches every file merged;  *)
(* and what the gate lets through is clean (CleanInv) until the generation *)
(* has read it.                                                            *)
(*                                                                         *)
(* CALLs: the search of detect_cycles exists, because each visit leaves    *)
(* fewer names or edges, and every visit that finds no cycle leaves its    *)
(* name outside every endless set of calls; so a cycle is reported, and    *)
(* what the gate lets through has none (CycleInv).                         *)
(***************************************************************************)
EXTENDS Modernization, FiniteSetTheorems, WellFoundedInduction, TLAPS

(* The classes a complete project has. *)
Whole == classes = {class_name(P(i).id) : i \in Programs}

(* What each phase of execute() has established, which the report relies   *)
(* on: success is claimed from the transformation on, the project from the *)
(* assembly on, and an error only when execute() returns.                  *)
PhaseInv ==
  /\ phase \in {"start", "discovered", "analyzed", "planned", "transformed",
                "assembled", "reported"}
  /\ phase \in {"start", "discovered", "analyzed"} => plan = {}
  /\ phase \in {"start", "discovered", "analyzed", "planned"} => report = NoReport
  /\ phase \in {"planned", "transformed", "assembled"} => Skipped(plan) = {}
  /\ phase = "transformed" => report = Report(TRUE, FALSE, FALSE)
  /\ phase = "assembled" => report = Report(TRUE, FALSE, TRUE) /\ Whole
  /\ phase = "reported" =>
       \/ report = NoReport /\ plan = {}
       \/ report = Report(FALSE, TRUE, FALSE)
       \/ report = Report(TRUE, FALSE, TRUE) /\ Whole /\ Skipped(plan) = {}

(* The gate of execute() in one sentence: what is claimed generated had no *)
(* program, CALL or copybook that the plan skips.                          *)
GeneratedIsUnskipped == report.success => Skipped(plan) = {}

(* The phases establish what PhaseInv says: one case per action. *)
LEMMA PhaseInduction == PhaseInv /\ [Next]_modernizationVars => PhaseInv'
<1> SUFFICES ASSUME PhaseInv, [Next]_modernizationVars PROVE PhaseInv'
  OBVIOUS
<1> USE DEF Report, NoReport
<1>1. CASE Discover
  BY <1>1 DEF Discover, PhaseInv
<1>2. CASE Analyze
  BY <1>2 DEF Analyze, PhaseInv
<1>3. CASE Plan
  <2>1. phase = "analyzed" /\ plan' = generate_plan /\ report = NoReport
    BY <1>3 DEF Plan, PhaseInv
  <2>2. CASE gate(plan')
    <3>1. phase' = "planned" /\ report' = report /\ Skipped(plan') = {}
      BY <1>3, <2>2 DEF Plan, gate
    <3>2. Skipped(plan)' = Skipped(plan')
      BY DEF Skipped
    <3> QED BY <2>1, <3>1, <3>2 DEF PhaseInv
  <2>3. CASE ~gate(plan')
    <3>1. phase' = "reported" /\ report' = Report(FALSE, TRUE, FALSE)
      BY <1>3, <2>3 DEF Plan
    <3> QED BY <3>1 DEF PhaseInv
  <2> QED BY <2>2, <2>3
<1>4. CASE Transform
  <2>1. phase' = "transformed" /\ Skipped(plan)' = Skipped(plan) /\ Skipped(plan) = {}
    BY <1>4 DEF Transform, PhaseInv, Skipped
  <2>2. report' = Report(TRUE, FALSE, FALSE)
    <3>1. report = Report(FALSE, FALSE, FALSE)
      BY <1>4 DEF Transform, PhaseInv
    <3>2. report.errors = FALSE /\ report.project = FALSE
      BY <3>1
    <3>3. report' = Report(TRUE, report.errors, report.project)
      BY <1>4 DEF Transform
    <3> QED BY <3>2, <3>3, Zenon
  <2> QED BY <2>1, <2>2 DEF PhaseInv
<1>5. CASE TransformFails
  BY <1>5 DEF TransformFails, PhaseInv
<1>6. CASE Assemble
  <2>1. phase' = "assembled" /\ app' = app /\ Skipped(plan)' = Skipped(plan)
    BY <1>6 DEF Assemble, Skipped
  <2>2. report' = Report(TRUE, FALSE, TRUE) /\ Skipped(plan) = {}
    <3>1. report = Report(TRUE, FALSE, FALSE) /\ Skipped(plan) = {}
      BY <1>6 DEF Assemble, PhaseInv
    <3>2. report.success = TRUE /\ report.errors = FALSE
      BY <3>1
    <3>3. report' = Report(report.success, report.errors, TRUE)
      BY <1>6 DEF Assemble
    <3> QED BY <3>1, <3>2, <3>3, Zenon
  <2>3. Whole'
    BY <1>6, <2>1 DEF Assemble, Whole, class_name, normalize_cobol_name, P, Programs
  <2> QED BY <2>1, <2>2, <2>3 DEF PhaseInv
<1>7. CASE AssembleFails
  BY <1>7 DEF AssembleFails, PhaseInv, assembly_failed
<1>8. CASE CheckFailClosedSymbols
  <2>1. phase' = "reported" /\ app' = app /\ Skipped(plan)' = Skipped(plan)
    BY <1>8 DEF CheckFailClosedSymbols, Skipped
  <2>2. CASE app.marked
    BY <1>8, <2>1, <2>2 DEF CheckFailClosedSymbols, PhaseInv
  <2>3. CASE ~app.marked
    <3>1. report' = Report(TRUE, FALSE, TRUE) /\ Skipped(plan) = {} /\ Whole /\ classes' = classes
      BY <1>8, <2>3 DEF CheckFailClosedSymbols, PhaseInv
    <3>2. Whole'
      BY <2>1, <3>1 DEF Whole, class_name, normalize_cobol_name, P, Programs
    <3> QED BY <2>1, <3>1, <3>2 DEF PhaseInv
  <2> QED BY <2>2, <2>3
<1>9. CASE UNCHANGED modernizationVars
  BY <1>9 DEF modernizationVars, PhaseInv, Skipped, Whole, class_name,
     normalize_cobol_name, P, Programs
<1> QED BY <1>1, <1>2, <1>3, <1>4, <1>5, <1>6, <1>7, <1>8, <1>9 DEF Next

LEMMA PhaseInvariant == Spec => []PhaseInv
<1>1. Init => PhaseInv
  BY DEF Init, PhaseInv, NoReport
<1> QED BY <1>1, PhaseInduction, PTL DEF Spec

(* execute() reports success exactly with a whole project and no error,    *)
(* and names an error whenever a plan was made and did not succeed.        *)
THEOREM ReportTruthful == Spec => []ReportIsTruthful
<1>1. PhaseInv => ReportIsTruthful
  BY DEF PhaseInv, ReportIsTruthful, Report, NoReport, Whole
<1> QED BY <1>1, PhaseInvariant, PTL

(* No application is generated past a SKIP in its plan: the fail-closed    *)
(* gate of execute() holds for every application and every plan.           *)
THEOREM GateHolds == Spec => []GeneratedIsUnskipped
<1>1. PhaseInv => GeneratedIsUnskipped
  BY DEF PhaseInv, GeneratedIsUnskipped, Report, NoReport
<1> QED BY <1>1, PhaseInvariant, PTL

-----------------------------------------------------------------------------
(* The CALLs of all programs, in order.                                    *)

(* A nonempty set of numbers has a least one. *)
LEMMA LeastNumber ==
  ASSUME NEW S \in SUBSET Nat, S # {}
  PROVE  \E n \in S : \A m \in S : n <= m
<1>1. PICK n \in S : \A m \in S : <<m, n>> \notin OpToRel(<, Nat)
  BY NatLessThanWellFounded, WFMin
<1>2. \A m \in S : ~(m < n) BY <1>1 DEF OpToRel
<1> QED BY <1>2

(* The function that joins the sequences of E one after the other exists. *)
LEMMA JoinedExists ==
  ASSUME NEW n \in Nat, NEW E
  PROVE  \E f : f = [i \in 0..n |-> IF i = 0 THEN <<>> ELSE f[i - 1] \o E[i]]
<1> DEFINE Joins(f, m) ==
             f = [i \in 0..m |-> IF i = 0 THEN <<>> ELSE f[i - 1] \o E[i]]
           none == {m \in Nat : ~\E f : Joins(f, m)}
<1>1. none = {}
  <2> SUFFICES ASSUME none # {} PROVE FALSE
    OBVIOUS
  <2>1. PICK m \in none : \A k \in none : m <= k
    <3>1. none \in SUBSET Nat OBVIOUS
    <3> HIDE DEF none
    <3> QED BY <3>1, LeastNumber
  <2>2. CASE m = 0
    <3> DEFINE f == [i \in 0..0 |-> <<>>]
    <3>1. Joins(f, 0) OBVIOUS
    <3> QED BY <2>1, <2>2, <3>1
  <2>3. CASE m # 0
    <3>1. m - 1 \in Nat /\ m \in Nat /\ m - 1 < m BY <2>1, <2>3
    <3>2. m - 1 \notin none
      <4>1. ~(m <= m - 1) BY <3>1
      <4> HIDE DEF none
      <4> QED BY <2>1, <4>1
    <3>3. PICK g : Joins(g, m - 1) BY <3>1, <3>2
    <3> DEFINE f == [i \in 0..m |-> IF i = m THEN g[m - 1] \o E[m] ELSE g[i]]
    <3>4. ASSUME NEW i \in 0..m
          PROVE  f[i] = IF i = 0 THEN <<>> ELSE f[i - 1] \o E[i]
      <4>1. CASE i = 0 BY <2>3, <3>1, <3>3, <4>1
      <4>2. CASE i = m BY <2>3, <3>1, <4>2
      <4>3. CASE i # 0 /\ i # m
        <5>1. i \in 0..(m - 1) /\ i - 1 \in 0..m /\ i - 1 # m BY <3>1, <4>3
        <5>2. g[i] = g[i - 1] \o E[i] BY <3>3, <4>3, <5>1
        <5> QED BY <4>3, <5>1, <5>2
      <4> QED BY <4>1, <4>2, <4>3
    <3>5. Joins(f, m) BY <3>4
    <3> QED BY <2>1, <3>5
  <2> QED BY <2>2, <2>3
<1>2. \E f : Joins(f, n) BY <1>1
<1> QED BY <1>2

(* The entries of two sequences, one after the other. *)
LEMMA Concatenated ==
  ASSUME NEW S, NEW s \in Seq(S), NEW t \in Seq(S), NEW e
  PROVE  e \in EntriesOf(s \o t) <=> e \in EntriesOf(s) \/ e \in EntriesOf(t)
<1>1. /\ Len(s) \in Nat /\ Len(t) \in Nat
      /\ DOMAIN s = 1..Len(s) /\ DOMAIN t = 1..Len(t)
      /\ DOMAIN (s \o t) = 1..(Len(s) + Len(t))
      /\ \A i \in 1..(Len(s) + Len(t)) :
           (s \o t)[i] = IF i <= Len(s) THEN s[i] ELSE t[i - Len(s)]
  OBVIOUS
<1>2. ASSUME e \in EntriesOf(s \o t)
      PROVE  e \in EntriesOf(s) \/ e \in EntriesOf(t)
  <2>1. PICK i \in 1..(Len(s) + Len(t)) :
          e = IF i <= Len(s) THEN s[i] ELSE t[i - Len(s)]
    BY <1>1, <1>2 DEF EntriesOf
  <2>2. i <= Len(s) => i \in 1..Len(s) BY <1>1
  <2>3. ~(i <= Len(s)) => i - Len(s) \in 1..Len(t) BY <1>1
  <2> QED BY <1>1, <2>1, <2>2, <2>3 DEF EntriesOf
<1>3. ASSUME e \in EntriesOf(s) PROVE e \in EntriesOf(s \o t)
  <2>1. PICK i \in 1..Len(s) : e = s[i] BY <1>1, <1>3 DEF EntriesOf
  <2>2. i \in 1..(Len(s) + Len(t)) /\ i <= Len(s) BY <1>1
  <2> QED BY <1>1, <2>1, <2>2 DEF EntriesOf
<1>4. ASSUME e \in EntriesOf(t) PROVE e \in EntriesOf(s \o t)
  <2>1. PICK i \in 1..Len(t) : e = t[i] BY <1>1, <1>4 DEF EntriesOf
  <2> DEFINE k == Len(s) + i
  <2>2. k \in 1..(Len(s) + Len(t)) /\ ~(k <= Len(s)) /\ k - Len(s) = i
    BY <1>1
  <2>3. (s \o t)[k] = t[i] BY <1>1, <2>2
  <2> QED BY <1>1, <2>1, <2>2, <2>3 DEF EntriesOf
<1> QED BY <1>2, <1>3, <1>4

Gathers(s, E, n) ==
  \A e : e \in EntriesOf(s) <=> \E i \in 1..n : e \in EntriesOf(E[i])

(* What it joins: the entries of the first sequences, and no others. *)
LEMMA JoinedEntries ==
  ASSUME NEW n \in Nat, NEW E, NEW S, \A i \in 1..n : E[i] \in Seq(S), NEW f,
         f = [i \in 0..n |-> IF i = 0 THEN <<>> ELSE f[i - 1] \o E[i]]
  PROVE  f[n] \in Seq(S) /\ Gathers(f[n], E, n)
<1> DEFINE Right(i) == /\ f[i] \in Seq(S)
                       /\ \A e : e \in EntriesOf(f[i]) <=>
                                 \E j \in 1..i : e \in EntriesOf(E[j])
           wrong == {i \in 0..n : ~Right(i)}
<1>1. wrong = {}
  <2> SUFFICES ASSUME wrong # {} PROVE FALSE
    OBVIOUS
  <2>1. PICK i \in wrong : \A k \in wrong : i <= k
    <3>1. wrong \in SUBSET Nat OBVIOUS
    <3> HIDE DEF wrong
    <3> QED BY <3>1, LeastNumber
  <2>2. CASE i = 0
    <3>1. f[0] = <<>> OBVIOUS
    <3>2. Right(0) BY <3>1 DEF EntriesOf
    <3> QED BY <2>1, <2>2, <3>2
  <2>3. CASE i # 0
    <3>0. i \in 0..n BY <2>1
    <3>1. /\ i \in 1..n /\ i - 1 \in 0..n /\ ~(i <= i - 1)
          /\ f[i] = f[i - 1] \o E[i]
      <4>1. \A k \in 0..n : k # 0 =>
              k \in 1..n /\ k - 1 \in 0..n /\ ~(k <= k - 1)
        OBVIOUS
      <4>2. \A k \in 0..n : k # 0 => f[k] = f[k - 1] \o E[k]
        OBVIOUS
      <4> QED BY <2>3, <3>0, <4>1, <4>2, Zenon
    <3>2. i - 1 \notin wrong
      <4> HIDE DEF wrong
      <4> QED BY <2>1, <3>1
    <3>3. Right(i - 1) BY <3>1, <3>2
    <3>4. f[i] \in Seq(S)
      <4>1. f[i - 1] \in Seq(S) /\ E[i] \in Seq(S) BY <3>1, <3>3
      <4>2. f[i - 1] \o E[i] \in Seq(S) BY <4>1
      <4> QED BY <3>1, <4>2
    <3>5. ASSUME NEW e
          PROVE  e \in EntriesOf(f[i]) <=>
                   e \in EntriesOf(f[i - 1]) \/ e \in EntriesOf(E[i])
      <4> HIDE DEF Right
      <4>1. f[i - 1] \in Seq(S) /\ E[i] \in Seq(S) BY <3>1, <3>3 DEF Right
      <4> QED BY <3>1, <4>1, Concatenated
    <3>6. \A j : j \in 1..i <=> j \in 1..(i - 1) \/ j = i BY <3>1
    <3>7. Right(i) BY <3>3, <3>4, <3>5, <3>6
    <3> QED BY <2>1, <3>7
  <2> QED BY <2>2, <2>3
<1>2. n \in 0..n OBVIOUS
<1>3. Right(n) BY <1>1, <1>2
<1> QED BY <1>3 DEF Gathers

(* The applications stay as they were given. *)
Given == app \in Applications

(* The edges are those of the programs. *)
EdgeOfProgram(e) == \E i \in Programs : e \in EntriesOf(EdgesOf(i))

LEMMA EdgesAreOfPrograms ==
  ASSUME Given
  PROVE  /\ Len(Edges) \in Nat /\ DOMAIN Edges = 1..Len(Edges)
         /\ \A e : e \in EntriesOf(Edges) <=> EdgeOfProgram(e)
<1> DEFINE n == Len(app.programs)
           E == [i \in Programs |-> EdgesOf(i)]
           S == UNION {EntriesOf(EdgesOf(i)) : i \in Programs}
<1>1. n \in Nat /\ Programs = 1..n
  BY ApplicationsAssumption DEF Given, Programs
<1>2. ASSUME NEW i \in Programs PROVE EdgesOf(i) \in Seq(S)
  <2>1. P(i).calls \in Seq(EntriesOf(P(i).calls))
    <3>1. P(i) \in EntriesOf(app.programs) BY DEF Programs, P, EntriesOf
    <3> QED BY <3>1, ApplicationsAssumption DEF Given
  <2>2. Len(P(i).calls) \in Nat /\ DOMAIN P(i).calls = 1..Len(P(i).calls)
    BY <2>1
  <2>3. PICK m \in Nat : DOMAIN P(i).calls = 1..m BY <2>2
  <2>4. /\ DOMAIN EdgesOf(i) = 1..m
        /\ EdgesOf(i) = [k \in 1..m |-> EdgesOf(i)[k]]
    BY <2>3 DEF EdgesOf
  <2>5. \A k \in 1..m : EdgesOf(i)[k] \in S BY <2>4 DEF EntriesOf
  <2> HIDE DEF S
  <2> QED BY <2>4, <2>5
<1>3. PICK f : f = [i \in 0..n |-> IF i = 0 THEN <<>> ELSE f[i - 1] \o E[i]]
  <2> HIDE DEF n, E
  <2> QED BY <1>1, JoinedExists
<1>4. \A i \in 1..n : E[i] = EdgesOf(i) BY <1>1
<1>5. f = [i \in 0..n |-> IF i = 0 THEN <<>> ELSE f[i - 1] \o EdgesOf(i)]
  <2> HIDE DEF n, E
  <2>1. \A i \in 0..n : i # 0 => i \in 1..n BY <1>1
  <2>2. \A i \in 0..n : (IF i = 0 THEN <<>> ELSE f[i - 1] \o E[i]) =
                        (IF i = 0 THEN <<>> ELSE f[i - 1] \o EdgesOf(i))
    BY <1>4, <2>1
  <2> QED BY <1>3, <2>2
<1> DEFINE upTo == CHOOSE g : g = [i \in 0..n |->
                     IF i = 0 THEN <<>> ELSE g[i - 1] \o EdgesOf(i)]
<1>6. upTo = [i \in 0..n |-> IF i = 0 THEN <<>> ELSE upTo[i - 1] \o EdgesOf(i)]
  BY <1>5
<1>7. Edges = upTo[n] BY DEF Edges
<1> HIDE DEF upTo
<1>8. upTo = [i \in 0..n |-> IF i = 0 THEN <<>> ELSE upTo[i - 1] \o E[i]]
  <2> HIDE DEF n, E
  <2>1. \A i \in 0..n : i # 0 => i \in 1..n BY <1>1
  <2>2. \A i \in 0..n : (IF i = 0 THEN <<>> ELSE upTo[i - 1] \o E[i]) =
                        (IF i = 0 THEN <<>> ELSE upTo[i - 1] \o EdgesOf(i))
    BY <1>4, <2>1
  <2> QED BY <1>6, <2>2
<1>9. \A i \in 1..n : E[i] \in Seq(S) BY <1>1, <1>2, <1>4
<1>10. upTo[n] \in Seq(S) /\ Gathers(upTo[n], E, n)
  <2> HIDE DEF n, E, S
  <2> QED BY <1>1, <1>8, <1>9, JoinedEntries
<1> HIDE DEF n, E, S
<1>11. Len(Edges) \in Nat /\ DOMAIN Edges = 1..Len(Edges) BY <1>7, <1>10
<1> QED BY <1>1, <1>4, <1>7, <1>10, <1>11 DEF EdgeOfProgram, Gathers

-----------------------------------------------------------------------------
(* Calls that dispatch.                                                    *)

Dispatches(e) ==
  ~e.dynamic /\ \E i \in Programs : /\ class_name(P(i).id) = class_name(e.target)
                                    /\ P(i).linkage = e.args
AllDispatch == ~DuplicateClass => \A e : EdgeOfProgram(e) => Dispatches(e)

(* A CALL with the wrong number of arguments. *)
Mismatch(e) ==
  /\ ~e.dynamic /\ Callees(e.target) # {}
  /\ e.args # P(LastOf(Callees(e.target))).linkage

(* What the analysis found keeps such an application from being generated. *)
ArityReported ==
  (\E e : EdgeOfProgram(e) /\ Mismatch(e)) =>
    \E c \in analysis.calls : c.level # "SUPPORTED"

(* The analysis reports every mismatch, and past the plan there is none, nor *)
(* a CALL that means no program.                                            *)
DispatchInv ==
  /\ Given
  /\ phase = "analyzed" => ArityReported
  /\ phase \in {"planned", "transformed", "assembled"} \/ report.success => AllDispatch

(* analyze adds a component for every mismatch. *)
LEMMA ArityIsReported ==
  ASSUME Given, Analyze
  PROVE  ArityReported'
<1> SUFFICES ASSUME NEW e, EdgeOfProgram(e), Mismatch(e)
             PROVE  \E c \in analysis'.calls : c.level # "SUPPORTED"
  <2>1. app' = app BY DEF Analyze
  <2>2. \A e : /\ EdgeOfProgram(e)' <=> EdgeOfProgram(e)
               /\ Mismatch(e)' <=> Mismatch(e)
    BY <2>1 DEF EdgeOfProgram, Mismatch, EdgesOf, Callees, P, Programs
  <2> QED BY <2>2 DEF ArityReported
<1>1. e \in ArityMismatches
  BY EdgesAreOfPrograms DEF ArityMismatches, Mismatch
<1> DEFINE c == Component(<<e.source, <<normalize_cobol_name(e.target), "upper">>>>,
                          "CALL", "UNSUPPORTED")
<1>2. c \in ArityComponents BY <1>1 DEF ArityComponents
<1>3. analysis'.calls = analyze.calls BY DEF Analyze
<1>4. ArityComponents \subseteq analyze.calls
  <2> HIDE DEF c
  <2> QED BY DEF analyze
<1>5. c.level = "UNSUPPORTED" BY DEF Component
<1> HIDE DEF c
<1> QED BY <1>2, <1>3, <1>4, <1>5

(* A plan without a SKIP has only CALLs that dispatch. *)
LEMMA PlannedDispatch ==
  ASSUME Given, ArityReported, Skipped(generate_plan) = {}
  PROVE  AllDispatch
<1>1. \A c \in plan_calls : c.action # "SKIP"
  BY DEF Skipped, generate_plan
<1>2. \A e \in EntriesOf(Edges) : e.resolved
  <2> SUFFICES ASSUME NEW e \in EntriesOf(Edges), ~e.resolved PROVE FALSE
    OBVIOUS
  <2>1. ComponentPlan(<<e.source, e.target>>, "CALL", "UNRESOLVED") \in plan_calls
    BY DEF plan_calls
  <2>2. ComponentPlan(<<e.source, e.target>>, "CALL", "UNRESOLVED").action = "SKIP"
    BY DEF ComponentPlan
  <2> QED BY <1>1, <2>1, <2>2
<1>3. \A c \in analysis.calls : c.level = "SUPPORTED"
  <2> SUFFICES ASSUME NEW c \in analysis.calls, c.level # "SUPPORTED" PROVE FALSE
    OBVIOUS
  <2>1. ComponentPlan(c.id, "CALL", c.level) \in plan_calls BY DEF plan_calls
  <2>2. ComponentPlan(c.id, "CALL", c.level).action = "SKIP" BY DEF ComponentPlan
  <2> QED BY <1>1, <2>1, <2>2
<1> SUFFICES ASSUME ~DuplicateClass, NEW e, EdgeOfProgram(e) PROVE Dispatches(e)
  BY DEF AllDispatch
<1>4. e.resolved BY <1>2, EdgesAreOfPrograms
<1>5. ~e.dynamic /\ Callees(e.target) # {}
  <2>0. PICK i \in Programs : \E k \in DOMAIN P(i).calls : e = EdgesOf(i)[k]
    BY DEF EdgeOfProgram, EntriesOf, EdgesOf
  <2>1. PICK k \in DOMAIN P(i).calls : e = EdgesOf(i)[k] BY <2>0
  <2> DEFINE call == P(i).calls[k]
  <2>2. /\ e.dynamic = call.dynamic /\ e.target = call.to
        /\ e.resolved = (~call.dynamic /\ normalize_cobol_name(call.to) \in
                           {normalize_cobol_name(P(j).id) : j \in Programs})
    BY <2>1 DEF EdgesOf
  <2> HIDE DEF call
  <2> QED BY <1>4, <2>2 DEF Callees
<1>6. ~Mismatch(e) BY <1>3 DEF ArityReported
<1>7. PICK j : j \in Callees(e.target) BY <1>5
<1>8. Callees(e.target) = {j}
  BY <1>7 DEF Callees, DuplicateClass, class_name
<1>9. j <= j
  BY <1>7, ApplicationsAssumption DEF Callees, Given, Programs
<1>10. LastOf(Callees(e.target)) = j BY <1>8, <1>9 DEF LastOf
<1>11. P(j).linkage = e.args BY <1>5, <1>6, <1>10 DEF Mismatch
<1> QED BY <1>5, <1>7, <1>11 DEF Dispatches, Callees, class_name

(* Every step keeps it. *)
LEMMA DispatchInduction ==
  PhaseInv /\ DispatchInv /\ [Next]_modernizationVars => DispatchInv'
<1> SUFFICES ASSUME PhaseInv, DispatchInv, [Next]_modernizationVars
             PROVE  DispatchInv'
  OBVIOUS
<1>a. app' = app
  BY DEF Next, Discover, Analyze, Plan, Transform, TransformFails, Assemble,
         AssembleFails, CheckFailClosedSymbols, modernizationVars
<1>b. Given' BY <1>a DEF DispatchInv, Given
<1>c. AllDispatch' <=> AllDispatch
  BY <1>a DEF AllDispatch, DuplicateClass, EdgeOfProgram, EdgesOf, Dispatches,
              class_name, normalize_cobol_name, P, Programs
<1>1. CASE Discover
  BY <1>1, <1>b DEF Discover, PhaseInv, DispatchInv, NoReport, Report
<1>2. CASE Analyze
  <2>1. phase' = "analyzed" /\ ~report'.success
    BY <1>2 DEF Analyze, PhaseInv, NoReport, Report
  <2>2. ArityReported' BY <1>2, ArityIsReported DEF DispatchInv
  <2> QED BY <1>b, <2>1, <2>2 DEF DispatchInv
<1>3. CASE Plan
  <2>1. ~report.success /\ phase' # "analyzed" /\ ArityReported
    BY <1>3 DEF Plan, PhaseInv, NoReport, Report, DispatchInv
  <2>2. CASE gate(generate_plan)
    <3>1. AllDispatch BY <2>1, <2>2, PlannedDispatch DEF DispatchInv, gate
    <3> QED BY <1>b, <1>c, <2>1, <3>1 DEF DispatchInv
  <2>3. CASE ~gate(generate_plan)
    <3>1. phase' = "reported" /\ ~report'.success
      BY <1>3, <2>3 DEF Plan, Report
    <3> QED BY <1>b, <3>1 DEF DispatchInv
  <2> QED BY <2>2, <2>3
<1>4. CASE Transform \/ Assemble
  <2>1. AllDispatch /\ phase' # "analyzed"
    BY <1>4 DEF Transform, Assemble, DispatchInv
  <2> QED BY <1>b, <1>c, <2>1 DEF DispatchInv
<1>5. CASE TransformFails \/ AssembleFails
  <2>1. phase' = "reported" /\ ~report'.success
    BY <1>5 DEF TransformFails, AssembleFails, assembly_failed, Report
  <2> QED BY <1>b, <2>1 DEF DispatchInv
<1>6. CASE CheckFailClosedSymbols
  <2>1. AllDispatch /\ phase' = "reported"
    BY <1>6 DEF CheckFailClosedSymbols, DispatchInv
  <2> QED BY <1>b, <1>c, <2>1 DEF DispatchInv
<1>7. CASE UNCHANGED modernizationVars
  <2>1. UNCHANGED <<app, phase, analysis, report>> BY <1>7 DEF modernizationVars
  <2>2. ArityReported' <=> ArityReported
    BY <2>1 DEF ArityReported, EdgeOfProgram, Mismatch, EdgesOf, Callees, P, Programs
  <2> QED BY <1>b, <1>c, <2>1, <2>2 DEF DispatchInv
<1> QED BY <1>1, <1>2, <1>3, <1>4, <1>5, <1>6, <1>7 DEF Next

(* Whatever the application, no CALL of one that is generated is dynamic,  *)
(* unknown or of another number of arguments than its program declares     *)
(* (_build_dependency_graph and _analyze_call_linkage_arity find them, the *)
(* plan skips them, execute() stops at a SKIP).                            *)
THEOREM CallsDispatch == Spec => []EveryCallDispatches
<1>1. Init => DispatchInv
  BY DEF Init, DispatchInv, Given, NoReport, Report
<1>2. DispatchInv => EveryCallDispatches
  BY EdgesAreOfPrograms
     DEF DispatchInv, AllDispatch, Dispatches, EveryCallDispatches
<1> QED BY <1>1, <1>2, DispatchInduction, PhaseInvariant, PTL DEF Spec

-----------------------------------------------------------------------------
(* The worst of some levels is SUPPORTED only when all are. *)
LEMMA WorstIsSupported ==
  ASSUME NEW L \in SUBSET Levels, worst_level(L) = "SUPPORTED"
  PROVE  L \subseteq {"SUPPORTED"}
<1> DEFINE Worst(l) == \A k \in L : LevelRank[k] <= LevelRank[l]
<1>1. /\ LevelRank["SUPPORTED"] = 0 /\ LevelRank["UNAVAILABLE"] = 1
      /\ LevelRank["PARTIAL"] = 2 /\ LevelRank["UNKNOWN"] = 3
      /\ LevelRank["UNSUPPORTED"] = 4
  BY DEF LevelRank
<1>2. \E l \in L \cup {"SUPPORTED"} : Worst(l)
  <2>1. CASE "UNSUPPORTED" \in L BY <1>1, <2>1 DEF Levels
  <2>2. CASE "UNSUPPORTED" \notin L /\ "UNKNOWN" \in L BY <1>1, <2>2 DEF Levels
  <2>3. CASE /\ "UNSUPPORTED" \notin L /\ "UNKNOWN" \notin L /\ "PARTIAL" \in L
    BY <1>1, <2>3 DEF Levels
  <2>4. CASE /\ "UNSUPPORTED" \notin L /\ "UNKNOWN" \notin L
             /\ "PARTIAL" \notin L /\ "UNAVAILABLE" \in L
    BY <1>1, <2>4 DEF Levels
  <2>5. CASE L \subseteq {"SUPPORTED"} BY <1>1, <2>5
  <2> QED BY <2>1, <2>2, <2>3, <2>4, <2>5 DEF Levels
<1>3. Worst("SUPPORTED")
  <2>1. worst_level(L) = CHOOSE l \in L \cup {"SUPPORTED"} : Worst(l)
    BY DEF worst_level
  <2> HIDE DEF Worst
  <2> QED BY <1>2, <2>1
<1> QED BY <1>1, <1>3 DEF Levels

(* Whatever a scan finds is a level. *)
Evidence(i) ==
  walk(i) \cup file_control(i) \cup source_evidence(i)
    \cup usage_evidence(i) \cup data_evidence(i) \cup scan_copy_replacing(i)
    \cup {file_capability(f) : f \in file_dependencies(i)}

LEMMA EvidenceIsLevels == ASSUME NEW i PROVE Evidence(i) \in SUBSET Levels
<1>1. /\ "SUPPORTED" \in Levels /\ "PARTIAL" \in Levels /\ "UNSUPPORTED" \in Levels
  BY DEF Levels
<1>2. ASSUME NEW k PROVE LevelOf(k) \in Levels
  BY <1>1, RegistryAssumption DEF LevelOf
<1>3. walk(i) \subseteq Levels
  BY <1>1, <1>2 DEF walk, note_ir, note_phrases
<1>4. file_control(i) \subseteq Levels BY <1>1, <1>2 DEF file_control
<1>5. source_evidence(i) \subseteq Levels
  <2>1. \A k \in ProcedureWords(i) : k \in DOMAIN CONSTRUCT_REGISTRY
    BY DEF ProcedureWords, Scanned
  <2> QED BY <2>1, RegistryAssumption DEF source_evidence
<1>6. usage_evidence(i) \subseteq Levels BY <1>1, <1>2 DEF usage_evidence
<1>7. data_evidence(i) \subseteq Levels
  BY <1>1, <1>2, RegistryAssumption DEF data_evidence, FileControlKeys
<1>8. scan_copy_replacing(i) \subseteq Levels BY <1>1 DEF scan_copy_replacing
<1>9. ASSUME NEW f PROVE file_capability(f) \in Levels
  BY <1>1 DEF file_capability
<1> QED BY <1>3, <1>4, <1>5, <1>6, <1>7, <1>8, <1>9 DEF Evidence

(* A supported program is supported in everything that is looked at. *)
LEMMA SupportedProgram ==
  ASSUME NEW i, analyze_program(i).level = "SUPPORTED"
  PROVE  Evidence(i) \subseteq {"SUPPORTED"}
<1>1. analyze_program(i).level = worst_level(Evidence(i))
  BY DEF analyze_program, Evidence, Component
<1> QED BY <1>1, EvidenceIsLevels, WorstIsSupported

-----------------------------------------------------------------------------
(* What a plan without a SKIP says of programs and copybooks.              *)

(* The analysis that a plan is made from. *)
Analyzed ==
  /\ analysis.programs = [i \in Programs |-> Available(analyze_program(i))]
  /\ analysis.copybooks = {analyze_copybook(n) : n \in CopybookNames}

(* Every program is supported and can be run, every copybook is supported. *)
Clean ==
  /\ Programs # {} => app.docker
  /\ \A i \in Programs : analyze_program(i).level = "SUPPORTED"
  /\ \A n \in CopybookNames : analyze_copybook(n).level = "SUPPORTED"

LEMMA PlannedIsClean ==
  ASSUME Given, Analyzed, NamesApart, Skipped(generate_plan) = {}
  PROVE  Clean
<1>1. ASSUME NEW id, NEW type, NEW level,
             ComponentPlan(id, type, level) \in generate_plan
      PROVE  level = "SUPPORTED"
  <2>1. ComponentPlan(id, type, level).action # "SKIP" BY <1>1 DEF Skipped
  <2>2. ComponentPlan(id, type, level).action =
          IF level = "SUPPORTED" THEN "TRANSFORM" ELSE "SKIP"
    BY DEF ComponentPlan
  <2> QED BY <2>1, <2>2
<1>2. ASSUME NEW i \in Programs PROVE capability_lookup(P(i).id) = "SUPPORTED"
  <2>1. ComponentPlan(<<P(i).id>>, "PROGRAM", capability_lookup(P(i).id)) \in generate_plan
    BY DEF generate_plan
  <2> QED BY <1>1, <2>1
<1>3. ASSUME NEW n \in CopybookNames PROVE capability_lookup(n) = "SUPPORTED"
  <2>1. ComponentPlan(<<n>>, "COPYBOOK", capability_lookup(n)) \in generate_plan
    BY DEF generate_plan
  <2> QED BY <1>1, <2>1
<1>4. ASSUME NEW n PROVE analyze_copybook(n).id = <<n>>
  BY DEF analyze_copybook, Component
<1>5. ASSUME NEW i \in Programs
      PROVE  analyze_program(i).level = "SUPPORTED" /\ app.docker
  <2>1. ~\E c \in analysis.copybooks : c.id = <<P(i).id>>
    BY <1>4 DEF Analyzed, NamesApart
  <2>2. {j \in Programs : P(j).id = P(i).id} = {i} BY DEF NamesApart
  <2>3. i <= i BY ApplicationsAssumption DEF Given, Programs
  <2>4. LastOf({j \in Programs : P(j).id = P(i).id}) = i
    BY <2>2, <2>3 DEF LastOf
  <2>5. capability_lookup(P(i).id) = Available(analyze_program(i)).level
    BY <2>1, <2>4 DEF capability_lookup, Analyzed
  <2>6. Available(analyze_program(i)).level = "SUPPORTED" BY <1>2, <2>5
  <2>7. PICK l : analyze_program(i) = [id |-> <<P(i).id>>, type |-> "PROGRAM", level |-> l]
    BY DEF analyze_program, Component
  <2> QED BY <2>6, <2>7 DEF Available
<1>6. ASSUME NEW n \in CopybookNames
      PROVE  analyze_copybook(n).level = "SUPPORTED"
  <2>1. \E c \in analysis.copybooks : c.id = <<n>> BY <1>4 DEF Analyzed
  <2>2. PICK c \in analysis.copybooks :
          c.id = <<n>> /\ capability_lookup(n) = c.level
    BY <2>1 DEF capability_lookup
  <2>3. c = analyze_copybook(n) BY <1>4, <2>2 DEF Analyzed
  <2> QED BY <1>3, <2>2, <2>3
<1> QED BY <1>5, <1>6 DEF Clean

-----------------------------------------------------------------------------
(* Copybooks below copybooks.  A chain is the COPYs that led to a file.    *)

Keys == DOMAIN app.tree
Chains == Seq(Keys)
Nested(c) == {n.to : n \in File(c[Len(c)]).copies}
Bad(c) == {k \in Nested(c) : k \in EntriesOf(c) \/ ~Resolves(k)}

(* One step of either walk, from what is known of longer chains. *)
TextsOf(t, c) ==
  LET below == {t[Append(c, k)] : k \in Nested(c) \ Bad(c)}
  IN  IF ~File(c[Len(c)]).readable THEN [files |-> {}, errors |-> TRUE]
      ELSE [files |-> {c[Len(c)]} \cup UNION {b.files : b \in below},
            errors |-> Bad(c) # {} \/ \E b \in below : b.errors]
FailsOf(f, c) ==
  \/ ~File(c[Len(c)]).readable
  \/ \E n \in File(c[Len(c)]).copies :
       \/ n.clause = "malformed"
       \/ n.to \in EntriesOf(c) \/ ~Resolves(n.to)
       \/ f[Append(c, n.to)]

(* The keys a chain has left: a measure of how much longer it can get. *)
Left(c) == Cardinality(Keys \ EntriesOf(c))

LEMMA LongerHasLess ==
  ASSUME Given, NEW c \in Chains, NEW k \in Keys \ EntriesOf(c)
  PROVE  /\ Append(c, k) \in Chains /\ Append(c, k) # <<>>
         /\ Append(c, k)[Len(Append(c, k))] = k
         /\ Left(c) \in Nat /\ Left(Append(c, k)) \in Nat
         /\ Left(Append(c, k)) = Left(c) - 1
<1> DEFINE d == Append(c, k)
<1>1. /\ d \in Chains /\ d # <<>> /\ d[Len(d)] = k
      /\ Len(c) \in Nat /\ Len(d) = Len(c) + 1
      /\ \A i \in 1..Len(c) : d[i] = c[i]
      /\ DOMAIN c = 1..Len(c) /\ DOMAIN d = 1..Len(d)
  BY DEF Chains
<1>2. EntriesOf(d) = EntriesOf(c) \cup {k}
  <2> HIDE DEF d
  <2>1. \A i : i \in 1..(Len(c) + 1) <=> i \in 1..Len(c) \/ i = Len(c) + 1
    BY <1>1
  <2>2. d[Len(c) + 1] = k BY <1>1
  <2> QED BY <1>1, <2>1, <2>2 DEF EntriesOf
<1>3. IsFiniteSet(Keys) BY ApplicationsAssumption DEF Given, Keys
<1>4. IsFiniteSet(Keys \ EntriesOf(c)) BY <1>3, FS_Subset
<1>5. Keys \ EntriesOf(d) = (Keys \ EntriesOf(c)) \ {k} BY <1>2
<1>6. Left(d) = Left(c) - 1 BY <1>4, <1>5, FS_RemoveElement DEF Left
<1>7. Left(c) \in Nat BY <1>4, FS_CardinalityType DEF Left
<1>8. IsFiniteSet(Keys \ EntriesOf(d)) BY <1>3, FS_Subset
<1>9. Left(d) \in Nat BY <1>8, FS_CardinalityType DEF Left
<1> QED BY <1>1, <1>6, <1>7, <1>9

LEMMA LeftIsNat == ASSUME Given, NEW c PROVE Left(c) \in Nat
<1>1. IsFiniteSet(Keys \ EntriesOf(c))
  BY ApplicationsAssumption, FS_Subset DEF Given, Keys
<1> QED BY <1>1, FS_CardinalityType DEF Left

(* A step only looks at chains that are longer by one. *)
LEMMA StepIsLocal ==
  ASSUME NEW c, NEW t, NEW u, NEW f, NEW g,
         \A k \in Keys \ EntriesOf(c) :
           t[Append(c, k)] = u[Append(c, k)] /\ f[Append(c, k)] = g[Append(c, k)]
  PROVE  TextsOf(t, c) = TextsOf(u, c) /\ FailsOf(f, c) = FailsOf(g, c)
<1>1. \A k \in Nested(c) \ Bad(c) : k \in Keys \ EntriesOf(c)
  BY DEF Bad, Resolves, Keys
<1>2. {t[Append(c, k)] : k \in Nested(c) \ Bad(c)} =
      {u[Append(c, k)] : k \in Nested(c) \ Bad(c)}
  BY <1>1
<1>3. TextsOf(t, c) = TextsOf(u, c) BY <1>2 DEF TextsOf
<1>4. \A n \in File(c[Len(c)]).copies :
        n.to \notin EntriesOf(c) /\ Resolves(n.to) =>
          f[Append(c, n.to)] = g[Append(c, n.to)]
  BY DEF Resolves, Keys
<1>5. FailsOf(f, c) = FailsOf(g, c) BY <1>4 DEF FailsOf
<1> QED BY <1>3, <1>5

(* Both walks end: there are functions that satisfy their equations. *)
Walks(t, f, n) ==
  \A c \in Chains : Left(c) <= n => t[c] = TextsOf(t, c) /\ f[c] = FailsOf(f, c)

LEMMA WalksExist ==
  ASSUME Given, NEW n \in Nat
  PROVE  \E t, f : Walks(t, f, n)
<1> DEFINE none == {m \in Nat : ~\E t, f : Walks(t, f, m)}
<1>1. none = {}
  <2> SUFFICES ASSUME none # {} PROVE FALSE
    OBVIOUS
  <2>1. PICK m \in none : \A k \in none : m <= k
    <3>1. none \in SUBSET Nat OBVIOUS
    <3> HIDE DEF none
    <3> QED BY <3>1, LeastNumber
  <2>2. \E t, f : \A c \in Chains : Left(c) <= m - 1 =>
          t[c] = TextsOf(t, c) /\ f[c] = FailsOf(f, c)
    <3>1. CASE m = 0
      <4>1. \A c : ~(Left(c) <= 0 - 1) BY LeftIsNat
      <4> QED BY <3>1, <4>1
    <3>2. CASE m # 0
      <4>1. m - 1 \in Nat /\ ~(m <= m - 1) BY <2>1, <3>2
      <4>2. m - 1 \notin none
        <5> HIDE DEF none
        <5> QED BY <2>1, <4>1
      <4> QED BY <4>1, <4>2 DEF Walks
    <3> QED BY <3>1, <3>2
  <2>3. PICK t, f : \A c \in Chains : Left(c) <= m - 1 =>
          t[c] = TextsOf(t, c) /\ f[c] = FailsOf(f, c)
    BY <2>2
  <2> DEFINE u == [c \in Chains |-> IF Left(c) <= m - 1 THEN t[c] ELSE TextsOf(t, c)]
             g == [c \in Chains |-> IF Left(c) <= m - 1 THEN f[c] ELSE FailsOf(f, c)]
  <2>4. ASSUME NEW c \in Chains, Left(c) <= m
        PROVE  u[c] = TextsOf(u, c) /\ g[c] = FailsOf(g, c)
    <3>1. u[c] = TextsOf(t, c) /\ g[c] = FailsOf(f, c) BY <2>3
    <3>2. ASSUME NEW k \in Keys \ EntriesOf(c)
          PROVE  u[Append(c, k)] = t[Append(c, k)] /\ g[Append(c, k)] = f[Append(c, k)]
      <4>1. /\ Append(c, k) \in Chains
            /\ Left(c) \in Nat /\ Left(Append(c, k)) = Left(c) - 1
        BY LongerHasLess
      <4>2. Left(Append(c, k)) <= m - 1 BY <2>1, <2>4, <4>1
      <4> QED BY <4>1, <4>2
    <3> HIDE DEF u, g
    <3> QED BY <3>1, <3>2, StepIsLocal
  <2>5. Walks(u, g, m)
    <3> HIDE DEF u, g
    <3> QED BY <2>4 DEF Walks
  <2> QED BY <2>1, <2>5
<1> QED BY <1>1

(* So the analysis and the preparation satisfy their equations. *)
LEMMA WalkEquations ==
  ASSUME Given
  PROVE  \A c \in Chains :
           /\ collect_copybook_texts[c] = TextsOf(collect_copybook_texts, c)
           /\ expand_copybook_text[c] = FailsOf(expand_copybook_text, c)
<1>1. PICK n \in Nat : n = Cardinality(Keys)
  BY ApplicationsAssumption, FS_CardinalityType DEF Given, Keys
<1>2. PICK t0, f0 : Walks(t0, f0, n) BY WalksExist
<1>3. ASSUME NEW c \in Chains
      PROVE  t0[c] = TextsOf(t0, c) /\ f0[c] = FailsOf(f0, c)
  <2>1. IsFiniteSet(Keys) /\ Keys \ EntriesOf(c) \in SUBSET Keys
    BY ApplicationsAssumption DEF Given, Keys
  <2>2. Left(c) <= n BY <1>1, <2>1, FS_Subset DEF Left
  <2> QED BY <1>2, <2>2 DEF Walks
<1> DEFINE t1 == [c \in Chains |-> t0[c]]
           f1 == [c \in Chains |-> f0[c]]
<1>4. ASSUME NEW c \in Chains
      PROVE  t1[c] = TextsOf(t1, c) /\ f1[c] = FailsOf(f1, c)
  <2>1. ASSUME NEW k \in Keys \ EntriesOf(c)
        PROVE  t1[Append(c, k)] = t0[Append(c, k)] /\ f1[Append(c, k)] = f0[Append(c, k)]
    BY LongerHasLess
  <2>2. t1[c] = t0[c] /\ f1[c] = f0[c] OBVIOUS
  <2> HIDE DEF t1, f1
  <2> QED BY <1>3, <2>1, <2>2, StepIsLocal
<1> DEFINE Texts(t) == t = [c \in Chains |-> TextsOf(t, c)]
           Fails(f) == f = [c \in Chains |-> FailsOf(f, c)]
<1>5. Texts(t1) /\ Fails(f1)
  <2>1. t1 = [c \in Chains |-> t1[c]] /\ f1 = [c \in Chains |-> f1[c]] OBVIOUS
  <2> HIDE DEF t1, f1
  <2> QED BY <1>4, <2>1
<1> DEFINE t == CHOOSE x : Texts(x)
           f == CHOOSE x : Fails(x)
<1>6. Texts(t) /\ Fails(f)
  <2> HIDE DEF Texts, Fails, t1, f1
  <2> QED BY <1>5
<1>7. collect_copybook_texts = [c \in Chains |-> t[c]]
  BY DEF collect_copybook_texts, TextsOf, Chains, Keys, Nested, Bad
<1>8. expand_copybook_text = [c \in Chains |-> f[c]]
  BY DEF expand_copybook_text, FailsOf, Chains, Keys
<1> HIDE DEF t, f
<1>9. collect_copybook_texts = t /\ expand_copybook_text = f
  BY <1>6, <1>7, <1>8
<1> QED BY <1>6, <1>9

(* Sets in which every copybook includes another of the set: they hold a   *)
(* cycle.                                                                  *)
Endless == {S \in SUBSET Keys : \A a \in S : \E b \in S : Includes(a, b)}

(* What the analysis has established of the files below a chain without    *)
(* errors: each is there and readable, so are those it includes, none is   *)
(* on or before a cycle; and the preparation does not fail on a clause it  *)
(* can read.                                                               *)
Followed(c) ==
  LET files == collect_copybook_texts[c].files
  IN  /\ c[Len(c)] \in files
      /\ \A k \in files : /\ k \in Keys /\ Resolves(k) /\ File(k).readable
                          /\ \A n \in File(k).copies : n.to \in files
      /\ \A S \in Endless : files \cap S = {}

NoClauseMalformed == \A k \in Keys : \A n \in File(k).copies : n.clause # "malformed"

LEMMA ChainsAreFollowed ==
  ASSUME Given, NEW c \in Chains, c # <<>>, Resolves(c[Len(c)]),
         ~collect_copybook_texts[c].errors
  PROVE  Followed(c) /\ (NoClauseMalformed => ~expand_copybook_text[c])
<1> DEFINE T == collect_copybook_texts
           Open(d) == d \in Chains /\ d # <<>> /\ Resolves(d[Len(d)]) /\ ~T[d].errors
           Fine(d) == Followed(d) /\ (NoClauseMalformed => ~expand_copybook_text[d])
           sizes == {m \in Nat : \E d : Open(d) /\ ~Fine(d) /\ Left(d) = m}
<1>1. sizes = {}
  <2> SUFFICES ASSUME sizes # {} PROVE FALSE
    OBVIOUS
  <2>1. PICK m \in sizes : \A k \in sizes : m <= k
    <3>1. sizes \in SUBSET Nat OBVIOUS
    <3> HIDE DEF sizes
    <3> QED BY <3>1, LeastNumber
  <2>2. PICK d : Open(d) /\ ~Fine(d) /\ Left(d) = m BY <2>1
  <2> DEFINE stem == d[Len(d)]
  <2>3. stem \in Keys
    BY <2>2 DEF Resolves, Keys
  <2>4. /\ T[d] = TextsOf(T, d)
        /\ expand_copybook_text[d] = FailsOf(expand_copybook_text, d)
    BY <2>2, WalkEquations
  <2>5. /\ File(stem).readable /\ Bad(d) = {}
        /\ \A k \in Nested(d) : ~T[Append(d, k)].errors
        /\ T[d].files = {stem} \cup UNION {T[Append(d, k)].files : k \in Nested(d)}
    <3> DEFINE below == {T[Append(d, k)] : k \in Nested(d) \ Bad(d)}
    <3>1. CASE ~File(stem).readable
      <4>1. T[d].errors = TRUE BY <2>4, <3>1 DEF TextsOf
      <4> QED BY <2>2, <4>1
    <3>2. CASE File(stem).readable
      <4>1. /\ T[d].errors = (Bad(d) # {} \/ \E b \in below : b.errors)
            /\ T[d].files = {stem} \cup UNION {b.files : b \in below}
        BY <2>4, <3>2 DEF TextsOf
      <4>2. Bad(d) = {} /\ \A b \in below : ~b.errors BY <2>2, <4>1
      <4>3. \A k \in Nested(d) : ~T[Append(d, k)].errors BY <4>2
      <4>4. UNION {b.files : b \in below} =
              UNION {T[Append(d, k)].files : k \in Nested(d)}
        BY <4>2
      <4> QED BY <3>2, <4>1, <4>2, <4>3, <4>4
    <3> QED BY <3>1, <3>2
  <2>6. ASSUME NEW k \in Nested(d)
        PROVE  /\ Open(Append(d, k)) /\ Fine(Append(d, k))
               /\ Append(d, k)[Len(Append(d, k))] = k
               /\ k \notin EntriesOf(d) /\ Resolves(k)
    <3>1. k \notin EntriesOf(d) /\ Resolves(k) BY <2>5 DEF Bad
    <3>2. k \in Keys \ EntriesOf(d) BY <3>1 DEF Resolves, Keys
    <3>3. /\ Append(d, k) \in Chains /\ Append(d, k) # <<>>
          /\ Append(d, k)[Len(Append(d, k))] = k
          /\ Left(d) \in Nat /\ Left(Append(d, k)) \in Nat
          /\ Left(Append(d, k)) = Left(d) - 1
      BY <2>2, <3>2, LongerHasLess
    <3>4. Open(Append(d, k)) BY <2>5, <3>1, <3>3
    <3>5. ~(m <= Left(Append(d, k))) BY <2>2, <3>3
    <3>6. Left(Append(d, k)) \notin sizes
      <4> HIDE DEF sizes
      <4> QED BY <2>1, <3>5
    <3> DEFINE e == Append(d, k)
    <3>7. Open(e) /\ Left(e) \in Nat /\ Left(e) \notin sizes BY <3>3, <3>4, <3>6
    <3>8. Fine(e)
      <4> HIDE DEF e, Open, Fine
      <4> QED BY <3>7
    <3> QED BY <3>1, <3>3, <3>4, <3>8
  <2> DEFINE files == T[d].files
             below == {T[Append(d, k)].files : k \in Nested(d)}
  <2>a. /\ stem \in files /\ \A F \in below : F \subseteq files
        /\ \A k \in files : k = stem \/ \E F \in below : k \in F
    <3>1. files = {stem} \cup UNION below BY <2>5
    <3> HIDE DEF files, below, stem
    <3> QED BY <3>1
  <2>7. \A k \in Nested(d) : /\ T[Append(d, k)].files \subseteq files
                             /\ k \in T[Append(d, k)].files
    BY <2>a, <2>6 DEF Followed
  <2>8. stem \in files BY <2>a
  <2>9. ASSUME NEW k \in files
        PROVE  /\ k \in Keys /\ Resolves(k) /\ File(k).readable
               /\ \A n \in File(k).copies : n.to \in files
    <3>1. CASE k = stem
      <4>1. \A n \in File(k).copies : n.to \in Nested(d) BY <3>1 DEF Nested
      <4> QED BY <2>2, <2>3, <2>5, <2>7, <3>1, <4>1
    <3>2. CASE k # stem
      <4>1. PICK j \in Nested(d) : k \in T[Append(d, j)].files BY <2>a, <3>2
      <4>2. /\ k \in Keys /\ Resolves(k) /\ File(k).readable
            /\ \A n \in File(k).copies : n.to \in T[Append(d, j)].files
        BY <2>6, <4>1 DEF Followed
      <4> QED BY <2>7, <4>2
    <3> QED BY <3>1, <3>2
  <2>10. ASSUME NEW S \in Endless PROVE files \cap S = {}
    <3>1. \A j \in Nested(d) : T[Append(d, j)].files \cap S = {}
      BY <2>6 DEF Followed
    <3>2. stem \notin S
      <4> SUFFICES ASSUME stem \in S PROVE FALSE
        OBVIOUS
      <4>1. PICK b \in S : Includes(stem, b) BY DEF Endless
      <4>2. b \in Nested(d) BY <4>1 DEF Includes, Nested
      <4> QED BY <2>7, <3>1, <4>1, <4>2
    <3>3. \A F \in below : F \cap S = {} BY <3>1
    <3> HIDE DEF files, below, stem
    <3> QED BY <2>a, <3>2, <3>3
  <2>11. Followed(d) BY <2>8, <2>9, <2>10 DEF Followed
  <2>12. NoClauseMalformed => ~expand_copybook_text[d]
    <3> SUFFICES ASSUME NoClauseMalformed PROVE ~expand_copybook_text[d]
      OBVIOUS
    <3>1. ASSUME NEW n \in File(stem).copies
          PROVE  ~(\/ n.clause = "malformed"
                   \/ n.to \in EntriesOf(d) \/ ~Resolves(n.to)
                   \/ expand_copybook_text[Append(d, n.to)])
      <4>1. n.to \in Nested(d) BY DEF Nested
      <4> QED BY <2>3, <2>6, <4>1 DEF NoClauseMalformed
    <3> QED BY <2>4, <2>5, <3>1 DEF FailsOf
  <2> QED BY <2>2, <2>11, <2>12
<1>2. Open(c) /\ Left(c) \in Nat BY LeftIsNat
<1>3. Fine(c)
  <2> HIDE DEF Open, Fine
  <2> QED BY <1>1, <1>2
<1> QED BY <1>3

(* In a clean application every copybook that a program COPYs is followed,  *)
(* and everything below it is supported.                                   *)
LEMMA CopyIsFollowed ==
  ASSUME Given, Clean, NEW i \in Programs, NEW c \in P(i).copies
  PROVE  LET key == normalize_cobol_name(c.name)
         IN  /\ Followed(<<key>>) /\ <<key>>[Len(<<key>>)] = key
             /\ NoClauseMalformed => ~expand_copybook_text[<<key>>]
             /\ c.clause # "malformed" /\ Resolves(key)
             /\ \A k \in collect_copybook_texts[<<key>>].files :
                  File(k).level = "SUPPORTED"
<1> DEFINE key == normalize_cobol_name(c.name)
           T == collect_copybook_texts[<<key>>]
<1>1. c.name \in CopybookNames BY DEF CopybookNames
<1>2. analyze_copybook(c.name).level = "SUPPORTED" BY <1>1 DEF Clean
<1>3. analyze_copybook(c.name).level =
        IF ~Resolves(key) \/ ~File(key).readable \/ T.errors THEN "UNSUPPORTED"
        ELSE worst_level({File(f).level : f \in T.files})
  BY DEF analyze_copybook, Component
<1>4. /\ Resolves(key) /\ ~T.errors
      /\ worst_level({File(f).level : f \in T.files}) = "SUPPORTED"
  BY <1>2, <1>3
<1>5. key \in Keys BY <1>4 DEF Resolves, Keys
<1>6. <<key>> \in Chains /\ <<key>> # <<>> /\ <<key>>[Len(<<key>>)] = key
  <2> HIDE DEF key
  <2> QED BY <1>5 DEF Chains
<1>7. Followed(<<key>>) /\ (NoClauseMalformed => ~expand_copybook_text[<<key>>])
  <2> HIDE DEF key
  <2> QED BY <1>4, <1>6, ChainsAreFollowed
<1>8. ASSUME NEW k \in T.files PROVE File(k).level = "SUPPORTED"
  <2> DEFINE L == {File(f).level : f \in T.files}
  <2>1. \A f \in T.files : f \in Keys BY <1>7 DEF Followed
  <2>2. \A f \in Keys : File(f).level \in Levels
    BY ApplicationsAssumption DEF Given, Keys, File
  <2>3. L \in SUBSET Levels BY <2>1, <2>2
  <2>4. L \subseteq {"SUPPORTED"}
    <3> HIDE DEF L
    <3> QED BY <1>4, <2>3, WorstIsSupported DEF L
  <2> QED BY <2>4
<1>9. c.clause # "malformed"
  <2>1. scan_copy_replacing(i) \subseteq {"SUPPORTED"}
    BY SupportedProgram DEF Clean, Evidence
  <2> QED BY <2>1 DEF scan_copy_replacing
<1> HIDE DEF T
<1> QED BY <1>4, <1>6, <1>7, <1>8, <1>9 DEF T

(* Every copybook a program merges lies below one that it COPYs. *)
LEMMA MergedIsFollowed ==
  ASSUME Given, Clean, NEW i \in Programs, NEW k \in Merged(i)
  PROVE  \E c \in P(i).copies :
           k \in collect_copybook_texts[<<normalize_cobol_name(c.name)>>].files
<1> DEFINE first == {normalize_cobol_name(c.name) : c \in P(i).copies}
           T == UNION {collect_copybook_texts[<<f>>].files : f \in first}
<1>1. ASSUME NEW f \in first PROVE Followed(<<f>>) /\ <<f>>[Len(<<f>>)] = f
  BY CopyIsFollowed
<1>2. ASSUME NEW t \in T
      PROVE  t \in Keys /\ \A n \in File(t).copies : n.to \in T
  <2>1. PICK f \in first : t \in collect_copybook_texts[<<f>>].files OBVIOUS
  <2>2. /\ t \in Keys
        /\ \A n \in File(t).copies : n.to \in collect_copybook_texts[<<f>>].files
    BY <1>1, <2>1 DEF Followed
  <2> QED BY <2>2
<1>3. first \subseteq T
  <2>1. ASSUME NEW f \in first PROVE f \in collect_copybook_texts[<<f>>].files
    <3>1. <<f>>[Len(<<f>>)] \in collect_copybook_texts[<<f>>].files
      BY <1>1 DEF Followed
    <3> QED BY <1>1, <3>1
  <2> HIDE DEF first
  <2> QED BY <2>1
<1>4. k \in T
  <2> HIDE DEF first, T
  <2>1. \A t \in T \cap DOMAIN app.tree : {n.to : n \in File(t).copies} \subseteq T
    BY <1>2
  <2>2. T \subseteq DOMAIN app.tree BY <1>2 DEF Keys
  <2> QED BY <1>3, <2>1, <2>2 DEF Merged, first
<1> QED BY <1>4

(* A clean application merges only copybooks that are there, readable and  *)
(* supported, and none that includes itself.                               *)
LEMMA CleanIsSound ==
  ASSUME Given, Clean, NEW i \in Programs
  PROVE  /\ \A k \in Merged(i) : /\ Resolves(k) /\ File(k).readable
                                 /\ File(k).level = "SUPPORTED"
         /\ ~Cyclic(Merged(i), Includes)
<1>1. ASSUME NEW k \in Merged(i)
      PROVE  /\ k \in Keys /\ Resolves(k) /\ File(k).readable
             /\ File(k).level = "SUPPORTED"
             /\ \A S \in Endless : k \notin S
  <2>1. PICK c \in P(i).copies :
          k \in collect_copybook_texts[<<normalize_cobol_name(c.name)>>].files
    BY MergedIsFollowed
  <2>2. /\ Followed(<<normalize_cobol_name(c.name)>>)
        /\ File(k).level = "SUPPORTED"
    BY <2>1, CopyIsFollowed
  <2> QED BY <2>1, <2>2 DEF Followed
<1>2. ~Cyclic(Merged(i), Includes)
  <2> SUFFICES ASSUME NEW S \in SUBSET Merged(i), S # {},
                      \A a \in S : \E b \in S : Includes(a, b)
               PROVE  FALSE
    BY DEF Cyclic
  <2>1. S \in Endless BY <1>1 DEF Endless
  <2> QED BY <1>1, <2>1
<1> QED BY <1>1, <1>2

(* What execute() generates was clean. *)
CleanInv ==
  /\ Given
  /\ phase = "analyzed" => Analyzed
  /\ phase \in {"planned", "transformed", "assembled"} \/ report.success =>
       (NamesApart => Clean)

(* The operators of the analysis depend on the application alone. *)
LEMMA SameAnalysis ==
  ASSUME app' = app
  PROVE  /\ Programs' = Programs /\ CopybookNames' = CopybookNames
         /\ NamesApart' <=> NamesApart
         /\ \A i : analyze_program(i)' = analyze_program(i)
         /\ \A n : analyze_copybook(n)' = analyze_copybook(n)
<1>1. /\ Programs' = Programs /\ CopybookNames' = CopybookNames
      /\ NamesApart' <=> NamesApart
  BY DEF Programs, CopybookNames, NamesApart, P
<1>2. ASSUME NEW i PROVE analyze_program(i)' = analyze_program(i)
  BY DEF analyze_program, walk, file_control, source_evidence, usage_evidence,
         data_evidence, scan_copy_replacing, file_capability, file_dependencies,
         Parsed, P, note_ir, note_phrases, PhraseKeys, Phrases, LevelOf,
         IrConstruct, unlowered, file_control_keys, Scanned, SelectKeys, ir_flag_keys,
         ir_keys, ProcedureWords, Component, worst_level, DataWords, ItemsWith,
         certified_data_construct, is_value_only_item,
         is_unreferenced_standalone_item, Standalone, FileControlKeys
<1>3. ASSUME NEW n PROVE analyze_copybook(n)' = analyze_copybook(n)
  BY DEF analyze_copybook, Resolves, collect_copybook_texts, File, EntriesOf,
         normalize_cobol_name, worst_level, Component
<1> QED BY <1>1, <1>2, <1>3

LEMMA CleanInduction ==
  PhaseInv /\ CleanInv /\ [Next]_modernizationVars => CleanInv'
<1> SUFFICES ASSUME PhaseInv, CleanInv, [Next]_modernizationVars
             PROVE  CleanInv'
  OBVIOUS
<1>a. app' = app
  BY DEF Next, Discover, Analyze, Plan, Transform, TransformFails, Assemble,
         AssembleFails, CheckFailClosedSymbols, modernizationVars
<1>b. Given' BY <1>a DEF CleanInv, Given
<1>c. (NamesApart => Clean)' <=> (NamesApart => Clean)
  BY <1>a, SameAnalysis DEF Clean
<1>1. CASE Discover
  BY <1>1, <1>b DEF Discover, PhaseInv, CleanInv, NoReport, Report
<1>2. CASE Analyze
  <2>1. phase' = "analyzed" /\ ~report'.success /\ analysis' = analyze
    BY <1>2 DEF Analyze, PhaseInv, NoReport, Report
  <2>2. /\ analyze.programs = [i \in Programs |-> Available(analyze_program(i))]
        /\ analyze.copybooks = {analyze_copybook(n) : n \in CopybookNames}
    BY DEF analyze
  <2>3. ASSUME NEW i PROVE Available(analyze_program(i))' = Available(analyze_program(i))
    BY <1>a, SameAnalysis DEF Available
  <2>4. Analyzed' BY <1>a, <2>1, <2>2, <2>3, SameAnalysis DEF Analyzed
  <2> QED BY <1>b, <2>1, <2>4 DEF CleanInv
<1>3. CASE Plan
  <2>1. ~report.success /\ phase' # "analyzed" /\ Analyzed
    BY <1>3 DEF Plan, PhaseInv, NoReport, Report, CleanInv
  <2>2. CASE gate(generate_plan)
    <3>1. NamesApart => Clean BY <2>1, <2>2, PlannedIsClean DEF CleanInv, gate
    <3> QED BY <1>b, <1>c, <2>1, <3>1 DEF CleanInv
  <2>3. CASE ~gate(generate_plan)
    <3>1. phase' = "reported" /\ ~report'.success
      BY <1>3, <2>3 DEF Plan, Report
    <3> QED BY <1>b, <3>1 DEF CleanInv
  <2> QED BY <2>2, <2>3
<1>4. CASE Transform \/ Assemble
  <2>1. (NamesApart => Clean) /\ phase' # "analyzed"
    BY <1>4 DEF Transform, Assemble, CleanInv
  <2> QED BY <1>b, <1>c, <2>1 DEF CleanInv
<1>5. CASE TransformFails \/ AssembleFails
  <2>1. phase' = "reported" /\ ~report'.success
    BY <1>5 DEF TransformFails, AssembleFails, assembly_failed, Report
  <2> QED BY <1>b, <2>1 DEF CleanInv
<1>6. CASE CheckFailClosedSymbols
  <2>1. (NamesApart => Clean) /\ phase' = "reported"
    BY <1>6 DEF CheckFailClosedSymbols, CleanInv
  <2> QED BY <1>b, <1>c, <2>1 DEF CleanInv
<1>7. CASE UNCHANGED modernizationVars
  <2>1. UNCHANGED <<app, phase, analysis, report>> BY <1>7 DEF modernizationVars
  <2>2. ASSUME NEW i PROVE Available(analyze_program(i))' = Available(analyze_program(i))
    BY <2>1, SameAnalysis DEF Available
  <2>3. Analyzed' <=> Analyzed BY <2>1, <2>2, SameAnalysis DEF Analyzed
  <2> QED BY <1>b, <1>c, <2>1, <2>3 DEF CleanInv
<1> QED BY <1>1, <1>2, <1>3, <1>4, <1>5, <1>6, <1>7 DEF Next

LEMMA CleanInvariant == Spec => []CleanInv
<1>1. Init => CleanInv BY DEF Init, CleanInv, Given, NoReport, Report
<1> QED BY <1>1, CleanInduction, PhaseInvariant, PTL DEF Spec

(* However deep copybooks are nested, an application that is generated     *)
(* merges only copybooks that exist once, can be read and are supported,   *)
(* and none that includes itself (collect_copybook_texts, _analyze_copybook *)
(* and the SKIP of the plan).                                              *)
THEOREM CopybooksAreSound == Spec => []MergedCopybooksAreSound
<1>1. CleanInv => MergedCopybooksAreSound
  BY CleanIsSound DEF CleanInv, MergedCopybooksAreSound
<1> QED BY <1>1, CleanInvariant, PTL

(* The analysis sees the files that generation merges: the preparation of  *)
(* the copybooks refuses no application that the plan lets through, but    *)
(* for a REPLACING clause inside a copybook.                               *)
THEOREM PreparationIsForeseen == Spec => []PreparationForeseen
<1>1. CleanInv => PreparationForeseen
  <2> SUFFICES ASSUME CleanInv, phase = "planned", NamesApart,
                      \A k \in DOMAIN app.tree : \A n \in File(k).copies :
                        n.clause # "malformed"
               PROVE  prepares
    BY DEF PreparationForeseen
  <2>1. Given /\ Clean /\ NoClauseMalformed
    BY DEF CleanInv, NoClauseMalformed, Keys
  <2> QED BY <2>1, CopyIsFollowed DEF prepares
<1> QED BY <1>1, CleanInvariant, PTL

-----------------------------------------------------------------------------
(* What a supported program is made of.  Every scan has found nothing but  *)
(* support, so nothing it would have objected to is there.                 *)

(* A program of the application, and all its evidence. *)
AllSupported(i) == /\ SaysWhatItCan(P(i))
                   /\ Evidence(i) \subseteq {"SUPPORTED"}

LEMMA CleanPrograms ==
  ASSUME Given, Clean, NEW i \in Programs
  PROVE  AllSupported(i)
<1>1. P(i) \in EntriesOf(app.programs) BY DEF P, EntriesOf, Programs
<1>2. SaysWhatItCan(P(i)) BY <1>1, ProgramsAssumption DEF Given
<1>3. Evidence(i) \subseteq {"SUPPORTED"} BY SupportedProgram DEF Clean
<1> QED BY <1>2, <1>3 DEF AllSupported

(* The parser left no diagnostic. *)
LEMMA NothingDropped ==
  ASSUME NEW i, AllSupported(i) PROVE P(i).diagnostics = {}
<1>1. {"UNSUPPORTED" : d \in P(i).diagnostics} \subseteq {"SUPPORTED"}
  BY DEF AllSupported, Evidence, walk
<1> QED BY <1>1

(* A construct the scan finds in the procedure is covered by a statement or *)
(* by a phrase or file clause, for nothing only seen there is supported.   *)
LEMMA WordsAreCovered ==
  ASSUME NEW i, AllSupported(i), NEW k \in ProcedureWords(i)
  PROVE  k \in ir_keys(i) \cup ir_flag_keys(i) \/ IrConstruct(k) \in ir_keys(i)
<1> SUFFICES ASSUME k \notin ir_keys(i) \cup ir_flag_keys(i),
                    IrConstruct(k) \notin ir_keys(i)
             PROVE  FALSE
  OBVIOUS
<1>1. CONSTRUCT_REGISTRY[k].source_level \in source_evidence(i) BY DEF source_evidence
<1>2. k \in DOMAIN CONSTRUCT_REGISTRY BY DEF ProcedureWords, Scanned
<1>3. CONSTRUCT_REGISTRY[k].source_level = "SUPPORTED"
  BY <1>1 DEF AllSupported, Evidence
<1> QED BY <1>2, <1>3, ConstructsAssumption

(* What becomes another construct's statement becomes it at once, and is as *)
(* supported as that.                                                      *)
LEMMA IrConstructs ==
  ASSUME NEW k
  PROVE  /\ IrConstruct(IrConstruct(k)) = IrConstruct(k)
         /\ LevelOf(IrConstruct(k)) = LevelOf(k)
<1>1. IrConstruct(IrConstruct(k)) = IrConstruct(k) BY DEF IrConstruct
<1>2. LevelOf(IrConstruct(k)) = LevelOf(k)
  <2>1. CASE k \in {"EVALUATE", "PERFORM TIMES"} BY <2>1, ConstructsAssumption
  <2>2. CASE k \notin {"EVALUATE", "PERFORM TIMES"} BY <2>2 DEF IrConstruct
  <2> QED BY <2>1, <2>2
<1> QED BY <1>1, <1>2

(* The keys of parsed statements are no phrase's and no file clause's. *)
LEMMA StatementKeysApart ==
  ASSUME NEW i, AllSupported(i), NEW k \in ir_keys(i)
  PROVE  k \notin PhraseConstructs \cup FileControlKeys
<1>1. PICK t \in P(i).statements : k = IrConstruct(t.key)
  BY DEF ir_keys, Parsed
<1>2. t.key \notin PhraseConstructs \cup FileControlKeys
  BY DEF AllSupported, SaysWhatItCan
<1> QED BY <1>1, <1>2 DEF IrConstruct, PhraseConstructs, FileControlKeys

(* What covers a construct for the whole program. *)
LEMMA FlagKeys ==
  ASSUME NEW i, AllSupported(i)
  PROVE  /\ PhraseKeys(i) \subseteq PhraseConstructs
         /\ file_control_keys(i) \subseteq FileControlKeys
<1>1. PhraseKeys(i) \subseteq PhraseConstructs
  BY DEF PhraseKeys, Phrases, Parsed, AllSupported, SaysWhatItCan
<1>2. ASSUME NEW f PROVE SelectKeys(f) \subseteq FileControlKeys
  BY DEF SelectKeys, FileControlKeys
<1>3. file_control_keys(i) \subseteq FileControlKeys BY <1>2 DEF file_control_keys
<1> QED BY <1>1, <1>3

(* A parsed statement is of a supported construct and can be lowered. *)
LEMMA ParsedIsLowered ==
  ASSUME NEW i, AllSupported(i), NEW s \in Parsed(i)
  PROVE  LevelOf(IrConstruct(s.key)) = "SUPPORTED" /\ s.lowers = "fully"
<1>1. note_ir(s) = "SUPPORTED"
  <2>1. note_ir(s) \in walk(i) BY DEF walk
  <2> QED BY <2>1 DEF AllSupported, Evidence
<1>2. s \notin unlowered(i)
  <2>1. {"UNSUPPORTED" : u \in unlowered(i)} \subseteq {"SUPPORTED"}
    BY DEF AllSupported, Evidence, walk
  <2> QED BY <2>1
<1>3. s.lowers \in {"fully", "outside", "not"}
  BY DEF Parsed, AllSupported, SaysWhatItCan
<1> QED BY <1>1, <1>2, <1>3 DEF note_ir, unlowered

(* Every statement has its construct parsed, here or elsewhere. *)
LEMMA StatementIsParsed ==
  ASSUME NEW i, AllSupported(i), NEW s \in P(i).statements
  PROVE  \E t \in Parsed(i) : IrConstruct(t.key) = IrConstruct(s.key)
<1>1. CASE s.parsed BY <1>1 DEF Parsed
<1>2. CASE ~s.parsed
  <2>1. s.key \in ProcedureWords(i)
    BY <1>2, NothingDropped DEF AllSupported, SaysWhatItCan, ProcedureWords
  <2>2. s.key \notin ir_flag_keys(i)
    BY FlagKeys DEF ir_flag_keys, AllSupported, SaysWhatItCan
  <2>3. s.key \in ir_keys(i) \/ IrConstruct(s.key) \in ir_keys(i)
    BY <2>1, <2>2, WordsAreCovered
  <2>4. IrConstruct(s.key) \in ir_keys(i)
    <3>1. CASE s.key \in ir_keys(i)
      <4>1. PICK t \in Parsed(i) : s.key = IrConstruct(t.key) BY <3>1 DEF ir_keys
      <4>2. IrConstruct(s.key) = s.key BY <4>1, IrConstructs
      <4> QED BY <3>1, <4>2
    <3> QED BY <2>3, <3>1
  <2> QED BY <2>4 DEF ir_keys
<1> QED BY <1>1, <1>2

(* Every phrase of a statement was attached to one. *)
LEMMA PhraseIsAttached ==
  ASSUME NEW i, AllSupported(i), NEW s \in P(i).statements, NEW q \in s.phrases
  PROVE  q.key \in PhraseKeys(i)
<1>1. q.key \in PhraseConstructs BY DEF AllSupported, SaysWhatItCan
<1>2. Scanned(q.key) BY <1>1, ConstructsAssumption
<1>3. q.key \in ProcedureWords(i) BY <1>2 DEF ProcedureWords, Phrases
<1>4. IrConstruct(q.key) = q.key BY <1>1 DEF IrConstruct, PhraseConstructs
<1>5. q.key \notin ir_keys(i) BY <1>1, StatementKeysApart
<1>6. q.key \in ir_flag_keys(i) BY <1>3, <1>4, <1>5, WordsAreCovered
<1>7. q.key \notin file_control_keys(i)
  BY <1>1, FlagKeys DEF PhraseConstructs, FileControlKeys
<1> QED BY <1>6, <1>7 DEF ir_flag_keys

(* And is supported. *)
LEMMA PhraseIsSupported ==
  ASSUME NEW i, AllSupported(i), NEW k \in PhraseKeys(i)
  PROVE  LevelOf(k) = "SUPPORTED"
<1>1. CASE k \in {"INVALID KEY", "FIGURATIVE CONSTANT"} BY <1>1, ConstructsAssumption
<1>2. CASE k \notin {"INVALID KEY", "FIGURATIVE CONSTANT"}
  <2>1. LevelOf(k) \in note_phrases(i) BY <1>2 DEF note_phrases
  <2> QED BY <2>1 DEF AllSupported, Evidence, walk
<1> QED BY <1>1, <1>2

LEMMA LoweredStatements ==
  ASSUME NEW i, AllSupported(i) PROVE StatementsLowered(i)
<1> SUFFICES ASSUME NEW s \in P(i).statements
             PROVE  /\ LevelOf(s.key) = "SUPPORTED" /\ (s.parsed => s.lowers = "fully")
                    /\ \E t \in P(i).statements :
                          t.parsed /\ IrConstruct(t.key) = IrConstruct(s.key)
                    /\ \A p \in s.phrases : /\ LevelOf(p.key) = "SUPPORTED"
                                            /\ p.key \in PhraseKeys(i)
  BY DEF StatementsLowered
<1>1. PICK t \in Parsed(i) : IrConstruct(t.key) = IrConstruct(s.key)
  BY StatementIsParsed
<1>2. LevelOf(s.key) = "SUPPORTED" BY <1>1, ParsedIsLowered, IrConstructs
<1>3. s.parsed => s.lowers = "fully" BY ParsedIsLowered DEF Parsed
<1>4. t \in P(i).statements /\ t.parsed BY DEF Parsed
<1>5. \A p \in s.phrases : LevelOf(p.key) = "SUPPORTED" /\ p.key \in PhraseKeys(i)
  BY PhraseIsAttached, PhraseIsSupported
<1> QED BY <1>1, <1>2, <1>3, <1>4, <1>5

(* The words before the PROCEDURE DIVISION that are no file clause, and not *)
(* supported in themselves: each is an overlay or a table, certified.      *)
LEMMA WordIsCertified ==
  ASSUME NEW i, AllSupported(i),
         NEW k \in DataWords(i), k \notin PhraseConstructs \cup FileControlKeys,
         LevelOf(k) # "SUPPORTED"
  PROVE  certified_data_construct(k, i)
<1>1. k \in DataWords(i) \ ir_flag_keys(i) BY FlagKeys DEF ir_flag_keys
<1>2. CASE ~certified_data_construct(k, i)
  <2>1. LevelOf(k) \in data_evidence(i) BY <1>1, <1>2 DEF data_evidence
  <2> QED BY <2>1 DEF AllSupported, Evidence
<1> QED BY <1>2

LEMMA NoWords == ASSUME NEW i, AllSupported(i) PROVE P(i).words = {}
<1> SUFFICES ASSUME NEW w \in P(i).words PROVE FALSE
  OBVIOUS
<1>1. w \in {"LOCAL-STORAGE", "REPLACE"} BY DEF AllSupported, SaysWhatItCan
<1>2. w \in DataWords(i) BY DEF DataWords
<1>3. w \notin PhraseConstructs \cup FileControlKeys
  BY <1>1 DEF PhraseConstructs, FileControlKeys
<1>4. certified_data_construct(w, i)
  BY <1>1, <1>2, <1>3, WordIsCertified, ConstructsAssumption
<1> QED BY <1>1, <1>4 DEF certified_data_construct

(* Nothing but a value is seen of an encoded item, and overlays and tables *)
(* are certified.                                                          *)
LEMMA UnseenBytes == ASSUME NEW i, AllSupported(i) PROVE BytesUnseen(i)
<1> SUFFICES ASSUME NEW d \in P(i).items
             PROVE  /\ d.usage # "DISPLAY" =>
                         /\ d.alone /\ P(i).copies = {}
                         /\ \/ d.uses = {}
                            \/ d.uses = {"value"} /\ d.usage \in {"COMP", "COMP-3"}
                    /\ d.clause # "none" => d.certified
                    /\ d.clause \in {"REDEFINES", "OCCURS"} => d.place = "WORKING-STORAGE"
                    /\ d.clause = "OCCURS" => "whole" \notin d.uses
  BY DEF BytesUnseen
<1>1. ASSUME d.usage # "DISPLAY"
      PROVE  /\ d.alone /\ P(i).copies = {}
             /\ \/ d.uses = {}
                \/ d.uses = {"value"} /\ d.usage \in {"COMP", "COMP-3"}
  <2>1. is_unreferenced_standalone_item(i, d) \/ is_value_only_item(i, d)
    <3> SUFFICES ASSUME ~is_unreferenced_standalone_item(i, d), ~is_value_only_item(i, d)
                 PROVE  FALSE
      OBVIOUS
    <3>1. (IF d.usage \in DOMAIN CONSTRUCT_REGISTRY THEN LevelOf(d.usage) ELSE "PARTIAL")
            \in usage_evidence(i)
      BY <1>1 DEF usage_evidence
    <3>2. (IF d.usage \in DOMAIN CONSTRUCT_REGISTRY THEN LevelOf(d.usage) ELSE "PARTIAL")
            = "SUPPORTED"
      BY <3>1 DEF AllSupported, Evidence
    <3>3. d.usage \in {"COMP", "COMP-1", "COMP-2", "COMP-3", "COMP-5"}
      BY <1>1, <3>2 DEF AllSupported, SaysWhatItCan
    <3> QED BY <3>2, <3>3, ConstructsAssumption
  <2> QED BY <2>1 DEF is_unreferenced_standalone_item, is_value_only_item, Standalone
<1>2. CASE d.clause \in {"REDEFINES", "OCCURS"}
  <2>1. d.clause \in DataWords(i) BY <1>2 DEF DataWords
  <2>2. d.clause \notin PhraseConstructs \cup FileControlKeys
    BY <1>2 DEF PhraseConstructs, FileControlKeys
  <2>3. certified_data_construct(d.clause, i)
    BY <1>2, <2>1, <2>2, WordIsCertified, ConstructsAssumption
  <2>4. d \in ItemsWith(i, d.clause) BY DEF ItemsWith
  <2>5. /\ d.certified /\ d.place = "WORKING-STORAGE"
        /\ d.clause = "OCCURS" => "whole" \notin d.uses
    BY <2>3, <2>4 DEF certified_data_construct
  <2> QED BY <1>1, <2>5
<1>3. CASE d.clause = "88-LEVEL"
  <2>1. {"UNSUPPORTED" : e \in {f \in ItemsWith(i, "88-LEVEL") : ~f.certified}}
          \subseteq {"SUPPORTED"}
    BY DEF AllSupported, Evidence, data_evidence
  <2>2. d.certified BY <1>3, <2>1 DEF ItemsWith
  <2> QED BY <1>1, <1>3, <2>2
<1>4. CASE d.clause = "none" BY <1>1, <1>4
<1> QED BY <1>2, <1>3, <1>4 DEF AllSupported, SaysWhatItCan

(* Every file definition and file operation is certified. *)
LEMMA FilesAreCertified ==
  ASSUME NEW i, AllSupported(i)
  PROVE  /\ \A f \in P(i).files : f.defined => ~f.alternate
         /\ \A f \in file_dependencies(i) : file_capability(f) = "SUPPORTED"
<1>1. ASSUME NEW f \in P(i).files, f.defined, f.alternate PROVE FALSE
  <2>1. "UNSUPPORTED" \in file_control(i) BY <1>1 DEF file_control
  <2> QED BY <2>1 DEF AllSupported, Evidence
<1>2. \A f \in file_dependencies(i) : file_capability(f) = "SUPPORTED"
  BY DEF AllSupported, Evidence
<1> QED BY <1>1, <1>2

(* An application without programs is not generated (execute() refuses it), *)
(* so that the Docker a clean program needs is there.                      *)
ProgramsInv ==
  phase \in {"transformed", "assembled"} \/ report.success => Programs # {}

LEMMA ProgramsInduction ==
  PhaseInv /\ ProgramsInv /\ [Next]_modernizationVars => ProgramsInv'
<1> SUFFICES ASSUME PhaseInv, ProgramsInv, [Next]_modernizationVars
             PROVE  ProgramsInv'
  OBVIOUS
<1>a. Programs' = Programs
  BY DEF Next, Discover, Analyze, Plan, Transform, TransformFails, Assemble,
         AssembleFails, CheckFailClosedSymbols, modernizationVars, Programs
<1>1. CASE Discover \/ Analyze \/ Plan \/ TransformFails \/ AssembleFails
  BY <1>1, <1>a DEF Discover, Analyze, Plan, TransformFails, AssembleFails,
     assembly_failed, PhaseInv, ProgramsInv, NoReport, Report
<1>2. CASE Transform BY <1>2, <1>a DEF Transform, ProgramsInv
<1>3. CASE Assemble BY <1>3, <1>a DEF Assemble, ProgramsInv
<1>4. CASE CheckFailClosedSymbols
  BY <1>4, <1>a DEF CheckFailClosedSymbols, ProgramsInv, Report
<1>5. CASE UNCHANGED modernizationVars
  BY <1>5, <1>a DEF modernizationVars, ProgramsInv
<1> QED BY <1>1, <1>2, <1>3, <1>4, <1>5 DEF Next

(* Whatever an application says, and whichever scan is to see it: no        *)
(* statement, phrase, clause, byte encoding or file operation that the     *)
(* mapper has no certified Java for is in a generated application, and     *)
(* Docker was there to prove it (_analyze_program_unit, _aggregate, the    *)
(* SKIP of the plan and its gate).                                         *)
THEOREM GeneratedIsSupported == Spec => []OnlySupportedIsGenerated
<1>1. Init => ProgramsInv BY DEF Init, ProgramsInv, NoReport, Report
<1>2. CleanInv /\ ProgramsInv => OnlySupportedIsGenerated
  <2> SUFFICES ASSUME CleanInv, ProgramsInv, report.success, NamesApart
               PROVE  /\ app.docker
                      /\ \A i \in Programs :
                           /\ P(i).diagnostics = {} /\ P(i).words = {}
                           /\ StatementsLowered(i) /\ BytesUnseen(i)
                           /\ \A f \in P(i).files : f.defined => ~f.alternate
                           /\ \A f \in file_dependencies(i) :
                                file_capability(f) = "SUPPORTED"
    BY DEF OnlySupportedIsGenerated
  <2>1. Given /\ Clean BY DEF CleanInv
  <2>2. app.docker BY <2>1 DEF Clean, ProgramsInv
  <2>3. ASSUME NEW i \in Programs
        PROVE  /\ P(i).diagnostics = {} /\ P(i).words = {}
               /\ StatementsLowered(i) /\ BytesUnseen(i)
               /\ \A f \in P(i).files : f.defined => ~f.alternate
               /\ \A f \in file_dependencies(i) : file_capability(f) = "SUPPORTED"
    <3>1. AllSupported(i) BY <2>1, CleanPrograms
    <3> QED BY <3>1, NothingDropped, NoWords, LoweredStatements, UnseenBytes,
               FilesAreCertified
  <2> QED BY <2>2, <2>3
<1> QED BY <1>1, <1>2, CleanInvariant, ProgramsInduction, PhaseInvariant, PTL DEF Spec

-----------------------------------------------------------------------------
(* The depth first search over edges E between the names N.                *)

(* Finitely many edges and names. *)
Graph(E, N) == /\ Len(E) \in Nat /\ IsFiniteSet(N)
               /\ \A k \in 1..Len(E) : E[k].target \in N

(* What is left to visit: names not visited, and edges of this name.       *)
Width(E) == Len(E) + 2
Rest(E, k) == IF k > Len(E) THEN 0 ELSE Len(E) + 1 - k
ToDo(E, N, v) == Cardinality(N \ v.known.visited) * Width(E) + Rest(E, v.next)

(* A search forgets nothing. *)
Grows(s, r) == s.visited \subseteq r.visited /\ s.cycles \subseteq r.cycles

(* More times a width is more. *)
LEMMA Multiple ==
  ASSUME NEW x \in Nat, NEW d \in Nat, NEW w \in Nat
  PROVE  x * w <= (x + d) * w
<1> DEFINE wrong == {e \in Nat : ~(x * w <= (x + e) * w)}
<1>1. wrong = {}
  <2> SUFFICES ASSUME wrong # {} PROVE FALSE
    OBVIOUS
  <2>1. PICK e \in wrong : \A k \in wrong : e <= k
    <3>1. wrong \in SUBSET Nat OBVIOUS
    <3> HIDE DEF wrong
    <3> QED BY <3>1, LeastNumber
  <2>2. CASE e = 0
    <3>1. x + 0 = x OBVIOUS
    <3> QED BY <2>1, <2>2, <3>1
  <2>3. CASE e # 0
    <3>1. e \in Nat /\ e - 1 \in Nat /\ ~(e <= e - 1) BY <2>1, <2>3
    <3>2. e - 1 \notin wrong
      <4> HIDE DEF wrong
      <4> QED BY <2>1, <3>1
    <3> DEFINE y == x + (e - 1)
    <3>3. y \in Nat /\ x + e = y + 1 BY <3>1
    <3>4. x * w <= y * w BY <3>1, <3>2
    <3> HIDE DEF y
    <3>5. (y + 1) * w = y * w + w BY <3>3
    <3>6. x * w \in Nat /\ y * w \in Nat BY <3>3
    <3> QED BY <2>1, <3>3, <3>4, <3>5, <3>6
  <2> QED BY <2>2, <2>3
<1> QED BY <1>1

(* Fewer names weigh more than any number of edges. *)
LEMMA Weigh ==
  ASSUME NEW a \in Nat, NEW b \in Nat, NEW w \in Nat, NEW r \in Nat, NEW q \in Nat,
         \/ b <= a /\ q < r
         \/ b <= a - 1 /\ q < w
  PROVE  /\ a * w + r \in Nat /\ b * w + q \in Nat
         /\ b * w + q <= (a * w + r) - 1
<1>1. ASSUME NEW x \in Nat, NEW y \in Nat, x <= y PROVE x * w <= y * w
  <2>1. y - x \in Nat /\ x + (y - x) = y BY <1>1
  <2> QED BY <2>1, Multiple
<1>2. a * w \in Nat /\ b * w \in Nat OBVIOUS
<1>3. CASE b <= a /\ q < r
  <2>1. b * w <= a * w BY <1>1, <1>3
  <2> QED BY <1>2, <1>3, <2>1
<1>4. CASE b <= a - 1 /\ q < w
  <2>1. b + 1 \in Nat /\ b + 1 <= a BY <1>4
  <2>2. (b + 1) * w <= a * w BY <1>1, <2>1
  <2>3. (b + 1) * w = b * w + w OBVIOUS
  <2> QED BY <1>2, <1>4, <2>2, <2>3
<1> QED BY <1>3, <1>4

(* A visit may go on to the next edge, knowing no less.                    *)
LEMMA NextHasLess ==
  ASSUME NEW E, NEW N, Graph(E, N), NEW v \in Visits(N), v.next <= Len(E),
         NEW r \in States(N), Grows(v.known, r)
  PROVE  /\ Visit(v.stack, v.next + 1, r) \in Visits(N)
         /\ ToDo(E, N, Visit(v.stack, v.next + 1, r)) <= ToDo(E, N, v) - 1
         /\ ToDo(E, N, v) \in Nat
<1> DEFINE a == Cardinality(N \ v.known.visited)
           b == Cardinality(N \ r.visited)
           u == Visit(v.stack, v.next + 1, r)
<1>1. IsFiniteSet(N \ v.known.visited) /\ N \ r.visited \in SUBSET (N \ v.known.visited)
  BY FS_Subset DEF Graph, Grows
<1>2. a \in Nat /\ b \in Nat /\ b <= a
  BY <1>1, FS_Subset, FS_CardinalityType
<1>3. /\ Width(E) \in Nat /\ Rest(E, v.next) \in Nat /\ Rest(E, v.next + 1) \in Nat
      /\ Rest(E, v.next + 1) < Rest(E, v.next)
  BY DEF Width, Rest, Graph, Visits
<1>4. u \in Visits(N) /\ u.known = r /\ u.next = v.next + 1 BY DEF Visits, Visit
<1>5. /\ ToDo(E, N, v) = a * Width(E) + Rest(E, v.next)
      /\ ToDo(E, N, u) = b * Width(E) + Rest(E, v.next + 1)
  BY <1>4 DEF ToDo
<1> HIDE DEF a, b, u
<1>6. /\ a * Width(E) + Rest(E, v.next) \in Nat
      /\ b * Width(E) + Rest(E, v.next + 1) \in Nat
      /\ b * Width(E) + Rest(E, v.next + 1) <= (a * Width(E) + Rest(E, v.next)) - 1
  BY <1>2, <1>3, Weigh
<1> DEFINE p == a * Width(E) + Rest(E, v.next)
           q == b * Width(E) + Rest(E, v.next + 1)
<1>7. p \in Nat /\ q <= p - 1 /\ ToDo(E, N, v) = p /\ ToDo(E, N, u) = q
  BY <1>5, <1>6, Zenon
<1> HIDE DEF p, q
<1>8. /\ u \in Visits(N) /\ ToDo(E, N, v) \in Nat
      /\ ToDo(E, N, u) <= ToDo(E, N, v) - 1
  BY <1>4, <1>7
<1> QED BY <1>8 DEF u

(* Or begin at a name not visited. *)
LEMMA DownHasLess ==
  ASSUME NEW E, NEW N, Graph(E, N), NEW v \in Visits(N), v.next <= Len(E),
         NEW t \in N, t \notin v.known.visited
  PROVE  LET u == Visit(Append(v.stack, t), 1, Down(v.known, t))
         IN  /\ u \in Visits(N) /\ Grows(v.known, u.known)
             /\ ToDo(E, N, u) <= ToDo(E, N, v) - 1
<1> DEFINE u == Visit(Append(v.stack, t), 1, Down(v.known, t))
           A == N \ v.known.visited
           B == N \ u.known.visited
           a == Cardinality(A)
           b == Cardinality(B)
<1>1. /\ u \in Visits(N) /\ Grows(v.known, u.known) /\ u.next = 1
      /\ u.known.visited = v.known.visited \cup {t}
  BY DEF Down, Search, States, Visit, Visits, Grows
<1>2. /\ B = A \ {t} /\ t \in A BY <1>1
<1>3. IsFiniteSet(A) /\ IsFiniteSet(B) BY FS_Subset DEF Graph
<1>4. ToDo(E, N, v) = a * Width(E) + Rest(E, v.next) /\ ToDo(E, N, u) = b * Width(E) + Rest(E, 1)
  BY <1>1 DEF ToDo
<1>5. a \in Nat /\ b \in Nat /\ b <= a - 1
  <2> HIDE DEF A, B
  <2>1. a \in Nat /\ b \in Nat BY <1>3, FS_CardinalityType
  <2>2. b = a - 1 BY <1>2, <1>3, FS_RemoveElement
  <2> HIDE DEF a, b
  <2> QED BY <2>1, <2>2
<1>6. /\ Width(E) \in Nat /\ Rest(E, v.next) \in Nat /\ Rest(E, 1) \in Nat
      /\ Rest(E, 1) < Width(E)
  BY DEF Width, Rest, Graph, Visits
<1> HIDE DEF a, b, u
<1>7. b * Width(E) + Rest(E, 1) <= (a * Width(E) + Rest(E, v.next)) - 1
  BY <1>5, <1>6, Weigh
<1> DEFINE p == a * Width(E) + Rest(E, v.next)
           q == b * Width(E) + Rest(E, 1)
<1>8. q <= p - 1 /\ ToDo(E, N, v) = p /\ ToDo(E, N, u) = q
  BY <1>4, <1>7, Zenon
<1> HIDE DEF p, q
<1>9. ToDo(E, N, u) <= ToDo(E, N, v) - 1 BY <1>8
<1> QED BY <1>1, <1>9 DEF u

(* Or note a cycle. *)
LEMMA MetGrows ==
  ASSUME NEW N, NEW v \in Visits(N), NEW t \in N
  PROVE  /\ Met(v.known, v.stack, t) \in States(N)
         /\ Grows(v.known, Met(v.known, v.stack, t))
         /\ t \in EntriesOf(v.stack) => Met(v.known, v.stack, t).cycles # {}
         /\ Met(v.known, v.stack, t).visited = v.known.visited
<1>1. v.stack \in Seq(N) /\ v.known \in States(N) BY DEF Visits
<1>2. ASSUME NEW x \in EntriesOf(v.stack) \cap {t}
      PROVE  Append(SuffixFrom(v.stack, x), x) \in Seq(N)
  <2>1. \E k \in DOMAIN v.stack : v.stack[k] = x BY <1>2 DEF EntriesOf
  <2>2. PICK k \in DOMAIN v.stack : SuffixFrom(v.stack, x) = SubSeq(v.stack, k, Len(v.stack))
    BY <2>1 DEF SuffixFrom
  <2>3. k \in 1..Len(v.stack) /\ Len(v.stack) \in Nat BY <1>1, <2>2
  <2>4. SubSeq(v.stack, k, Len(v.stack)) \in Seq(N)
    BY <1>1, <2>3
  <2> QED BY <1>2, <2>2, <2>4
<1> DEFINE C == {Append(SuffixFrom(v.stack, u), u) : u \in {t} \cap EntriesOf(v.stack)}
<1>3. C \subseteq Seq(N) BY <1>2
<1>4. t \in EntriesOf(v.stack) => C # {} OBVIOUS
<1>5. Met(v.known, v.stack, t) = [visited |-> v.known.visited, cycles |-> v.known.cycles \cup C]
  BY DEF Met, Search
<1> HIDE DEF C
<1> QED BY <1>1, <1>3, <1>4, <1>5 DEF States, Grows

(* There is never more to do than this. *)
Most(E, N) == (Cardinality(N) + 1) * Width(E)

LEMMA ToDoIsBounded ==
  ASSUME NEW E, NEW N, Graph(E, N), NEW v \in Visits(N)
  PROVE  /\ ToDo(E, N, v) \in Nat /\ Most(E, N) \in Nat
         /\ ToDo(E, N, v) <= Most(E, N)
<1> DEFINE a == Cardinality(N \ v.known.visited)
           c == Cardinality(N) + 1
           w == Width(E)
           q == Rest(E, v.next)
<1>1. a \in Nat /\ c \in Nat /\ a <= c - 1
  <2>1. IsFiniteSet(N) /\ N \ v.known.visited \in SUBSET N BY DEF Graph
  <2> QED BY <2>1, FS_Subset, FS_CardinalityType
<1>2. w \in Nat /\ q \in Nat /\ q < w
  BY DEF Width, Rest, Graph, Visits
<1>3. ToDo(E, N, v) = a * w + q /\ Most(E, N) = c * w BY DEF ToDo, Most
<1> HIDE DEF a, c, w, q
<1>4. a * w + q \in Nat /\ a * w + q <= (c * w + 0) - 1 BY <1>1, <1>2, Weigh
<1>5. c * w \in Nat BY <1>1, <1>2
<1> DEFINE x == a * w + q
           y == c * w
<1>6. x \in Nat /\ y \in Nat /\ x <= (y + 0) - 1 BY <1>4, <1>5, Zenon
<1>7. ToDo(E, N, v) = x /\ Most(E, N) = y BY <1>3
<1> HIDE DEF x, y
<1> QED BY <1>6, <1>7

(* Each name of S calls another of them: S holds a cycle.                  *)
Closed(E, S) ==
  \A a \in S : \E k \in 1..Len(E) : E[k].source = a /\ E[k].target \in S

(* A visit enters with no name of S behind it, and no call of S from the   *)
(* edges it has seen; and it leaves, when no cycle is found, with its name *)
(* outside S.                                                              *)
Last(v) == v.stack[Len(v.stack)]
Entered(E, S, v) ==
  /\ v.stack # <<>>
  /\ v.known.visited \cap S \subseteq EntriesOf(v.stack)
  /\ \A k \in 1..Len(E) :
       k < v.next /\ E[k].source = Last(v) => E[k].target \notin S
LeftBehind(S, v, r) ==
  r.cycles = {} => Last(v) \notin S /\ r.visited \cap S \subseteq EntriesOf(v.stack)
Answers(E, N, S, v, r) ==
  /\ r \in States(N) /\ Grows(v.known, r)
  /\ Entered(E, S, v) => LeftBehind(S, v, r)

LEMMA GrowsOn ==
  ASSUME NEW a, NEW b, NEW c, Grows(a, b), Grows(b, c)
  PROVE  Grows(a, c)
BY DEF Grows

(* The next edge, when this one leads nowhere in S. *)
LEMMA NextAnswers ==
  ASSUME NEW E, NEW N, NEW S, Graph(E, N), NEW v \in Visits(N), v.next <= Len(E),
         NEW d \in States(N), Grows(v.known, d),
         Entered(E, S, v) /\ d.cycles = {} =>
           /\ d.visited \cap S \subseteq EntriesOf(v.stack)
           /\ E[v.next].source = Last(v) => E[v.next].target \notin S,
         NEW r, Answers(E, N, S, Visit(v.stack, v.next + 1, d), r)
  PROVE  Answers(E, N, S, v, r)
<1> DEFINE u == Visit(v.stack, v.next + 1, d)
<1>1. u.stack = v.stack /\ u.next = v.next + 1 /\ u.known = d /\ Last(u) = Last(v)
  BY DEF Visit, Last
<1>2. Grows(v.known, r) /\ r \in States(N) BY <1>1, GrowsOn DEF Answers
<1>3. r.cycles = {} => d.cycles = {} BY <1>1 DEF Answers, Grows
<1>4. ASSUME Entered(E, S, v), d.cycles = {} PROVE Entered(E, S, u)
  <2>1. ASSUME NEW k \in 1..Len(E), k < u.next, E[k].source = Last(u)
        PROVE  E[k].target \notin S
    <3>1. k < v.next \/ k = v.next BY <1>1, <2>1 DEF Visits, Graph
    <3> QED BY <1>1, <1>4, <2>1, <3>1 DEF Entered
  <2> QED BY <1>1, <1>4, <2>1 DEF Entered
<1>5. LeftBehind(S, u, r) => LeftBehind(S, v, r) BY <1>1 DEF LeftBehind
<1>6. Entered(E, S, u) => LeftBehind(S, u, r) BY DEF Answers
<1>7. ASSUME Entered(E, S, v) PROVE LeftBehind(S, v, r)
  BY <1>3, <1>4, <1>5, <1>6, <1>7 DEF LeftBehind
<1> QED BY <1>2, <1>7 DEF Answers

(* Appending: the new top, and the entries. *)
LEMMA Appended ==
  ASSUME NEW N, NEW s \in Seq(N), NEW t \in N
  PROVE  /\ Append(s, t) # <<>> /\ Append(s, t)[Len(Append(s, t))] = t
         /\ EntriesOf(Append(s, t)) = EntriesOf(s) \cup {t}
<1> DEFINE d == Append(s, t)
<1>1. /\ d # <<>> /\ d[Len(d)] = t
      /\ Len(s) \in Nat /\ Len(d) = Len(s) + 1
      /\ \A i \in 1..Len(s) : d[i] = s[i]
      /\ DOMAIN s = 1..Len(s) /\ DOMAIN d = 1..Len(d)
  OBVIOUS
<1> HIDE DEF d
<1>2. \A i : i \in 1..(Len(s) + 1) <=> i \in 1..Len(s) \/ i = Len(s) + 1
  BY <1>1
<1>3. d[Len(s) + 1] = t BY <1>1
<1>4. EntriesOf(d) = EntriesOf(s) \cup {t} BY <1>1, <1>2, <1>3 DEF EntriesOf
<1> QED BY <1>1, <1>4 DEF d

(* A step of the search is right when the visits with less to do are, and  *)
(* looks at no others.                                                     *)
LEMMA StepAnswers ==
  ASSUME NEW E, NEW N, NEW S, Graph(E, N), Closed(E, S),
         NEW v \in Visits(N), NEW m \in Int, ToDo(E, N, v) <= m, NEW f,
         \A w \in Visits(N) : ToDo(E, N, w) <= m - 1 => Answers(E, N, S, w, f[w])
  PROVE  /\ Answers(E, N, S, v, dfs_step(f, E, v))
         /\ \A g : (\A w \in Visits(N) : ToDo(E, N, w) <= m - 1 => g[w] = f[w])
                     => dfs_step(g, E, v) = dfs_step(f, E, v)
<1> DEFINE k == v.next
           t == E[k].target
<1>0. /\ v.stack \in Seq(N) /\ k \in Nat \ {0} /\ v.known \in States(N)
      /\ Len(E) \in Nat
  BY DEF Visits, Graph
<1>1. CASE k > Len(E)
  <2>1. \A g : dfs_step(g, E, v) = v.known BY <1>1 DEF dfs_step
  <2>2. Grows(v.known, v.known) BY DEF Grows
  <2>3. ASSUME Entered(E, S, v), Last(v) \in S PROVE FALSE
    <3>1. PICK j \in 1..Len(E) : E[j].source = Last(v) /\ E[j].target \in S
      BY <2>3 DEF Closed
    <3>2. j < k BY <1>0, <1>1
    <3> QED BY <2>3, <3>1, <3>2 DEF Entered
  <2>4. Answers(E, N, S, v, v.known)
    BY <1>0, <2>2, <2>3 DEF Answers, LeftBehind, Entered
  <2> QED BY <2>1, <2>4
<1> DEFINE u(d) == Visit(v.stack, k + 1, d)
<1>2. ASSUME ~(k > Len(E)) PROVE k <= Len(E) /\ t \in N
  BY <1>0, <1>2 DEF Graph
<1>3. ASSUME ~(k > Len(E)), NEW d \in States(N), Grows(v.known, d)
      PROVE  /\ u(d) \in Visits(N) /\ ToDo(E, N, u(d)) <= m - 1
             /\ Answers(E, N, S, u(d), f[u(d)])
  <2>1. /\ u(d) \in Visits(N)
        /\ ToDo(E, N, u(d)) <= ToDo(E, N, v) - 1
    BY <1>2, <1>3, NextHasLess
  <2> HIDE DEF u
  <2>2. ToDo(E, N, u(d)) \in Nat /\ ToDo(E, N, v) \in Nat BY <2>1, ToDoIsBounded
  <2>3. ToDo(E, N, u(d)) <= m - 1 BY <2>1, <2>2
  <2> QED BY <2>1, <2>3
<1>4. CASE ~(k > Len(E)) /\ E[k].source # Last(v)
  <2>1. \A g : dfs_step(g, E, v) = g[u(v.known)] BY <1>4 DEF dfs_step, Last
  <2>2. Grows(v.known, v.known) BY DEF Grows
  <2>3. Answers(E, N, S, u(v.known), f[u(v.known)]) BY <1>0, <1>3, <1>4, <2>2
  <2>4. Entered(E, S, v) => v.known.visited \cap S \subseteq EntriesOf(v.stack)
    BY DEF Entered
  <2>5. Answers(E, N, S, v, f[u(v.known)])
    BY <1>0, <1>2, <1>4, <2>2, <2>3, <2>4, NextAnswers
  <2>6. u(v.known) \in Visits(N) /\ ToDo(E, N, u(v.known)) <= m - 1
    BY <1>0, <1>3, <1>4, <2>2
  <2> HIDE DEF u
  <2> QED BY <2>1, <2>5, <2>6
<1>5. CASE ~(k > Len(E)) /\ E[k].source = Last(v) /\ t \notin v.known.visited
  <2> DEFINE w == Visit(Append(v.stack, t), 1, Down(v.known, t))
             d == f[w]
  <2>1. \A g : dfs_step(g, E, v) = g[u(g[w])] BY <1>5 DEF dfs_step, Last
  <2>2. /\ w \in Visits(N) /\ Grows(v.known, w.known)
        /\ ToDo(E, N, w) <= ToDo(E, N, v) - 1
    BY <1>2, <1>5, DownHasLess
  <2>3. /\ w.stack = Append(v.stack, t) /\ w.next = 1
        /\ w.known.visited = v.known.visited \cup {t}
    BY DEF Visit, Down, Search
  <2>4. /\ Append(v.stack, t) # <<>> /\ Last(w) = t
        /\ EntriesOf(w.stack) = EntriesOf(v.stack) \cup {t}
    <3>1. t \in N /\ v.stack \in Seq(N) BY <1>0, <1>2, <1>5
    <3> HIDE DEF w, t
    <3>2. /\ Append(v.stack, t) # <<>>
          /\ Append(v.stack, t)[Len(Append(v.stack, t))] = t
          /\ EntriesOf(Append(v.stack, t)) = EntriesOf(v.stack) \cup {t}
      BY <3>1, Appended
    <3> QED BY <2>3, <3>2 DEF Last
  <2> HIDE DEF w
  <2>5. ToDo(E, N, w) <= m - 1 BY <2>2, ToDoIsBounded
  <2>6. Answers(E, N, S, w, d) BY <2>2, <2>5
  <2>7. d \in States(N) /\ Grows(v.known, d) BY <2>2, <2>6, GrowsOn DEF Answers
  <2>8. Answers(E, N, S, u(d), f[u(d)]) BY <1>3, <1>5, <2>7
  <2>9. Entered(E, S, v) => Entered(E, S, w)
    <3>1. Entered(E, S, v) => w.known.visited \cap S \subseteq EntriesOf(w.stack)
      BY <2>3, <2>4 DEF Entered
    <3>2. \A j \in 1..Len(E) : ~(j < w.next) BY <2>3, <1>0
    <3> QED BY <2>3, <2>4, <3>1, <3>2 DEF Entered
  <2>10. Entered(E, S, v) /\ d.cycles = {} =>
           /\ d.visited \cap S \subseteq EntriesOf(v.stack)
           /\ E[k].target \notin S
    BY <2>4, <2>6, <2>9 DEF Answers, LeftBehind
  <2>11. Answers(E, N, S, v, f[u(d)])
    BY <1>2, <1>5, <2>7, <2>8, <2>10, NextAnswers
  <2>12. u(d) \in Visits(N) /\ ToDo(E, N, u(d)) <= m - 1
    BY <1>3, <1>5, <2>7
  <2>13. ASSUME NEW g, \A x \in Visits(N) : ToDo(E, N, x) <= m - 1 => g[x] = f[x]
         PROVE  g[u(g[w])] = f[u(d)]
    <3>1. g[w] = d BY <2>2, <2>5, <2>13
    <3> HIDE DEF u, d
    <3> QED BY <2>12, <2>13, <3>1
  <2> HIDE DEF u, d
  <2>14. dfs_step(f, E, v) = f[u(d)] BY <2>1 DEF d
  <2> QED BY <2>1, <2>11, <2>13, <2>14
<1>6. CASE ~(k > Len(E)) /\ E[k].source = Last(v) /\ t \in v.known.visited
  <2> DEFINE d == Met(v.known, v.stack, t)
  <2>1. \A g : dfs_step(g, E, v) = g[u(d)] BY <1>6 DEF dfs_step, Last
  <2>2. /\ d \in States(N) /\ Grows(v.known, d)
        /\ t \in EntriesOf(v.stack) => d.cycles # {}
        /\ d.visited = v.known.visited
    BY <1>2, <1>6, MetGrows
  <2> HIDE DEF d
  <2>3. Answers(E, N, S, u(d), f[u(d)]) BY <1>3, <1>6, <2>2
  <2>4. Entered(E, S, v) /\ d.cycles = {} =>
          /\ d.visited \cap S \subseteq EntriesOf(v.stack)
          /\ E[k].target \notin S
    BY <1>6, <2>2 DEF Entered
  <2>5. Answers(E, N, S, v, f[u(d)])
    BY <1>2, <1>6, <2>2, <2>3, <2>4, NextAnswers
  <2>6. u(d) \in Visits(N) /\ ToDo(E, N, u(d)) <= m - 1
    BY <1>3, <1>6, <2>2
  <2> HIDE DEF u
  <2> QED BY <2>1, <2>5, <2>6
<1> QED BY <1>1, <1>4, <1>5, <1>6

(* f does what the search says on visits with at most n to do. *)
Works(f, E, N, n) ==
  \A v \in Visits(N) : ToDo(E, N, v) <= n =>
    f[v] = dfs_step(f, E, v) /\ Answers(E, N, {}, v, f[v])

(* A function that works as far as any number of steps. *)
LEMMA SearchExists ==
  ASSUME NEW E, NEW N, Graph(E, N), NEW n \in Nat
  PROVE  \E f : Works(f, E, N, n)
<1> DEFINE none == {m \in Nat : ~\E f : Works(f, E, N, m)}
<1>0. Closed(E, {}) BY DEF Closed
<1>1. none = {}
  <2> SUFFICES ASSUME none # {} PROVE FALSE
    OBVIOUS
  <2>1. PICK m \in none : \A k \in none : m <= k
    <3>1. none \in SUBSET Nat OBVIOUS
    <3> HIDE DEF none
    <3> QED BY <3>1, LeastNumber
  <2>2. \E f : \A v \in Visits(N) : ToDo(E, N, v) <= m - 1 =>
          f[v] = dfs_step(f, E, v) /\ Answers(E, N, {}, v, f[v])
    <3>1. CASE m = 0
      <4>1. \A v \in Visits(N) : ~(ToDo(E, N, v) <= 0 - 1) BY ToDoIsBounded
      <4> QED BY <3>1, <4>1
    <3>2. CASE m # 0
      <4>1. m - 1 \in Nat /\ ~(m <= m - 1) BY <2>1, <3>2
      <4>2. m - 1 \notin none
        <5> HIDE DEF none
        <5> QED BY <2>1, <4>1
      <4> QED BY <4>1, <4>2 DEF Works
    <3> QED BY <3>1, <3>2
  <2>3. PICK f : \A v \in Visits(N) : ToDo(E, N, v) <= m - 1 =>
          f[v] = dfs_step(f, E, v) /\ Answers(E, N, {}, v, f[v])
    BY <2>2
  <2> DEFINE h == [v \in Visits(N) |->
                     IF ToDo(E, N, v) <= m - 1 THEN f[v] ELSE dfs_step(f, E, v)]
  <2>4. ASSUME NEW v \in Visits(N), ToDo(E, N, v) <= m
        PROVE  h[v] = dfs_step(h, E, v) /\ Answers(E, N, {}, v, h[v])
    <3>1. h[v] = dfs_step(f, E, v) BY <2>3
    <3>2. \A w \in Visits(N) : ToDo(E, N, w) <= m - 1 => h[w] = f[w] OBVIOUS
    <3>3. m \in Int BY <2>1
    <3> HIDE DEF h
    <3>4. /\ Answers(E, N, {}, v, dfs_step(f, E, v))
          /\ dfs_step(h, E, v) = dfs_step(f, E, v)
      BY <1>0, <2>3, <2>4, <3>2, <3>3, StepAnswers
    <3> QED BY <3>1, <3>4
  <2>5. Works(h, E, N, m)
    <3> HIDE DEF h
    <3> QED BY <2>4 DEF Works
  <2> QED BY <2>1, <2>5
<1> QED BY <1>1

(* So there is a function that satisfies the equation of the search.       *)
LEMMA SearchHasFunction ==
  ASSUME NEW E, NEW N, Graph(E, N)
  PROVE  \E f : f = [v \in Visits(N) |-> dfs_step(f, E, v)]
<1>1. PICK n \in Nat : \A v \in Visits(N) : ToDo(E, N, v) <= n
  <2>1. Most(E, N) \in Nat
    <3>1. IsFiniteSet(N) /\ Len(E) \in Nat BY DEF Graph
    <3>2. Cardinality(N) + 1 \in Nat /\ Width(E) \in Nat
      BY <3>1, FS_CardinalityType DEF Width
    <3> QED BY <3>2 DEF Most
  <2> QED BY <2>1, ToDoIsBounded
<1>2. PICK f0 : Works(f0, E, N, n) BY SearchExists
<1> DEFINE f == [v \in Visits(N) |-> f0[v]]
<1>3. ASSUME NEW v \in Visits(N) PROVE f[v] = dfs_step(f, E, v)
  <2>1. f0[v] = dfs_step(f0, E, v) BY <1>1, <1>2 DEF Works
  <2>2. \A w \in Visits(N) : f[w] = f0[w] OBVIOUS
  <2>3. ToDo(E, N, v) <= n + 1 /\ n + 1 \in Int /\ n = (n + 1) - 1
    BY <1>1, ToDoIsBounded
  <2>4. Closed(E, {}) BY DEF Closed
  <2>5. \A w \in Visits(N) : ToDo(E, N, w) <= (n + 1) - 1 => Answers(E, N, {}, w, f0[w])
    BY <1>1, <1>2 DEF Works
  <2> HIDE DEF f
  <2>6. dfs_step(f, E, v) = dfs_step(f0, E, v)
    BY <2>2, <2>3, <2>4, <2>5, StepAnswers
  <2> QED BY <2>1, <2>2, <2>6
<1>4. f = [v \in Visits(N) |-> f[v]] OBVIOUS
<1> HIDE DEF f
<1>5. f = [v \in Visits(N) |-> dfs_step(f, E, v)] BY <1>3, <1>4
<1> QED BY <1>5

(* And any such function searches rightly. *)
LEMMA SearchAnswers ==
  ASSUME NEW E, NEW N, NEW S, Graph(E, N), Closed(E, S), NEW f,
         \A v \in Visits(N) : f[v] = dfs_step(f, E, v)
  PROVE  \A v \in Visits(N) : Answers(E, N, S, v, f[v])
<1> DEFINE wrong == {n \in Nat : \E v \in Visits(N) :
                       ToDo(E, N, v) = n /\ ~Answers(E, N, S, v, f[v])}
<1>1. wrong = {}
  <2> SUFFICES ASSUME wrong # {} PROVE FALSE
    OBVIOUS
  <2>1. PICK n \in wrong : \A k \in wrong : n <= k
    <3>1. wrong \in SUBSET Nat OBVIOUS
    <3> HIDE DEF wrong
    <3> QED BY <3>1, LeastNumber
  <2>2. PICK v \in Visits(N) : ToDo(E, N, v) = n /\ ~Answers(E, N, S, v, f[v])
    BY <2>1
  <2>3. ASSUME NEW w \in Visits(N), ToDo(E, N, w) <= n - 1
        PROVE  Answers(E, N, S, w, f[w])
    <3>1. ToDo(E, N, w) \in Nat /\ n \in Nat BY <2>1, ToDoIsBounded
    <3>2. ~(n <= ToDo(E, N, w)) BY <2>3, <3>1
    <3>3. ToDo(E, N, w) \notin wrong
      <4> HIDE DEF wrong
      <4> QED BY <2>1, <3>2
    <3> QED BY <3>1, <3>3
  <2>4. n \in Int /\ ToDo(E, N, v) <= n BY <2>1, <2>2
  <2>5. Answers(E, N, S, v, dfs_step(f, E, v))
    <3> HIDE DEF wrong
    <3> QED BY <2>3, <2>4, StepAnswers
  <2> QED BY <2>2, <2>5
<1> QED BY <1>1, ToDoIsBounded

(* The calls of an application are such a graph. *)
LEMMA CallGraph == ASSUME Given PROVE Graph(Edges, CallNames)
<1> DEFINE T == {e.target : e \in EntriesOf(Edges)}
           I == {P(i).id : i \in Programs}
           f == [k \in 1..Len(Edges) |-> Edges[k].target]
           g == [i \in Programs |-> P(i).id]
<1>1. Len(Edges) \in Nat /\ DOMAIN Edges = 1..Len(Edges) BY EdgesAreOfPrograms
<1>2. \A k \in 1..Len(Edges) : Edges[k].target \in T BY <1>1 DEF EntriesOf
<1>3. f \in Surjection(1..Len(Edges), T)
  <2>1. f \in [1..Len(Edges) -> T] BY <1>2
  <2>2. ASSUME NEW t \in T PROVE \E k \in 1..Len(Edges) : f[k] = t
    BY <1>1 DEF EntriesOf
  <2> HIDE DEF T, f
  <2> QED BY <2>1, <2>2 DEF Surjection
<1>4. g \in Surjection(Programs, I) BY DEF Surjection
<1>5. IsFiniteSet(1..Len(Edges)) BY <1>1, FS_Interval
<1>6. Len(app.programs) \in Nat BY ApplicationsAssumption DEF Given
<1>7. IsFiniteSet(Programs) BY <1>6, FS_Interval DEF Programs
<1>8. CallNames = T \cup I BY DEF CallNames
<1> HIDE DEF T, I, f, g
<1>9. IsFiniteSet(T) /\ IsFiniteSet(I) BY <1>3, <1>4, <1>5, <1>7, FS_Surjection
<1>10. IsFiniteSet(T \cup I) BY <1>9, FS_Union
<1> QED BY <1>1, <1>2, <1>8, <1>10 DEF Graph

(* The search begins at every program in turn. *)
From(f, g, i) ==
  IF i = 0 THEN Search({}, {})
  ELSE IF P(i).id \in g[i - 1].visited THEN g[i - 1]
  ELSE f[Visit(<<P(i).id>>, 1, Down(g[i - 1], P(i).id))]

LEMMA FromExists ==
  ASSUME NEW n \in Nat, NEW f
  PROVE  \E g : g = [i \in 0..n |-> From(f, g, i)]
<1> DEFINE Goes(g, m) == g = [i \in 0..m |-> From(f, g, i)]
           none == {m \in Nat : ~\E g : Goes(g, m)}
<1>0. ASSUME NEW g, NEW h, NEW i, g[i - 1] = h[i - 1]
      PROVE  From(f, g, i) = From(f, h, i)
  BY <1>0 DEF From
<1>1. none = {}
  <2> SUFFICES ASSUME none # {} PROVE FALSE
    OBVIOUS
  <2>1. PICK m \in none : \A k \in none : m <= k
    <3>1. none \in SUBSET Nat OBVIOUS
    <3> HIDE DEF none
    <3> QED BY <3>1, LeastNumber
  <2>2. CASE m = 0
    <3> DEFINE g == [i \in 0..0 |-> Search({}, {})]
    <3>1. \A i \in 0..0 : From(f, g, i) = Search({}, {}) BY DEF From
    <3>2. Goes(g, 0)
      <4>1. g = [i \in 0..0 |-> g[i]] /\ \A i \in 0..0 : g[i] = Search({}, {}) OBVIOUS
      <4> HIDE DEF g
      <4> QED BY <3>1, <4>1
    <3> HIDE DEF g
    <3> QED BY <2>1, <2>2, <3>2
  <2>3. CASE m # 0
    <3>1. m - 1 \in Nat /\ m \in Nat /\ m - 1 < m BY <2>1, <2>3
    <3>2. m - 1 \notin none
      <4>1. ~(m <= m - 1) BY <3>1
      <4> HIDE DEF none
      <4> QED BY <2>1, <4>1
    <3>3. PICK h : Goes(h, m - 1) BY <3>1, <3>2
    <3>4. \A i \in 0..(m - 1) : h[i] = From(f, h, i) BY <3>3
    <3> DEFINE g == [i \in 0..m |-> IF i = m THEN From(f, h, m) ELSE h[i]]
    <3>5. /\ g = [i \in 0..m |-> g[i]]
          /\ \A i \in 0..m : i # m => g[i] = h[i]
          /\ g[m] = From(f, h, m)
      BY <3>1
    <3>6. ASSUME NEW i \in 0..m PROVE g[i] = From(f, g, i)
      <4> HIDE DEF g
      <4>1. CASE i = 0
        <5>1. From(f, g, i) = From(f, h, i) BY <4>1 DEF From
        <5>2. i \in 0..(m - 1) /\ i # m BY <2>3, <3>1, <4>1
        <5> QED BY <3>4, <3>5, <5>1, <5>2
      <4>2. CASE i # 0
        <5>1. i - 1 \in 0..m /\ i - 1 # m BY <3>1, <4>2
        <5>2. From(f, g, i) = From(f, h, i) BY <1>0, <3>5, <5>1
        <5>3. CASE i = m BY <3>5, <5>2, <5>3
        <5>4. CASE i # m
          <6>1. i \in 0..(m - 1) BY <3>1, <5>4
          <6> QED BY <3>4, <3>5, <5>2, <5>4, <6>1
        <5> QED BY <5>3, <5>4
      <4> QED BY <4>1, <4>2
    <3> HIDE DEF g
    <3>7. Goes(g, m) BY <3>5, <3>6
    <3> QED BY <2>1, <3>7
  <2> QED BY <2>2, <2>3
<1>2. \E g : Goes(g, n) BY <1>1
<1> QED BY <1>2

(* After each program, when no cycle was found, no name of S was visited,  *)
(* and the programs so far were.                                           *)
Begun(S, s, i) ==
  /\ s \in States(CallNames)
  /\ s.cycles = {} => /\ s.visited \cap S = {}
                      /\ \A j \in 1..i : P(j).id \in s.visited

(* One more program. *)
LEMMA ProgramAnswers ==
  ASSUME Given, NEW S, NEW f,
         \A v \in Visits(CallNames) : Answers(Edges, CallNames, S, v, f[v]),
         NEW g, NEW i \in Programs, Begun(S, g[i - 1], i - 1)
  PROVE  Begun(S, From(f, g, i), i)
<1> DEFINE s == g[i - 1]
           p == P(i).id
           v == Visit(<<p>>, 1, Down(s, p))
<1>1. i \in Nat /\ i # 0 BY ApplicationsAssumption DEF Given, Programs
<1>2. \A j \in 1..i : j \in 1..(i - 1) \/ j = i BY <1>1
<1>3. CASE p \in s.visited
  <2>1. From(f, g, i) = s BY <1>1, <1>3 DEF From
  <2> QED BY <1>2, <1>3, <2>1 DEF Begun
<1>4. CASE p \notin s.visited
  <2>1. From(f, g, i) = f[v] BY <1>1, <1>4 DEF From
  <2>2. p \in CallNames /\ s \in States(CallNames) BY DEF CallNames, Begun
  <2>3. /\ v \in Visits(CallNames) /\ v.stack = <<p>> /\ v.next = 1
        /\ v.known.visited = s.visited \cup {p} /\ v.known.cycles = s.cycles
        /\ Last(v) = p
    <3> HIDE DEF s, p
    <3> QED BY <2>2 DEF Visit, Visits, Down, Search, States, Last
  <2>4. EntriesOf(v.stack) = {p} BY <2>3 DEF EntriesOf
  <2> HIDE DEF v, s, p
  <2>5. Answers(Edges, CallNames, S, v, f[v]) BY <2>3
  <2>6. s.cycles = {} => Entered(Edges, S, v)
    <3>1. \A k \in 1..Len(Edges) : ~(k < v.next) BY <2>3, EdgesAreOfPrograms
    <3>2. v.stack # <<>> BY <2>3
    <3>3. s.cycles = {} => v.known.visited \cap S \subseteq EntriesOf(v.stack)
      BY <2>3, <2>4 DEF Begun, s
    <3> QED BY <3>1, <3>2, <3>3 DEF Entered
  <2>7. ASSUME f[v].cycles = {}
        PROVE  f[v].visited \cap S = {} /\ \A j \in 1..i : P(j).id \in f[v].visited
    <3>1. s.cycles = {} BY <2>3, <2>5, <2>7 DEF Answers, Grows
    <3>2. p \notin S /\ f[v].visited \cap S \subseteq {p}
      BY <2>3, <2>4, <2>5, <2>6, <2>7, <3>1 DEF Answers, LeftBehind
    <3>3. v.known.visited \subseteq f[v].visited BY <2>5 DEF Answers, Grows
    <3>4. \A j \in 1..(i - 1) : P(j).id \in s.visited BY <3>1 DEF Begun, s
    <3>5. P(i).id = p BY DEF p
    <3> QED BY <1>2, <2>3, <3>2, <3>3, <3>4, <3>5
  <2> QED BY <2>1, <2>5, <2>7 DEF Begun, Answers
<1> QED BY <1>3, <1>4

(* No cycle found, no endless set of programs. *)
LEMMA CyclesAreDetected ==
  ASSUME Given, detect_cycles = {},
         NEW S \in SUBSET {P(i).id : i \in Programs}, Closed(Edges, S)
  PROVE  S = {}
<1> DEFINE n == Len(app.programs)
           Dfs1(f) == f = [v \in Visits(CallNames) |-> dfs_step(f, Edges, v)]
           f == CHOOSE h : Dfs1(h)
           From1(g) == g = [i \in 0..n |-> From(f, g, i)]
           from == CHOOSE h : From1(h)
<1>1. n \in Nat /\ Programs = 1..n BY ApplicationsAssumption DEF Given, Programs
<1>2. Graph(Edges, CallNames) BY CallGraph
<1>3. Dfs1(f)
  <2>1. \E h : Dfs1(h) BY <1>2, SearchHasFunction
  <2> HIDE DEF Dfs1
  <2> QED BY <2>1
<1>4. detect_cycles = from[n].cycles BY DEF detect_cycles, Dfs, From
<1>5. \A v \in Visits(CallNames) : f[v] = dfs_step(f, Edges, v)
  <2> HIDE DEF f
  <2> QED BY <1>3
<1> HIDE DEF f
<1>6. \A v \in Visits(CallNames) : Answers(Edges, CallNames, S, v, f[v])
  BY <1>2, <1>5, SearchAnswers
<1>7. From1(from)
  <2>1. \E h : From1(h)
    <3> HIDE DEF n
    <3> QED BY <1>1, FromExists
  <2> HIDE DEF From1
  <2> QED BY <2>1
<1> HIDE DEF from
<1>8. \A i \in 0..n : from[i] = From(f, from, i) BY <1>7
<1> DEFINE wrong == {i \in 0..n : ~Begun(S, from[i], i)}
<1> HIDE DEF n
<1>9. wrong = {}
  <2> SUFFICES ASSUME wrong # {} PROVE FALSE
    OBVIOUS
  <2>1. PICK i \in wrong : \A k \in wrong : i <= k
    <3>1. wrong \in SUBSET Nat BY <1>1
    <3> HIDE DEF wrong
    <3> QED BY <3>1, LeastNumber
  <2>2. i \in 0..n /\ from[i] = From(f, from, i) BY <1>8, <2>1
  <2>3. CASE i = 0
    <3>1. from[i] = Search({}, {}) BY <2>2, <2>3 DEF From
    <3>2. Begun(S, Search({}, {}), 0) BY DEF Begun, Search, States
    <3> QED BY <2>1, <2>3, <3>1, <3>2
  <2>4. CASE i # 0
    <3>1. i \in Programs /\ i - 1 \in 0..n /\ ~(i <= i - 1) BY <1>1, <2>2, <2>4
    <3>2. i - 1 \notin wrong
      <4> HIDE DEF wrong
      <4> QED BY <2>1, <3>1
    <3>3. Begun(S, from[i - 1], i - 1) BY <3>1, <3>2
    <3>4. Begun(S, From(f, from, i), i) BY <1>6, <3>1, <3>3, ProgramAnswers
    <3> QED BY <2>1, <2>2, <3>4
  <2> QED BY <2>3, <2>4
<1>10. Begun(S, from[n], n)
  <2>1. n \in 0..n BY <1>1
  <2> QED BY <1>9, <2>1
<1>11. \A i \in Programs : P(i).id \notin S BY <1>1, <1>4, <1>10 DEF Begun
<1> QED BY <1>11

(* No programs that call each other for ever. *)
CycleFree == ~Cyclic({P(i).id : i \in Programs}, Calls)

CycleReported == CycleFree \/ \E c \in analysis.calls : c.level # "SUPPORTED"

(* The analysis reports a cycle, and past the plan there is none.          *)
CycleInv ==
  /\ Given
  /\ phase = "analyzed" => CycleReported
  /\ phase \in {"planned", "transformed", "assembled"} \/ report.success => CycleFree

LEMMA CyclesAreReported ==
  ASSUME Given
  PROVE  CycleFree \/ \E c \in analyze.calls : c.level # "SUPPORTED"
<1>1. CASE detect_cycles = {}
  <2>1. ASSUME NEW S \in SUBSET {P(i).id : i \in Programs},
               \A n \in S : \E k \in S : Calls(n, k)
        PROVE  S = {}
    <3>1. DOMAIN Edges = 1..Len(Edges) BY EdgesAreOfPrograms
    <3>2. Closed(Edges, S)
      <4> SUFFICES ASSUME NEW n \in S
                   PROVE  \E k \in 1..Len(Edges) : Edges[k].source = n /\ Edges[k].target \in S
        BY DEF Closed
      <4>1. PICK e \in EntriesOf(Edges) : e.source = n /\ e.target \in S
        BY <2>1 DEF Calls
      <4> QED BY <3>1, <4>1 DEF EntriesOf
    <3> QED BY <1>1, <3>2, CyclesAreDetected
  <2>2. CycleFree BY <2>1 DEF CycleFree, Cyclic
  <2> QED BY <2>2
<1>2. CASE detect_cycles # {}
  <2>1. PICK x : x \in detect_cycles BY <1>2
  <2> DEFINE c == Component(x, "CALL", "UNSUPPORTED")
  <2>2. c \in {Component(y, "CALL", "UNSUPPORTED") : y \in detect_cycles} BY <2>1
  <2>3. {Component(y, "CALL", "UNSUPPORTED") : y \in detect_cycles} \subseteq analyze.calls
    <3> HIDE DEF c
    <3> QED BY DEF analyze
  <2>4. c.level = "UNSUPPORTED" BY DEF Component
  <2> HIDE DEF c
  <2> QED BY <2>2, <2>3, <2>4
<1> QED BY <1>1, <1>2

(* A plan without a SKIP has no CALL that is not supported. *)
LEMMA PlannedCycleFree ==
  ASSUME CycleReported, Skipped(generate_plan) = {}
  PROVE  CycleFree
<1> SUFFICES ASSUME NEW c \in analysis.calls, c.level # "SUPPORTED" PROVE FALSE
  BY DEF CycleReported
<1>1. ComponentPlan(c.id, "CALL", c.level) \in plan_calls BY DEF plan_calls
<1>2. ComponentPlan(c.id, "CALL", c.level).action = "SKIP" BY DEF ComponentPlan
<1> QED BY <1>1, <1>2 DEF Skipped, generate_plan

LEMMA CycleInduction ==
  PhaseInv /\ CycleInv /\ [Next]_modernizationVars => CycleInv'
<1> SUFFICES ASSUME PhaseInv, CycleInv, [Next]_modernizationVars
             PROVE  CycleInv'
  OBVIOUS
<1>a. app' = app
  BY DEF Next, Discover, Analyze, Plan, Transform, TransformFails, Assemble,
         AssembleFails, CheckFailClosedSymbols, modernizationVars
<1>b. Given' BY <1>a DEF CycleInv, Given
<1>c. CycleFree' <=> CycleFree
  <2>1. Edges' = Edges
    BY <1>a DEF Edges, EdgesOf, P, Programs, normalize_cobol_name
  <2>2. \A a, b : Calls(a, b)' <=> Calls(a, b) BY <2>1 DEF Calls, EntriesOf
  <2>3. {P(i).id : i \in Programs}' = {P(i).id : i \in Programs}
    BY <1>a DEF P, Programs
  <2> QED BY <2>2, <2>3 DEF CycleFree, Cyclic
<1>1. CASE Discover
  BY <1>1, <1>b DEF Discover, PhaseInv, CycleInv, NoReport, Report
<1>2. CASE Analyze
  <2>1. phase' = "analyzed" /\ ~report'.success /\ analysis' = analyze
    BY <1>2 DEF Analyze, PhaseInv, NoReport, Report
  <2>2. CycleReported'
    BY <1>c, <2>1, CyclesAreReported DEF CycleInv, CycleReported
  <2> QED BY <1>b, <2>1, <2>2 DEF CycleInv
<1>3. CASE Plan
  <2>1. ~report.success /\ phase' # "analyzed" /\ CycleReported
    BY <1>3 DEF Plan, PhaseInv, NoReport, Report, CycleInv
  <2>2. CASE gate(generate_plan)
    <3>1. CycleFree BY <2>1, <2>2, PlannedCycleFree DEF gate
    <3> QED BY <1>b, <1>c, <2>1, <3>1 DEF CycleInv
  <2>3. CASE ~gate(generate_plan)
    <3>1. phase' = "reported" /\ ~report'.success
      BY <1>3, <2>3 DEF Plan, Report
    <3> QED BY <1>b, <3>1 DEF CycleInv
  <2> QED BY <2>2, <2>3
<1>4. CASE Transform \/ Assemble
  <2>1. CycleFree /\ phase' # "analyzed"
    BY <1>4 DEF Transform, Assemble, CycleInv
  <2> QED BY <1>b, <1>c, <2>1 DEF CycleInv
<1>5. CASE TransformFails \/ AssembleFails
  <2>1. phase' = "reported" /\ ~report'.success
    BY <1>5 DEF TransformFails, AssembleFails, assembly_failed, Report
  <2> QED BY <1>b, <2>1 DEF CycleInv
<1>6. CASE CheckFailClosedSymbols
  <2>1. CycleFree /\ phase' = "reported"
    BY <1>6 DEF CheckFailClosedSymbols, CycleInv
  <2> QED BY <1>b, <1>c, <2>1 DEF CycleInv
<1>7. CASE UNCHANGED modernizationVars
  <2>1. UNCHANGED <<phase, analysis, report>> BY <1>7 DEF modernizationVars
  <2>2. CycleReported' <=> CycleReported BY <1>c, <2>1 DEF CycleReported
  <2> QED BY <1>b, <1>c, <2>1, <2>2 DEF CycleInv
<1> QED BY <1>1, <1>2, <1>3, <1>4, <1>5, <1>6, <1>7 DEF Next

(* Whatever the calls of an application, in any order of programs and of   *)
(* edges, one depth first search with a shared set of visited names finds  *)
(* a cycle when there is one, and the plan skips it (detect_cycles,        *)
(* _analyze_call, execute): no generated program calls itself, at any      *)
(* distance.                                                               *)
THEOREM CallCyclesAreRefused == Spec => []NoCallCycleIsGenerated
<1>1. Init => CycleInv
  BY DEF Init, CycleInv, Given, NoReport, Report
<1>2. CycleInv => NoCallCycleIsGenerated
  BY DEF CycleInv, CycleFree, NoCallCycleIsGenerated
<1> QED BY <1>1, <1>2, CycleInduction, PhaseInvariant, PTL DEF Spec
===============================================================================
